-------------------------- MODULE ArrayListProofs --------------------------
(***************************************************************************)
(* array_list for any finite set of lists, any values, allocators, initial *)
(* lists and capacities, and any allocation or element copy that fails: a  *)
(* buffer holds whole elements and no others, no block is leaked, and each *)
(* call does to the contents what ListContract says.                       *)
(*                                                                         *)
(* The element loops are folds; FoldsAlong proves, by induction on Nat,    *)
(* that a fold ends where a chain of buffers with one step of the loop     *)
(* between neighbours ends.  Each loop then gets a lemma with its chain in *)
(* closed form.  Holds(l, s) says that l is a sound list with contents s,  *)
(* and every call is a lemma from Holds to Holds.                          *)
(***************************************************************************)
EXTENDS ArrayList, ListLemmas

-----------------------------------------------------------------------------
(* Folds *)

\* One element operation of a fold, as data.
Do(c, e) ==
  CASE e.op = "shift"     -> Shift(c, e.p, e.q)
    [] e.op = "destroy"   -> Destroy(c, e.p)
    [] e.op = "construct" -> ConstructIn(c, e.p, e.v)
    [] e.op = "add"       -> IF c.ok THEN add1(c, e.v) ELSE c

\* The recursion that a fold of the community modules chooses a solution of.
Folds(r, b, es, n) ==
  r = [s \in SUBSET (1 .. n) |-> IF s = {} THEN b ELSE Do(r[s \ {Max(s)}], es[Max(s)])]

LEMMA FoldsStep ==
  ASSUME NEW b, NEW es, NEW k \in Nat, NEW r, Folds(r, b, es, k)
  PROVE  \E t : Folds(t, b, es, k + 1)
<1> DEFINE t == [s \in SUBSET (1 .. k + 1) |->
                   IF k + 1 \in s THEN Do(r[s \ {k + 1}], es[k + 1]) ELSE r[s]]
<1>1. \A s \in SUBSET (1 .. k + 1) :
        t[s] = IF s = {} THEN b ELSE Do(t[s \ {Max(s)}], es[Max(s)])
  <2> TAKE s \in SUBSET (1 .. k + 1)
  <2>1. CASE k + 1 \in s
    <3>1. Max(s) = k + 1 BY <2>1, MaxOf
    <3>2. s \ {k + 1} \in SUBSET (1 .. k + 1) /\ k + 1 \notin s \ {k + 1} OBVIOUS
    <3>3. t[s \ {k + 1}] = r[s \ {k + 1}] BY <3>2
    <3>4. t[s] = Do(r[s \ {k + 1}], es[k + 1]) /\ s # {} BY <2>1
    <3> HIDE DEF t
    <3> QED BY <3>1, <3>3, <3>4
  <2>2. CASE k + 1 \notin s
    <3>1. s \in SUBSET (1 .. k) BY <2>2
    <3>2. t[s] = r[s] BY <2>2
    <3>3. CASE s = {} BY <3>1, <3>2, <3>3 DEF Folds
    <3>4. CASE s # {}
      <4>1. ASSUME NEW x PROVE s \ {x} \in SUBSET (1 .. k + 1) /\ k + 1 \notin s \ {x}
        <5>1. \A y \in 1 .. k : y \in 1 .. k + 1 /\ y # k + 1 OBVIOUS
        <5>2. \A y \in s : y \in 1 .. k + 1 /\ y # k + 1 BY <3>1, <5>1
        <5> QED BY <5>2, Zenon
      <4>2. t[s \ {Max(s)}] = r[s \ {Max(s)}]
        <5> s \ {Max(s)} \in SUBSET (1 .. k + 1) /\ k + 1 \notin s \ {Max(s)} BY <4>1
        <5> QED OBVIOUS
      <4>3. r[s] = Do(r[s \ {Max(s)}], es[Max(s)]) BY <3>1, <3>4 DEF Folds
      <4> HIDE DEF t
      <4> QED BY <3>2, <3>4, <4>2, <4>3
    <3> QED BY <3>3, <3>4
  <2> QED BY <2>1, <2>2
<1>2. t = [s \in SUBSET (1 .. k + 1) |-> t[s]] OBVIOUS
<1> HIDE DEF t
<1>3. Folds(t, b, es, k + 1) BY <1>1, <1>2 DEF Folds
<1> QED BY <1>3

LEMMA FoldsExist ==
  ASSUME NEW b, NEW es, NEW n \in Nat
  PROVE  \E r : Folds(r, b, es, n)
<1> DEFINE S == {k \in Nat : ~ \E r : Folds(r, b, es, k)}
<1> SUFFICES ASSUME S # {} PROVE FALSE BY DEF S
<1>1. PICK m \in S : \A k \in S : m <= k BY LeastNat
<1>2. m # 0
  <2> DEFINE r0 == [s \in SUBSET (1 .. 0) |-> b]
  <2>1. \A s \in SUBSET (1 .. 0) : s = {} /\ r0[s] = b OBVIOUS
  <2>2. Folds(r0, b, es, 0) BY <2>1 DEF Folds
  <2> QED BY <2>2, <1>1
<1>3. m - 1 \in Nat /\ m - 1 \notin S BY <1>1, <1>2
<1>4. PICK r : Folds(r, b, es, m - 1) BY <1>3
<1>5. \E t : Folds(t, b, es, (m - 1) + 1) BY <1>3, <1>4, FoldsStep
<1>6. (m - 1) + 1 = m BY <1>1
<1> QED BY <1>1, <1>5, <1>6

\* What a fold from b over es computes step by step.
Chain(a, b, es, n) == a[0] = b /\ \A k \in 1 .. n : a[k] = Do(a[k - 1], es[k])

\* A fold goes through the values of any chain that starts where it starts and
\* makes its steps.
LEMMA FoldsAlong ==
  ASSUME NEW n \in Nat, NEW es, NEW b, NEW a, Chain(a, b, es, n), NEW r, Folds(r, b, es, n)
  PROVE  r[1 .. n] = a[n]
<1> DEFINE S == {k \in 0 .. n : r[1 .. k] # a[k]}
<1> SUFFICES ASSUME S # {} PROVE FALSE BY DEF S
<1>1. PICK m \in S : \A k \in S : m <= k
  <2> S \in SUBSET Nat OBVIOUS
  <2> HIDE DEF S
  <2> QED BY LeastNat
<1>2. m # 0
  <2>1. r[{}] = a[0] BY DEF Folds, Chain
  <2>2. 1 .. 0 = {} OBVIOUS
  <2> QED BY <2>1, <2>2, <1>1
<1>3. m \in 1 .. n /\ m - 1 \in 0 .. n /\ m - 1 \notin S BY <1>1, <1>2
<1>4. r[1 .. (m - 1)] = a[m - 1] BY <1>3
<1>5. 1 .. m \in SUBSET (1 .. n) /\ 1 .. m # {} /\ (1 .. m) \ {m} = 1 .. (m - 1)
  <2>1. m \in Nat /\ 1 <= m /\ m <= n BY <1>3
  <2>2. m \in 1 .. m /\ \A x \in 1 .. m : x \in 1 .. n BY <2>1
  <2>3. \A x : x \in (1 .. m) \ {m} <=> x \in 1 .. (m - 1) BY <2>1
  <2>4. (1 .. m) \ {m} = 1 .. (m - 1) BY <2>3, Zenon
  <2> QED BY <2>2, <2>4
<1>6. Max(1 .. m) = m
  <2>1. m \in Nat /\ m \in 1 .. m BY <1>3
  <2> QED BY <2>1, MaxOf
<1>7. r[1 .. m] = Do(r[(1 .. m) \ {m}], es[m]) BY <1>5, <1>6 DEF Folds
<1>8. r[1 .. m] = a[m] BY <1>3, <1>4, <1>5, <1>7 DEF Chain
<1> QED BY <1>1, <1>8

ShiftsDown(a, b, ps, n) ==
  /\ DOMAIN ps = 1 .. n /\ a[0] = b
  /\ \A k \in 1 .. n : a[k] = Shift(a[k - 1], ps[k], ps[k] - 1)

LEMMA ShiftDownIs ==
  ASSUME NEW b, NEW n \in Nat, NEW ps, NEW a, ShiftsDown(a, b, ps, n)
  PROVE  ShiftDown(b, ps) = a[n]
<1> DEFINE es == [k \in 1 .. n |-> [op |-> "shift", p |-> ps[k], q |-> ps[k] - 1]]
           Solves(t) == t = [s \in SUBSET (1 .. n) |->
                               IF s = {} THEN b
                               ELSE Shift(t[s \ {Max(s)}], ps[Max(s)], ps[Max(s)] - 1)]
<1>1. \A c : \A k \in 1 .. n : Do(c, es[k]) = Shift(c, ps[k], ps[k] - 1) BY DEF Do
<1> HIDE DEF es
<1>2. ASSUME NEW t PROVE Folds(t, b, es, n) <=> Solves(t)
  <2>1. \A s \in SUBSET (1 .. n) : s # {} =>
          Do(t[s \ {Max(s)}], es[Max(s)]) = Shift(t[s \ {Max(s)}], ps[Max(s)], ps[Max(s)] - 1)
    BY <1>1, MaxIn
  <2> QED BY <2>1 DEF Folds
<1>3. PICK r : Folds(r, b, es, n) BY FoldsExist
<1> DEFINE F == CHOOSE t : Solves(t)
<1>4. Solves(F) BY <1>2, <1>3
<1>5. Folds(F, b, es, n) BY <1>2, <1>4
<1>6. ShiftDown(b, ps) = F[1 .. n] BY DEF ShiftsDown, ShiftDown, FoldLeft, MapThenFoldSet
<1>7. F[1 .. n] = a[n]
  <2> HIDE DEF F, Solves
  <2>1. Chain(a, b, es, n) BY <1>1 DEF Chain, ShiftsDown
  <2> QED BY <1>5, <2>1, FoldsAlong
<1> QED BY <1>6, <1>7

ShiftsUp(a, b, ps, n) ==
  /\ DOMAIN ps = 1 .. n /\ a[0] = b
  /\ \A k \in 1 .. n : a[k] = Shift(a[k - 1], ps[k], ps[k] + 1)

LEMMA ShiftUpIs ==
  ASSUME NEW b, NEW n \in Nat, NEW ps, NEW a, ShiftsUp(a, b, ps, n)
  PROVE  ShiftUp(b, ps) = a[n]
<1> DEFINE es == [k \in 1 .. n |-> [op |-> "shift", p |-> ps[k], q |-> ps[k] + 1]]
           Solves(t) == t = [s \in SUBSET (1 .. n) |->
                               IF s = {} THEN b
                               ELSE Shift(t[s \ {Max(s)}], ps[Max(s)], ps[Max(s)] + 1)]
<1>1. \A c : \A k \in 1 .. n : Do(c, es[k]) = Shift(c, ps[k], ps[k] + 1) BY DEF Do
<1> HIDE DEF es
<1>2. ASSUME NEW t PROVE Folds(t, b, es, n) <=> Solves(t)
  <2>1. \A s \in SUBSET (1 .. n) : s # {} =>
          Do(t[s \ {Max(s)}], es[Max(s)]) = Shift(t[s \ {Max(s)}], ps[Max(s)], ps[Max(s)] + 1)
    BY <1>1, MaxIn
  <2> QED BY <2>1 DEF Folds
<1>3. PICK r : Folds(r, b, es, n) BY FoldsExist
<1> DEFINE F == CHOOSE t : Solves(t)
<1>4. Solves(F) BY <1>2, <1>3
<1>5. Folds(F, b, es, n) BY <1>2, <1>4
<1>6. ShiftUp(b, ps) = F[1 .. n] BY DEF ShiftsUp, ShiftUp, FoldLeft, MapThenFoldSet
<1>7. F[1 .. n] = a[n]
  <2> HIDE DEF F, Solves
  <2>1. Chain(a, b, es, n) BY <1>1 DEF Chain, ShiftsUp
  <2> QED BY <1>5, <2>1, FoldsAlong
<1> QED BY <1>6, <1>7
-----------------------------------------------------------------------------
(* What the element operations do to a sound buffer *)

Slot == Built \cup {Raw}

LEMMA RawIsNoElement == Raw \notin Built /\ Raw \notin Values
BY ArrayListAssumption DEF Built, Raw, Moved

\* Buffer c of N slots is b with the element of slot p in slot q.
Shifted(c, b, N, p, q) ==
  c = [x \in 1 .. N |-> IF x = q THEN b[p] ELSE IF x = p THEN Raw ELSE b[x]]

LEMMA ShiftWorks ==
  ASSUME NEW N \in Nat, NEW b \in [1 .. N -> Slot], NEW p \in 1 .. N, NEW q \in 1 .. N,
         p # q, b[p] \in Values, b[q] = Raw
  PROVE  Shifted(Shift(b, p, q), b, N, p, q)
<1> DEFINE c == [b EXCEPT ![q] = b[p]]
           d == [c EXCEPT ![p] = Moved]
<1>1. ConstructIn(b, q, b[p]) = c BY DEF ConstructIn, Built
<1>2. c # Torn
  <2>1. p \in DOMAIN c /\ q \in DOMAIN c /\ DOMAIN Torn = {1} BY DEF Torn
  <2> HIDE DEF c
  <2> QED BY <2>1
<1>3. p \in DOMAIN b /\ p \in DOMAIN d /\ d[p] \in Built BY DEF Built
<1>4. Destroy(d, p) = [d EXCEPT ![p] = Raw]
  <2> HIDE DEF d
  <2> QED BY <1>3 DEF Destroy
<1>5. Shift(b, p, q) = Destroy(d, p) BY <1>1, <1>2, <1>3 DEF Shift
<1>6. [d EXCEPT ![p] = Raw] =
        [x \in 1 .. N |-> IF x = q THEN b[p] ELSE IF x = p THEN Raw ELSE b[x]]
  OBVIOUS
<1> QED BY <1>4, <1>5, <1>6 DEF Shifted

\* Elements p to m go down into the raw slot in front of them.
\* Buffer c of N slots is b with elements p to m one slot further down.
WentDown(c, b, N, p, m) ==
  c = [x \in 1 .. N |-> IF x \in p - 1 .. m - 1 THEN b[x + 1] ELSE IF x = m THEN Raw ELSE b[x]]

LEMMA ShiftDownWorks ==
  ASSUME NEW N \in Nat, NEW b \in [1 .. N -> Slot], NEW p \in 2 .. N + 1, NEW m \in p - 1 .. N,
         b[p - 1] = Raw, \A x \in p .. m : b[x] \in Values
  PROVE  WentDown(ShiftDown(b, Upwards(p, m)), b, N, p, m)
<1> DEFINE n == m - p + 1
           a == [k \in 0 .. n |-> [x \in 1 .. N |->
                   IF x \in p - 1 .. p + k - 2 THEN b[x + 1]
                   ELSE IF x = p + k - 1 THEN Raw ELSE b[x]]]
           ps == Upwards(p, m)
<1>1. n \in Nat /\ DOMAIN ps = 1 .. n /\ \A k \in 1 .. n : ps[k] = p + k - 1 BY DEF Upwards
<1>2. a[0] = b
  <2>1. a[0] = [x \in 1 .. N |-> b[x]] OBVIOUS
  <2> QED BY <2>1
<1>3. ASSUME NEW k \in 1 .. n PROVE a[k] = Shift(a[k - 1], ps[k], ps[k] - 1)
  <2> DEFINE i == p + k - 1
             c == a[k - 1]
  <2>1. i \in 2 .. N /\ i \in p .. m /\ i - 1 \in 1 .. N /\ i - 1 # i /\ k - 1 \in 0 .. n OBVIOUS
  <2>2. \A x \in 1 .. N : b[x] \in Slot OBVIOUS
  <2>3. c \in [1 .. N -> Slot]
    <3>1. \A x \in 1 .. N : x \in p - 1 .. p + (k - 1) - 2 => x + 1 \in 1 .. N BY <2>1
    <3>2. Raw \in Slot BY DEF Slot
    <3>3. c = [x \in 1 .. N |-> IF x \in p - 1 .. p + (k - 1) - 2 THEN b[x + 1]
                                ELSE IF x = p + (k - 1) - 1 THEN Raw ELSE b[x]]
      BY <2>1
    <3> HIDE DEF c, a, i
    <3> QED BY <2>2, <3>1, <3>2, <3>3
  <2>4. c[i] = b[i] /\ c[i - 1] = Raw BY <2>1
  <2>5. Shift(c, i, i - 1) =
          [x \in 1 .. N |-> IF x = i - 1 THEN c[i] ELSE IF x = i THEN Raw ELSE c[x]]
    <3>1. c[i] \in Values BY <2>1, <2>4
    <3>2. i - 1 \in 1 .. N /\ i \in 1 .. N /\ i # i - 1 BY <2>1
    <3> DEFINE j == i - 1
    <3> HIDE DEF c, i, j
    <3>3. c[j] = Raw /\ j \in 1 .. N /\ i \in 1 .. N /\ i # j BY <2>4, <3>2 DEF j
    <3>4. Shifted(Shift(c, i, j), c, N, i, j) BY <2>3, <3>1, <3>3, ShiftWorks
    <3> QED BY <3>4 DEF Shifted, j
  <2>6. a[k] = [x \in 1 .. N |-> IF x = i - 1 THEN c[i] ELSE IF x = i THEN Raw ELSE c[x]]
    <3>1. \A x \in 1 .. N : c[x] = IF x \in p - 1 .. p + k - 3 THEN b[x + 1]
                                   ELSE IF x = i - 1 THEN Raw ELSE b[x]
      BY <2>1
    <3>2. \A x \in 1 .. N :
            (IF x \in p - 1 .. p + k - 2 THEN b[x + 1] ELSE IF x = i THEN Raw ELSE b[x])
              = (IF x = i - 1 THEN c[i] ELSE IF x = i THEN Raw ELSE c[x])
      <4> TAKE x \in 1 .. N
      <4>1. CASE x = i - 1 BY <4>1, <2>1, <2>4
      <4>2. CASE x = i BY <4>2, <2>1
      <4>3. CASE x # i - 1 /\ x # i
        <5>1. x \in p - 1 .. p + k - 2 <=> x \in p - 1 .. p + k - 3 BY <4>3
        <5> HIDE DEF c, a
        <5> QED BY <4>3, <5>1, <3>1
      <4> QED BY <4>1, <4>2, <4>3
    <3>3. a[k] = [x \in 1 .. N |-> IF x \in p - 1 .. p + k - 2 THEN b[x + 1]
                                   ELSE IF x = i THEN Raw ELSE b[x]]
      OBVIOUS
    <3> HIDE DEF a, c, i
    <3> QED BY <3>2, <3>3
  <2> HIDE DEF a
  <2> QED BY <2>5, <2>6, <1>1
<1>4. ShiftDown(b, ps) = a[n]
  <2> HIDE DEF a, ps, n
  <2>1. ShiftsDown(a, b, ps, n) BY <1>1, <1>2, <1>3 DEF ShiftsDown
  <2> QED BY <1>1, <2>1, ShiftDownIs
<1>5. a[n] = [x \in 1 .. N |-> IF x \in p - 1 .. m - 1 THEN b[x + 1] ELSE IF x = m THEN Raw ELSE b[x]]
  OBVIOUS
<1> QED BY <1>4, <1>5 DEF WentDown

\* Elements p to m go up, the last first, when the slot behind them is raw.
LEMMA ShiftUpWorks ==
  ASSUME NEW N \in Nat, NEW b \in [1 .. N -> Slot], NEW m \in 0 .. N - 1, NEW p \in 1 .. m + 1,
         b[m + 1] = Raw, \A x \in p .. m : b[x] \in Values
  PROVE  ShiftUp(b, Downwards(m, p)) =
           [x \in 1 .. N |-> IF x \in p + 1 .. m + 1 THEN b[x - 1] ELSE IF x = p THEN Raw ELSE b[x]]
<1> DEFINE n == m - p + 1
           a == [k \in 0 .. n |-> [x \in 1 .. N |->
                   IF x \in m - k + 2 .. m + 1 THEN b[x - 1]
                   ELSE IF x = m - k + 1 THEN Raw ELSE b[x]]]
           ps == Downwards(m, p)
<1>1. n \in Nat /\ DOMAIN ps = 1 .. n /\ \A k \in 1 .. n : ps[k] = m - k + 1 BY DEF Downwards
<1>2. a[0] = b
  <2>1. a[0] = [x \in 1 .. N |-> b[x]] OBVIOUS
  <2> QED BY <2>1
<1>3. ASSUME NEW k \in 1 .. n PROVE a[k] = Shift(a[k - 1], ps[k], ps[k] + 1)
  <2> DEFINE i == m - k + 1
             c == a[k - 1]
  <2>1. i \in 1 .. N /\ i \in p .. m /\ i + 1 \in 1 .. N /\ i + 1 # i /\ k - 1 \in 0 .. n OBVIOUS
  <2>2. \A x \in 1 .. N : b[x] \in Slot OBVIOUS
  <2>3. c \in [1 .. N -> Slot]
    <3>1. \A x \in 1 .. N : x \in m - (k - 1) + 2 .. m + 1 => x - 1 \in 1 .. N BY <2>1
    <3>2. Raw \in Slot BY DEF Slot
    <3> QED BY <2>1, <2>2, <3>1, <3>2
  <2>4. c[i] = b[i] /\ c[i + 1] = Raw BY <2>1
  <2>5. Shift(c, i, i + 1) =
          [x \in 1 .. N |-> IF x = i + 1 THEN c[i] ELSE IF x = i THEN Raw ELSE c[x]]
    <3> DEFINE j == i + 1
    <3>1. c[i] \in Values BY <2>1, <2>4
    <3>2. j \in 1 .. N /\ i \in 1 .. N /\ j # i /\ c[j] = Raw BY <2>1, <2>4
    <3> HIDE DEF c, i, j
    <3>3. Shifted(Shift(c, i, j), c, N, i, j) BY <2>3, <3>1, <3>2, ShiftWorks
    <3> QED BY <3>3 DEF Shifted, j
  <2>6. a[k] = [x \in 1 .. N |-> IF x = i + 1 THEN c[i] ELSE IF x = i THEN Raw ELSE c[x]]
    <3>1. \A x \in 1 .. N : c[x] = IF x \in m - k + 3 .. m + 1 THEN b[x - 1]
                                   ELSE IF x = i + 1 THEN Raw ELSE b[x]
      BY <2>1
    <3>2. \A x \in 1 .. N :
            (IF x \in m - k + 2 .. m + 1 THEN b[x - 1] ELSE IF x = i THEN Raw ELSE b[x])
              = (IF x = i + 1 THEN c[i] ELSE IF x = i THEN Raw ELSE c[x])
      <4> TAKE x \in 1 .. N
      <4>1. CASE x = i + 1 BY <4>1, <2>1, <2>4
      <4>2. CASE x = i BY <4>2, <2>1
      <4>3. CASE x # i + 1 /\ x # i
        <5>1. x \in m - k + 2 .. m + 1 <=> x \in m - k + 3 .. m + 1 BY <4>3
        <5> HIDE DEF c, a
        <5> QED BY <4>3, <5>1, <3>1
      <4> QED BY <4>1, <4>2, <4>3
    <3>3. a[k] = [x \in 1 .. N |-> IF x \in m - k + 2 .. m + 1 THEN b[x - 1]
                                   ELSE IF x = i THEN Raw ELSE b[x]]
      OBVIOUS
    <3> HIDE DEF a, c, i
    <3> QED BY <3>2, <3>3
  <2> HIDE DEF a
  <2> QED BY <2>5, <2>6, <1>1
<1>4. ShiftUp(b, ps) = a[n]
  <2> HIDE DEF a, ps, n
  <2>1. ShiftsUp(a, b, ps, n) BY <1>1, <1>2, <1>3 DEF ShiftsUp
  <2> QED BY <1>1, <2>1, ShiftUpIs
<1>5. a[n] = [x \in 1 .. N |-> IF x \in p + 1 .. m + 1 THEN b[x - 1] ELSE IF x = p THEN Raw ELSE b[x]]
  OBVIOUS
<1> QED BY <1>4, <1>5

\* The first n slots are emptied when each holds an element, moved from or not.
LEMMA DestroyAllWorks ==
  ASSUME NEW N \in Nat, NEW b \in [1 .. N -> Slot], NEW n \in 0 .. N,
         \A x \in 1 .. n : b[x] \in Built
  PROVE  DestroyAll(b, n) = [x \in 1 .. N |-> IF x <= n THEN Raw ELSE b[x]]
<1> DEFINE a == [k \in 0 .. n |-> [x \in 1 .. N |-> IF x \in n - k + 1 .. n THEN Raw ELSE b[x]]]
           ps == Downwards(n, 1)
           es == [k \in 1 .. n |-> [op |-> "destroy", p |-> ps[k]]]
           Solves(t) == t = [s \in SUBSET (1 .. n) |->
                               IF s = {} THEN b ELSE Destroy(t[s \ {Max(s)}], ps[Max(s)])]
<1>1. DOMAIN ps = 1 .. n /\ \A k \in 1 .. n : ps[k] = n - k + 1 BY DEF Downwards
<1>2. a[0] = b
  <2>1. a[0] = [x \in 1 .. N |-> b[x]] OBVIOUS
  <2> QED BY <2>1
<1>3. ASSUME NEW k \in 1 .. n PROVE a[k] = Destroy(a[k - 1], n - k + 1)
  <2> DEFINE i == n - k + 1
             c == a[k - 1]
  <2>1. i \in 1 .. N /\ i \in 1 .. n /\ k - 1 \in 0 .. n OBVIOUS
  <2>2. c = [x \in 1 .. N |-> IF x \in i + 1 .. n THEN Raw ELSE b[x]] BY <2>1
  <2>3. c[i] = b[i] /\ DOMAIN c = 1 .. N BY <2>1
  <2>4. a[k] = [c EXCEPT ![i] = Raw]
    <3>1. a[k] = [x \in 1 .. N |-> IF x \in i .. n THEN Raw ELSE b[x]] OBVIOUS
    <3>2. \A x \in 1 .. N : x \in i .. n <=> (x = i \/ x \in i + 1 .. n) BY <2>1
    <3> HIDE DEF a, c, i
    <3> QED BY <2>2, <3>1, <3>2
  <2> HIDE DEF a, c, i
  <2>5. Destroy(c, i) = [c EXCEPT ![i] = Raw] BY <2>1, <2>3 DEF Destroy
  <2> QED BY <2>4, <2>5 DEF c, i
<1>4. \A c : \A k \in 1 .. n : Do(c, es[k]) = Destroy(c, ps[k]) BY DEF Do
<1>5. Chain(a, b, es, n)
  <2> HIDE DEF a, es, ps
  <2> QED BY <1>1, <1>2, <1>3, <1>4 DEF Chain
<1>6. a[n] = [x \in 1 .. N |-> IF x <= n THEN Raw ELSE b[x]] OBVIOUS
<1> HIDE DEF a, es, ps
<1>7. ASSUME NEW t PROVE Folds(t, b, es, n) <=> Solves(t)
  <2>1. \A s \in SUBSET (1 .. n) : s # {} =>
          Do(t[s \ {Max(s)}], es[Max(s)]) = Destroy(t[s \ {Max(s)}], ps[Max(s)])
    <3>1. n \in Nat OBVIOUS
    <3> HIDE DEF Solves
    <3> QED BY <1>4, <3>1, MaxIn
  <2> QED BY <2>1 DEF Folds
<1>8. PICK r : Folds(r, b, es, n) BY FoldsExist
<1> DEFINE F == CHOOSE t : Solves(t)
<1>9. Solves(F) BY <1>7, <1>8
<1>10. Folds(F, b, es, n) BY <1>7, <1>9
<1>11. DestroyAll(b, n) = F[1 .. n]
  BY <1>1 DEF ps, DestroyAll, FoldLeft, MapThenFoldSet
<1>12. F[1 .. n] = a[n]
  <2> HIDE DEF F, Solves
  <2> QED BY <1>5, <1>10, FoldsAlong
<1> QED BY <1>6, <1>11, <1>12

\* A bigger buffer gets the elements in order, the old one is left destroyed.
LEMMA MovedIntoWorks ==
  ASSUME NEW N \in Nat, NEW b \in [1 .. N -> Slot], NEW size \in 0 .. N, NEW n \in Nat, size <= n,
         \A x \in 1 .. N : b[x] \in (IF x <= size THEN Values ELSE {Raw})
  PROVE  MovedInto(b, size, n) = [x \in 1 .. n |-> IF x <= size THEN b[x] ELSE Raw]
<1> DEFINE a == [k \in 0 .. size |-> [x \in 1 .. n |-> IF x <= k THEN b[x] ELSE Raw]]
           ps == Upwards(1, size)
           es == [k \in 1 .. size |-> [op |-> "construct", p |-> ps[k], v |-> b[ps[k]]]]
           new == NewBuffer(n)
           Solves(t) == t = [s \in SUBSET (1 .. size) |->
                               IF s = {} THEN new
                               ELSE ConstructIn(t[s \ {Max(s)}], ps[Max(s)], b[ps[Max(s)]])]
           fresh == FoldLeft(LAMBDA c, p : ConstructIn(c, p, b[p]), NewBuffer(n), Upwards(1, size))
           left  == [p \in DOMAIN b |-> IF p <= size THEN Moved ELSE b[p]]
<1>1. DOMAIN ps = 1 .. size /\ (\A k \in 1 .. size : ps[k] = k) /\ size \in Nat BY DEF Upwards
<1>2. a[0] = new
  <2>1. a[0] = [x \in 1 .. n |-> Raw] OBVIOUS
  <2> QED BY <2>1 DEF NewBuffer
<1>3. ASSUME NEW k \in 1 .. size PROVE a[k] = ConstructIn(a[k - 1], k, b[k])
  <2> DEFINE c == a[k - 1]
  <2>1. k \in 1 .. n /\ k \in 1 .. N /\ k - 1 \in 0 .. size OBVIOUS
  <2>2. c = [x \in 1 .. n |-> IF x <= k - 1 THEN b[x] ELSE Raw] BY <2>1
  <2>3. c[k] = Raw /\ DOMAIN c = 1 .. n BY <2>1
  <2>4. a[k] = [c EXCEPT ![k] = b[k]]
    <3>1. a[k] = [x \in 1 .. n |-> IF x <= k THEN b[x] ELSE Raw] OBVIOUS
    <3>2. \A x \in 1 .. n : x <= k <=> (x = k \/ x <= k - 1) BY <2>1
    <3> HIDE DEF a, c
    <3>3. [c EXCEPT ![k] = b[k]] = [x \in 1 .. n |-> IF x = k THEN b[k] ELSE c[x]] BY <2>2
    <3>4. \A x \in 1 .. n : (IF x <= k THEN b[x] ELSE Raw) = IF x = k THEN b[k] ELSE c[x]
      BY <2>2, <3>2
    <3> QED BY <3>1, <3>3, <3>4
  <2>5. b[k] \in Built BY <2>1 DEF Built
  <2> HIDE DEF a, c
  <2>6. ConstructIn(c, k, b[k]) = [c EXCEPT ![k] = b[k]] BY <2>1, <2>3, <2>5 DEF ConstructIn
  <2> QED BY <2>4, <2>6 DEF c
<1>4. \A c : \A k \in 1 .. size : Do(c, es[k]) = ConstructIn(c, ps[k], b[ps[k]]) BY DEF Do
<1>5. Chain(a, new, es, size)
  <2> HIDE DEF a, es, ps, new, fresh, left, Solves
  <2>1. ASSUME NEW k \in 1 .. size PROVE a[k] = Do(a[k - 1], es[k])
    <3>1. Do(a[k - 1], es[k]) = ConstructIn(a[k - 1], ps[k], b[ps[k]]) BY <1>4
    <3>2. ps[k] = k BY <1>1
    <3> QED BY <1>3, <3>1, <3>2
  <2> QED BY <1>2, <2>1 DEF Chain
<1>6. a[size] = [x \in 1 .. n |-> IF x <= size THEN b[x] ELSE Raw] OBVIOUS
<1>7. MovedInto(b, size, n) = IF DestroyAll(left, size) = NewBuffer(Len(b)) THEN fresh ELSE Torn
  BY DEF MovedInto
<1>8. fresh = a[size]
  <2> HIDE DEF a, es, ps
  <2>7. ASSUME NEW t PROVE Folds(t, new, es, size) <=> Solves(t)
    <3>1. \A s \in SUBSET (1 .. size) : s # {} =>
            Do(t[s \ {Max(s)}], es[Max(s)]) = ConstructIn(t[s \ {Max(s)}], ps[Max(s)], b[ps[Max(s)]])
      <4> HIDE DEF Solves
      <4> TAKE s \in SUBSET (1 .. size)
      <4> HAVE s # {}
      <4>1. Max(s) \in 1 .. size BY <1>1, MaxIn
      <4> QED BY <1>4, <4>1
    <3>2. \A s \in SUBSET (1 .. size) :
            (IF s = {} THEN new ELSE Do(t[s \ {Max(s)}], es[Max(s)]))
              = IF s = {} THEN new ELSE ConstructIn(t[s \ {Max(s)}], ps[Max(s)], b[ps[Max(s)]])
      BY <3>1
    <3> HIDE DEF new
    <3> QED BY <3>2 DEF Folds
  <2>8. PICK r : Folds(r, new, es, size) BY <1>1, FoldsExist
  <2> DEFINE F == CHOOSE t : Solves(t)
  <2>9. Solves(F) BY <2>7, <2>8
  <2>10. Folds(F, new, es, size) BY <2>7, <2>9
  <2>11. fresh = F[1 .. size] BY <1>1 DEF ps, FoldLeft, MapThenFoldSet
  <2>12. F[1 .. size] = a[size]
    <3> HIDE DEF F, Solves, new
    <3> QED BY <1>1, <1>5, <2>10, FoldsAlong
  <2> QED BY <2>11, <2>12
<1>9. DestroyAll(left, size) = NewBuffer(Len(b))
  <2>1. left \in [1 .. N -> Slot]
    <3>1. \A x \in 1 .. N : b[x] \in Slot /\ Moved \in Slot BY DEF Slot, Built
    <3> QED BY <3>1
  <2>2. \A x \in 1 .. size : left[x] \in Built BY DEF Built
  <2>3. \A x \in 1 .. N : x > size => left[x] = Raw OBVIOUS
  <2> HIDE DEF left
  <2>4. DestroyAll(left, size) = [x \in 1 .. N |-> IF x <= size THEN Raw ELSE left[x]]
    BY <2>1, <2>2, DestroyAllWorks
  <2>5. Len(b) = N OBVIOUS
  <2> QED BY <2>3, <2>4, <2>5 DEF NewBuffer
<1> HIDE DEF fresh, left, a
<1> QED BY <1>6, <1>7, <1>8, <1>9
-----------------------------------------------------------------------------
(* Lists that hold a sequence of values *)

ListType == [alloc : Allocators, data : BOOLEAN, slots : Seq(Values \cup {Raw}), size : Nat]

\* The elements of s are in the first slots of l, and no others.
Holds(l, s) ==
  /\ l \in ListType /\ s \in Seq(Values)
  /\ l.size = Len(s) /\ Len(s) <= Len(l.slots)
  /\ \A p \in 1 .. Len(l.slots) : l.slots[p] = IF p <= Len(s) THEN s[p] ELSE Raw

LEMMA HoldsContents ==
  ASSUME NEW l, NEW s, Holds(l, s)
  PROVE  InPlace(l) /\ Contents(l) = s
<1>1. /\ l.slots \in Seq(Values \cup {Raw}) /\ s \in Seq(Values) /\ l.size = Len(s)
      /\ Len(s) <= Len(l.slots)
      /\ \A p \in 1 .. Len(l.slots) : l.slots[p] = IF p <= Len(s) THEN s[p] ELSE Raw
  BY DEF Holds, ListType
<1>2. InPlace(l) BY <1>1 DEF InPlace
<1>3. Len(Contents(l)) = Len(s) /\ Contents(l) \in Seq(Values \cup {Raw})
  BY <1>1 DEF Contents
<1>4. \A p \in 1 .. Len(s) : Contents(l)[p] = s[p] BY <1>1 DEF Contents
<1>5. Contents(l) = s BY <1>1, <1>3, <1>4
<1> QED BY <1>2, <1>5

LEMMA ContentsHeld ==
  ASSUME NEW l \in ListType, InPlace(l)
  PROVE  Holds(l, Contents(l))
<1> DEFINE s == Contents(l)
<1>1. l.slots \in Seq(Values \cup {Raw}) /\ l.size \in Nat /\ l.size <= Len(l.slots)
  BY DEF ListType, InPlace
<1>2. s \in Seq(Values \cup {Raw}) /\ Len(s) = l.size BY <1>1 DEF Contents
<1>3. \A p \in 1 .. Len(s) : s[p] = l.slots[p] BY <1>1, <1>2 DEF Contents
<1>4. \A p \in 1 .. Len(l.slots) : l.slots[p] \in (IF p <= l.size THEN Values ELSE {Raw})
  BY <1>1 DEF InPlace
<1> HIDE DEF s
<1>5. \A p \in 1 .. Len(s) : s[p] \in Values BY <1>1, <1>2, <1>3, <1>4
<1>6. s \in Seq(Values) BY <1>2, <1>5
<1>7. \A p \in 1 .. Len(l.slots) : l.slots[p] = IF p <= Len(s) THEN s[p] ELSE Raw
  BY <1>1, <1>2, <1>3, <1>4
<1>8. Holds(l, s) BY <1>1, <1>2, <1>6, <1>7 DEF Holds
<1> QED BY <1>8 DEF s

\* The slots of a list that holds a sequence are a buffer.
LEMMA HoldsBuffer ==
  ASSUME NEW l, NEW s, Holds(l, s)
  PROVE  /\ l.slots \in [1 .. Len(l.slots) -> Slot] /\ Len(l.slots) \in Nat
         /\ Len(s) \in 0 .. Len(l.slots)
         /\ \A x \in 1 .. Len(l.slots) : l.slots[x] \in (IF x <= Len(s) THEN Values ELSE {Raw})
<1>1. /\ l.slots \in Seq(Values \cup {Raw}) /\ s \in Seq(Values) /\ l.size = Len(s)
      /\ Len(s) <= Len(l.slots)
      /\ \A p \in 1 .. Len(l.slots) : l.slots[p] = IF p <= Len(s) THEN s[p] ELSE Raw
  BY DEF Holds, ListType
<1>2. Values \cup {Raw} \subseteq Slot BY DEF Slot, Built
<1> QED BY <1>1, <1>2

\* A list holds t when its buffer does.
LEMMA HoldsNow ==
  ASSUME NEW l \in ListType, NEW N \in Nat, NEW t \in Seq(Values), Len(t) <= N, l.size = Len(t),
         l.slots = [x \in 1 .. N |-> IF x <= Len(t) THEN t[x] ELSE Raw]
  PROVE  Holds(l, t)
<1> DEFINE b == l.slots
<1>1. b \in Seq(Values \cup {Raw}) /\ Len(b) = N OBVIOUS
<1>2. \A p \in 1 .. N : b[p] = IF p <= Len(t) THEN t[p] ELSE Raw OBVIOUS
<1> HIDE DEF b
<1> QED BY <1>1, <1>2 DEF Holds, b

-----------------------------------------------------------------------------
(* Calls under way: a list that still holds s, or already t, and an exact   *)
(* account of the blocks taken and given back.                              *)

CallType == [list : ListType, quota : Nat, ok : BOOLEAN, taken : Int, given : Int]

Going(c, l, s) ==
  /\ c \in CallType /\ Holds(c.list, s)
  /\ c.list.alloc = l.alloc
  /\ c.taken - c.given = Held(c.list) - Held(l)

LEMMA CallGoes ==
  ASSUME NEW l, NEW s, Holds(l, s), NEW q \in Nat
  PROVE  /\ Going(Call(l, q), l, s) /\ Call(l, q).ok /\ Call(l, q).list = l
         /\ Call(l, q).quota = q /\ Call(l, q).taken = 0 /\ Call(l, q).given = 0
<1>1. l \in ListType /\ Held(l) \in Int BY DEF Holds, Held
<1>2. Call(l, q) \in CallType BY <1>1 DEF CallType, Call
<1> QED BY <1>1, <1>2 DEF Going, Call

LEMMA ThrowGoes ==
  ASSUME NEW c, NEW l, NEW s, Going(c, l, s)
  PROVE  Going(Throw(c), l, s) /\ ~ Throw(c).ok /\ Throw(c).quota = c.quota
         /\ Throw(c).list = c.list
<1>1. c \in CallType BY DEF Going
<1>2. /\ Throw(c) \in CallType /\ Throw(c).list = c.list /\ Throw(c).quota = c.quota
      /\ Throw(c).taken = c.taken /\ Throw(c).given = c.given /\ Throw(c).ok = FALSE
  BY <1>1 DEF Throw, CallType
<1> QED BY <1>2 DEF Going

LEMMA EmptyHolds ==
  ASSUME NEW a \in Allocators
  PROVE  Holds(Empty(a), << >>) /\ Held(Empty(a)) = 0 /\ Empty(a).alloc = a
<1>1. Empty(a) \in ListType BY DEF Empty, ListType
<1> QED BY <1>1 DEF Empty, Holds, Held

\* A buffer of n slots that starts with the elements of s.
Laid(b, s, n) == b = [x \in 1 .. n |-> IF x <= Len(s) THEN s[x] ELSE Raw]

LEMMA SwapGoes ==
  ASSUME NEW c, NEW l, NEW s, Going(c, l, s), c.quota > 0, NEW n \in Nat, Len(s) <= n,
         NEW b, Laid(b, s, n)
  PROVE  Going(Swap(c, b), l, s) /\ Swap(c, b).ok = c.ok /\ Len(Swap(c, b).list.slots) = n
<1> DEFINE r == Swap(c, b)
<1>1. /\ c \in CallType /\ Holds(c.list, s) /\ c.list.alloc = l.alloc
      /\ c.taken - c.given = Held(c.list) - Held(l)
  BY DEF Going
<1>2. c.list \in ListType /\ s \in Seq(Values) /\ c.list.size = Len(s) BY <1>1 DEF Holds
<1>3. b \in Seq(Values \cup {Raw}) /\ Len(b) = n BY <1>2 DEF Laid
<1>4. /\ r.taken = c.taken + 1 /\ r.given = (IF c.list.data THEN c.given + 1 ELSE c.given)
      /\ r.ok = c.ok /\ r.list.alloc = c.list.alloc /\ r.list.data = TRUE /\ r.list.slots = b
      /\ r.list.size = c.list.size /\ r.list \in ListType /\ r \in CallType
  <2> DEFINE q == c.quota - 1
             t == c.taken + 1
             g == IF c.list.data THEN c.given + 1 ELSE c.given
  <2>1. q \in Nat /\ t \in Int /\ g \in Int BY <1>1 DEF CallType
  <2>2. r = [c EXCEPT !.quota = q, !.taken = t, !.given = g, !.list.data = TRUE, !.list.slots = b]
    BY DEF Swap
  <2> HIDE DEF q, t, g, r
  <2>3. /\ r \in CallType /\ r.taken = t /\ r.given = g /\ r.ok = c.ok
        /\ r.list \in ListType /\ r.list.alloc = c.list.alloc /\ r.list.data = TRUE
        /\ r.list.slots = b /\ r.list.size = c.list.size
    <3>1. c \in CallType /\ b \in Seq(Values \cup {Raw}) BY <1>1, <1>3
    <3> QED BY <2>1, <2>2, <3>1 DEF CallType, ListType
  <2> QED BY <2>3 DEF t, g
<1> HIDE DEF r
<1>6. Holds(r.list, s) BY <1>2, <1>3, <1>4, HoldsNow DEF Laid
<1>7. r.taken - r.given = Held(r.list) - Held(l)
  <2>1. c.list.data \in BOOLEAN /\ c.taken \in Int /\ c.given \in Int
    BY <1>1, <1>2 DEF ListType, CallType
  <2>2. Held(l) \in Int BY DEF Held
  <2>3. Held(r.list) = 1 BY <1>4 DEF Held
  <2>4. CASE c.list.data
    <3>1. Held(c.list) = 1 BY <2>4 DEF Held
    <3> QED BY <1>1, <1>4, <2>1, <2>2, <2>3, <2>4, <3>1
  <2>5. CASE ~ c.list.data
    <3>1. Held(c.list) = 0 BY <2>5 DEF Held
    <3> QED BY <1>1, <1>4, <2>1, <2>2, <2>3, <2>5, <3>1
  <2> QED BY <2>4, <2>5
<1>8. Going(r, l, s) /\ r.ok = c.ok /\ Len(r.list.slots) = n
  BY <1>1, <1>2, <1>3, <1>4, <1>6, <1>7 DEF Going
<1> QED BY <1>8 DEF r

\* The elements of a list go to a new buffer that has the room.
LEMMA MovedHolds ==
  ASSUME NEW l, NEW s, Holds(l, s), NEW n \in Nat, Len(s) <= n
  PROVE  MovedInto(l.slots, l.size, n) = [x \in 1 .. n |-> IF x <= Len(s) THEN s[x] ELSE Raw]
<1> DEFINE b == l.slots
           N == Len(l.slots)
           k == Len(s)
<1>1. /\ b \in [1 .. N -> Slot] /\ N \in Nat /\ k \in 0 .. N
      /\ \A x \in 1 .. N : b[x] \in (IF x <= k THEN Values ELSE {Raw})
  BY HoldsBuffer
<1>2. l.size = k /\ \A x \in 1 .. k : b[x] = s[x]
  <2>1. \A p \in 1 .. N : b[p] = IF p <= k THEN s[p] ELSE Raw BY DEF Holds
  <2> HIDE DEF b, N, k
  <2>2. \A x \in 1 .. k : x \in 1 .. N BY <1>1
  <2> QED BY <2>1, <2>2 DEF Holds, k
<1>3. k <= n OBVIOUS
<1> HIDE DEF b, N, k
<1>4. MovedInto(b, k, n) = [x \in 1 .. n |-> IF x <= k THEN b[x] ELSE Raw]
  BY <1>1, <1>3, MovedIntoWorks
<1>5. \A x \in 1 .. n : (IF x <= k THEN b[x] ELSE Raw) = (IF x <= k THEN s[x] ELSE Raw)
  BY <1>1, <1>2
<1> QED BY <1>2, <1>4, <1>5 DEF b, k

LEMMA Reserve1Goes ==
  ASSUME NEW c, NEW l, NEW s, Going(c, l, s), NEW n \in Nat
  PROVE  /\ Going(reserve1(c, n), l, s)
         /\ reserve1(c, n).ok => c.ok /\ Len(reserve1(c, n).list.slots) >= n
         /\ reserve1(c, n).ok => Len(reserve1(c, n).list.slots) >= Len(c.list.slots)
         /\ c.ok /\ ~ reserve1(c, n).ok => reserve1(c, n).quota = 0
<1>1. c \in CallType /\ Holds(c.list, s) BY DEF Going
<1>2. Len(c.list.slots) \in Nat /\ Len(s) \in 0 .. Len(c.list.slots) /\ c.quota \in Nat
  BY <1>1, HoldsBuffer DEF CallType
<1>3. CASE n <= Len(c.list.slots)
  BY <1>2, <1>3 DEF reserve1
<1>4. CASE ~ (n <= Len(c.list.slots)) /\ c.quota = 0
  <2>1. reserve1(c, n) = Throw(c) BY <1>4 DEF reserve1
  <2> QED BY <1>4, <2>1, ThrowGoes
<1>5. CASE ~ (n <= Len(c.list.slots)) /\ c.quota # 0
  <2>1. Len(s) <= n /\ c.quota > 0 BY <1>2, <1>5
  <2> DEFINE b == MovedInto(c.list.slots, c.list.size, n)
             r == Swap(c, b)
  <2>2. reserve1(c, n) = r BY <1>5 DEF reserve1
  <2>3. Laid(b, s, n) BY <1>1, <2>1, MovedHolds DEF Laid
  <2> HIDE DEF b
  <2>4. Going(r, l, s) /\ r.ok = c.ok /\ Len(r.list.slots) = n BY <2>1, <2>3, SwapGoes
  <2> HIDE DEF r
  <2> QED BY <1>2, <1>5, <2>2, <2>4
<1> QED BY <1>3, <1>4, <1>5

\* A full list of capacity 1 is the one grow leaves without room.
Roomy(c) == ~ (c.list.size = 1 /\ Len(c.list.slots) = 1)

LEMMA NewCapacityGrows ==
  ASSUME NEW N \in Nat, N # 1
  PROVE  NewCapacity(N) \in Nat /\ NewCapacity(N) > N
<1>1. DEFAULT_CAPACITY \in Nat \ {0} BY ArrayListAssumption
<1>2. CASE N = 0 BY <1>1, <1>2 DEF NewCapacity
<1>3. CASE N > 1
  <2>1. N \div 2 >= 1 /\ N \div 2 \in Nat BY <1>3, Z3
  <2> DEFINE h == N \div 2
  <2>2. N > 0 BY <1>3
  <2>3. NewCapacity(N) = N + h BY <2>2, Zenon DEF NewCapacity
  <2> HIDE DEF h
  <2> QED BY <2>1, <2>3 DEF h
<1> QED BY <1>2, <1>3

LEMMA GrowGoes ==
  ASSUME NEW c, NEW l, NEW s, Going(c, l, s), Roomy(c)
  PROVE  /\ Going(grow(c), l, s)
         /\ grow(c).ok => c.ok /\ Len(grow(c).list.slots) > Len(s)
         /\ c.ok /\ ~ grow(c).ok => grow(c).quota = 0
<1> DEFINE N == Len(c.list.slots)
           n == NewCapacity(N)
<1>1. c \in CallType /\ Holds(c.list, s) BY DEF Going
<1>2. N \in Nat /\ Len(s) \in 0 .. N /\ c.list.size = Len(s) BY <1>1, HoldsBuffer DEF Holds
<1>3. CASE c.list.size < N
  <2>1. grow(c) = c BY <1>2, <1>3 DEF grow
  <2> QED BY <1>2, <1>3, <2>1
<1>4. CASE c.list.size >= N
  <2>1. N # 1 /\ Len(s) = N BY <1>2, <1>4 DEF Roomy
  <2>2. n \in Nat /\ n > N BY <1>2, <2>1, NewCapacityGrows
  <2>3. grow(c) = reserve1(c, n) BY <1>4 DEF grow
  <2> HIDE DEF n
  <2>4. /\ Going(reserve1(c, n), l, s)
        /\ reserve1(c, n).ok => c.ok /\ Len(reserve1(c, n).list.slots) >= n
        /\ c.ok /\ ~ reserve1(c, n).ok => reserve1(c, n).quota = 0
    BY <2>2, Reserve1Goes
  <2> DEFINE d == reserve1(c, n)
  <2>5. Len(d.list.slots) \in Nat
    <3>1. Holds(d.list, s) BY <2>4 DEF Going
    <3> HIDE DEF d
    <3> QED BY <3>1, HoldsBuffer
  <2>6. d.ok => Len(d.list.slots) > Len(s)
    <3> HIDE DEF d, N
    <3> QED BY <1>2, <2>1, <2>2, <2>4, <2>5 DEF d
  <2> QED BY <2>3, <2>4, <2>6
<1> QED BY <1>2, <1>3, <1>4

\* One element more, built in the first raw slot or where gap left a hole.
LEMMA BuiltGoes ==
  ASSUME NEW c, NEW l, NEW s, Going(c, l, s), c.quota # 0, Len(s) < Len(c.list.slots),
         NEW t \in Seq(Values), Len(t) = Len(s) + 1, NEW b, Laid(b, t, Len(c.list.slots))
  PROVE  LET r == [c EXCEPT !.quota = @ - 1, !.list.size = @ + 1, !.list.slots = b]
         IN Going(r, l, t) /\ (r.ok <=> c.ok)
<1> DEFINE r == [c EXCEPT !.quota = @ - 1, !.list.size = @ + 1, !.list.slots = b]
           N == Len(c.list.slots)
<1>1. /\ c \in CallType /\ Holds(c.list, s) /\ c.list.alloc = l.alloc
      /\ c.taken - c.given = Held(c.list) - Held(l)
  BY DEF Going
<1>2. c.list \in ListType /\ s \in Seq(Values) /\ c.list.size = Len(s) /\ N \in Nat
  BY <1>1, HoldsBuffer DEF Holds
<1>3. b \in Seq(Values \cup {Raw}) BY <1>2 DEF Laid
<1>4. /\ r \in CallType /\ r.taken = c.taken /\ r.given = c.given /\ (r.ok <=> c.ok)
      /\ r.list \in ListType /\ r.list.alloc = c.list.alloc /\ r.list.data = c.list.data
      /\ r.list.slots = b /\ r.list.size = Len(t)
  <2> DEFINE q == c.quota - 1
             z == c.list.size + 1
  <2>1. q \in Nat /\ z \in Nat BY <1>1, <1>2 DEF CallType
  <2>2. r = [c EXCEPT !.quota = q, !.list.size = z, !.list.slots = b] OBVIOUS
  <2>3. c \in CallType BY <1>1
  <2>4. z = Len(t) BY <1>2
  <2> HIDE DEF q, z, r
  <2> QED BY <2>1, <2>2, <2>3, <2>4, <1>3 DEF CallType, ListType
<1> HIDE DEF r
<1>5. Holds(r.list, t)
  <2>1. Len(t) <= N BY <1>2
  <2> HIDE DEF N
  <2> QED BY <1>2, <1>4, <2>1, HoldsNow DEF Laid, N
<1>6. Held(r.list) = Held(c.list) BY <1>4 DEF Held
<1>7. Going(r, l, t) /\ (r.ok <=> c.ok) BY <1>1, <1>4, <1>5, <1>6 DEF Going
<1> QED BY <1>7 DEF r

\* What add1 and add_at1 come to: t instead of s, or an exception and s.
Added(r, c, l, s, t) ==
  /\ Going(r, l, IF r.ok THEN t ELSE s)
  /\ r.ok => c.ok

LEMMA Add1Goes ==
  ASSUME NEW c, NEW l, NEW s, Going(c, l, s), NEW v \in Values,
         Roomy(c) \/ Len(s) < Len(c.list.slots)
  PROVE  Added(add1(c, v), c, l, s, Append(s, v))
<1> DEFINE d == grow(c)
<1>1. Going(d, l, s) /\ (d.ok => c.ok /\ Len(d.list.slots) > Len(s))
  <2>1. CASE Roomy(c) BY <2>1, GrowGoes
  <2>2. CASE Len(s) < Len(c.list.slots)
    <3>1. c.list.size = Len(s) /\ Len(s) \in Nat /\ Len(c.list.slots) \in Nat
      BY HoldsBuffer DEF Going, Holds
    <3>2. grow(c) = c BY <2>2, <3>1 DEF grow
    <3> QED BY <2>2, <3>1, <3>2
  <2> QED BY <2>1, <2>2
<1> HIDE DEF d
<1>2. CASE ~ d.ok \/ d.quota = 0
  <2>1. add1(c, v) = Throw(d) BY <1>2 DEF add1, d
  <2> QED BY <1>1, <2>1, ThrowGoes DEF Added
<1>3. CASE d.ok /\ d.quota # 0
  <2> DEFINE N == Len(d.list.slots)
             t == Append(s, v)
             b == ConstructIn(d.list.slots, d.list.size + 1, v)
             r == [d EXCEPT !.quota = @ - 1, !.list.size = @ + 1, !.list.slots = b]
  <2>1. /\ Holds(d.list, s) /\ d.list.slots \in [1 .. N -> Slot] /\ N \in Nat /\ Len(s) \in 0 .. N
        /\ d.list.size = Len(s) /\ s \in Seq(Values) /\ Len(s) < N
    BY <1>1, <1>3, HoldsBuffer DEF Going, Holds
  <2>2. t \in Seq(Values) /\ Len(t) = Len(s) + 1
        /\ \A x \in 1 .. Len(s) + 1 : t[x] = IF x <= Len(s) THEN s[x] ELSE v
    BY <2>1
  <2>3. add1(c, v) = r BY <1>3 DEF add1, d
  <2>4. \A p \in 1 .. N : d.list.slots[p] = IF p <= Len(s) THEN s[p] ELSE Raw
    BY <2>1 DEF Holds
  <2>5. Laid(b, t, N)
    <3> DEFINE k == Len(s) + 1
               e == d.list.slots
    <3>1. k \in DOMAIN e /\ e[k] = Raw BY <2>1, <2>4
    <3>2. b = [e EXCEPT ![k] = v] BY <2>1, <3>1 DEF ConstructIn, Built
    <3> HIDE DEF t, e, b, N
    <3>3. \A x \in 1 .. N : x <= k <=> (x = k \/ x <= Len(s)) BY <2>1
    <3>4. \A x \in 1 .. N : e[x] = IF x <= Len(s) THEN s[x] ELSE Raw BY <2>4 DEF e
    <3>5. e \in [1 .. N -> Slot] /\ k \in 1 .. N BY <2>1 DEF e
    <3>6. \A x \in 1 .. N : b[x] = IF x = k THEN v ELSE e[x] BY <3>2, <3>5
    <3>7. \A x \in 1 .. N : b[x] = IF x <= Len(t) THEN t[x] ELSE Raw
      <4> TAKE x \in 1 .. N
      <4>1. CASE x = k BY <4>1, <2>1, <2>2, <3>6
      <4>2. CASE x <= Len(s) BY <4>2, <2>1, <2>2, <3>4, <3>6
      <4>3. CASE x > k BY <4>3, <2>1, <2>2, <3>4, <3>6
      <4> QED BY <3>3, <4>1, <4>2, <4>3, <2>1
    <3>8. b = [x \in 1 .. N |-> b[x]] BY <3>2, <3>5
    <3> QED BY <3>7, <3>8 DEF Laid
  <2>6. t \in Seq(Values) /\ Len(t) = Len(s) + 1 BY <2>2
  <2> HIDE DEF b, t
  <2>7. Going(r, l, t) /\ (r.ok <=> d.ok) BY <1>1, <1>3, <2>1, <2>5, <2>6, BuiltGoes
  <2> HIDE DEF r
  <2>8. r.ok = TRUE \/ r.ok BY <2>7, <1>3
  <2>9. Added(r, c, l, s, t) BY <1>1, <1>3, <2>7 DEF Added
  <2> QED BY <2>3, <2>9 DEF t
<1> QED BY <1>2, <1>3

\* gap is e with a hole at p, which takes v or is closed again.
IsGap(gap, e, N, m, p, v) ==
  /\ ConstructIn(gap, p, v) =
       [x \in 1 .. N |-> IF x \in p + 1 .. m + 1 THEN e[x - 1] ELSE IF x = p THEN v ELSE e[x]]
  /\ ShiftDown(gap, Upwards(p + 1, m + 1)) = e

LEMMA GapOpens ==
  ASSUME NEW N \in Nat, NEW e \in [1 .. N -> Slot], NEW m \in 0 .. N - 1, NEW p \in 1 .. m + 1,
         \A x \in 1 .. N : e[x] \in (IF x <= m THEN Values ELSE {Raw}),
         NEW v \in Values
  PROVE  IsGap(ShiftUp(e, Downwards(m, p)), e, N, m, p, v)
<1> DEFINE gap == ShiftUp(e, Downwards(m, p))
           g == [x \in 1 .. N |-> IF x \in p + 1 .. m + 1 THEN e[x - 1] ELSE IF x = p THEN Raw ELSE e[x]]
<1>1. p \in 1 .. N /\ m + 1 \in 1 .. N OBVIOUS
<1>2. e[m + 1] = Raw BY <1>1
<1>3. \A x \in p .. m : e[x] \in Values OBVIOUS
<1>4. gap = g BY <1>2, <1>3, ShiftUpWorks
<1>5. g \in [1 .. N -> Slot]
  <2>1. \A x \in 1 .. N : e[x] \in Slot OBVIOUS
  <2>2. \A x \in p + 1 .. m + 1 : x - 1 \in 1 .. N OBVIOUS
  <2>3. Raw \in Slot BY DEF Slot
  <2> QED BY <2>1, <2>2, <2>3
<1>6. ConstructIn(g, p, v) =
        [x \in 1 .. N |-> IF x \in p + 1 .. m + 1 THEN e[x - 1] ELSE IF x = p THEN v ELSE e[x]]
  <2>1. p \in DOMAIN g /\ g[p] = Raw BY <1>1
  <2>2. ConstructIn(g, p, v) = [g EXCEPT ![p] = v]
    <3> HIDE DEF g
    <3> QED BY <2>1 DEF ConstructIn, Built
  <2>3. \A x \in 1 .. N : x # p => g[x] = IF x \in p + 1 .. m + 1 THEN e[x - 1] ELSE e[x] OBVIOUS
  <2>4. p \notin p + 1 .. m + 1 OBVIOUS
  <2> HIDE DEF g
  <2> QED BY <1>5, <2>2, <2>3, <2>4
<1>7. ShiftDown(g, Upwards(p + 1, m + 1)) = e
  <2> DEFINE i == p + 1
             j == m + 1
  <2>1. i \in 2 .. N + 1 /\ j \in i - 1 .. N /\ i - 1 = p BY <1>1
  <2>2. g[i - 1] = Raw BY <1>1
  <2>3. \A x \in i .. j : g[x] \in Values
    <3> TAKE x \in i .. j
    <3>1. x \in 1 .. N /\ x - 1 \in p .. m BY <1>1
    <3>2. g[x] = e[x - 1] BY <3>1
    <3> HIDE DEF g
    <3> QED BY <3>1, <3>2, <1>3
  <2>4. \A x \in 1 .. N : g[x] = IF x \in p + 1 .. m + 1 THEN e[x - 1] ELSE IF x = p THEN Raw ELSE e[x]
    OBVIOUS
  <2> HIDE DEF g, i, j
  <2>5. ShiftDown(g, Upwards(i, j)) =
          [x \in 1 .. N |-> IF x \in i - 1 .. j - 1 THEN g[x + 1] ELSE IF x = j THEN Raw ELSE g[x]]
    <3>1. i \in 2 .. N + 1 /\ j \in i - 1 .. N BY <2>1
    <3>2. WentDown(ShiftDown(g, Upwards(i, j)), g, N, i, j)
      BY <1>5, <3>1, <2>2, <2>3, ShiftDownWorks
    <3> QED BY <3>2 DEF WentDown
  <2>6. \A x \in 1 .. N :
          (IF x \in i - 1 .. j - 1 THEN g[x + 1] ELSE IF x = j THEN Raw ELSE g[x]) = e[x]
    <3> TAKE x \in 1 .. N
    <3>1. j - 1 = m /\ i - 1 = p /\ j = m + 1 /\ i = p + 1 BY DEF i, j
    <3>2. CASE x \in p .. m
      <4>1. x + 1 \in 1 .. N /\ x + 1 \in p + 1 .. m + 1 /\ (x + 1) - 1 = x BY <3>2, <1>1
      <4>2. g[x + 1] = e[x] BY <4>1, <2>4
      <4> QED BY <3>1, <3>2, <4>2
    <3>3. CASE x = m + 1
      <4>1. x \notin p .. m BY <3>3
      <4> QED BY <3>1, <3>3, <4>1, <1>2
    <3>4. CASE x \notin p .. m /\ x # m + 1
      <4>1. x \notin p + 1 .. m + 1 /\ x # p BY <3>4, <1>1
      <4> QED BY <3>1, <3>4, <4>1, <2>4
    <3> QED BY <3>2, <3>3, <3>4
  <2>7. e = [x \in 1 .. N |-> e[x]] OBVIOUS
  <2>8. ShiftDown(g, Upwards(i, j)) = e BY <2>5, <2>6, <2>7
  <2> QED BY <2>8 DEF i, j
<1> HIDE DEF gap, g
<1>8. IsGap(gap, e, N, m, p, v) BY <1>4, <1>6, <1>7 DEF IsGap
<1> QED BY <1>8 DEF gap

LEMMA AddAt1Goes ==
  ASSUME NEW c, NEW l, NEW s, Going(c, l, s), NEW v \in Values,
         Roomy(c), NEW p \in 1 .. Len(s) + 1
  PROVE  Added(add_at1(c, p, v), c, l, s, InsertAt(s, p, v))
<1> DEFINE d == grow(c)
<1>1. Going(d, l, s) /\ (d.ok => c.ok /\ Len(d.list.slots) > Len(s)) BY GrowGoes
<1> HIDE DEF d
<1>2. CASE ~ d.ok
  <2>1. add_at1(c, p, v) = d BY <1>2 DEF add_at1, d
  <2> QED BY <1>1, <1>2, <2>1 DEF Added
<1>3. CASE d.ok
  <2> DEFINE e == d.list.slots
             N == Len(e)
             m == d.list.size
             t == InsertAt(s, p, v)
             gap == ShiftUp(e, Downwards(m, p))
             b == ConstructIn(gap, p, v)
             back == ShiftDown(gap, Upwards(p + 1, m + 1))
             r == [d EXCEPT !.quota = @ - 1, !.list.size = @ + 1, !.list.slots = b]
  <2>1. /\ Holds(d.list, s) /\ e \in [1 .. N -> Slot] /\ N \in Nat /\ Len(s) \in 0 .. N
        /\ m = Len(s) /\ s \in Seq(Values) /\ Len(s) < N
        /\ \A x \in 1 .. N : e[x] \in (IF x <= m THEN Values ELSE {Raw})
    <3>1. Holds(d.list, s) BY <1>1 DEF Going
    <3>2. m = Len(s) /\ s \in Seq(Values) BY <3>1 DEF Holds
    <3>3. /\ e \in [1 .. N -> Slot] /\ N \in Nat /\ Len(s) \in 0 .. N
          /\ \A x \in 1 .. N : e[x] \in (IF x <= Len(s) THEN Values ELSE {Raw})
      BY <3>1, HoldsBuffer
    <3>4. Len(s) < N BY <1>1, <1>3, <3>3
    <3> QED BY <3>1, <3>2, <3>3, <3>4
  <2>2. m \in 0 .. N - 1 /\ p \in 1 .. m + 1 BY <2>1
  <2>3. /\ b = [x \in 1 .. N |-> IF x \in p + 1 .. m + 1 THEN e[x - 1] ELSE IF x = p THEN v ELSE e[x]]
        /\ back = e
    <3>1. /\ N \in Nat /\ e \in [1 .. N -> Slot] /\ m \in 0 .. N - 1 /\ p \in 1 .. m + 1
          /\ \A x \in 1 .. N : e[x] \in (IF x <= m THEN Values ELSE {Raw})
      BY <2>1, <2>2
    <3> HIDE DEF e, m, N
    <3>2. IsGap(ShiftUp(e, Downwards(m, p)), e, N, m, p, v) BY <3>1, GapOpens
    <3> QED BY <3>2 DEF IsGap
  <2>4. CASE d.quota = 0
    <3>1. add_at1(c, p, v) = Throw([d EXCEPT !.list.slots = back]) BY <1>3, <2>4 DEF add_at1, d
    <3>2. [d EXCEPT !.list.slots = e] = d
      <4>1. d \in CallType BY <1>1 DEF Going
      <4> QED BY <4>1 DEF CallType, ListType
    <3>3. add_at1(c, p, v) = Throw(d) BY <2>3, <3>1, <3>2
    <3> QED BY <1>1, <3>3, ThrowGoes DEF Added
  <2>5. CASE d.quota # 0
    <3>1. add_at1(c, p, v) = r BY <1>3, <2>5 DEF add_at1, d
    <3>2. t \in Seq(Values) /\ Len(t) = Len(s) + 1
          /\ \A x \in 1 .. Len(s) + 1 : t[x] = IF x < p THEN s[x] ELSE IF x = p THEN v ELSE s[x - 1]
      <4>1. Inserted(Values, InsertAt(s, p, v), s, p, v) BY <2>1, InsertAtIs
      <4> QED BY <4>1 DEF Inserted
    <3>3. \A x \in 1 .. N : e[x] = IF x <= Len(s) THEN s[x] ELSE Raw BY <2>1 DEF Holds
    <3>4. Laid(b, t, N)
      <4> HIDE DEF e, m, t, b, N
      <4>1. \A x \in 1 .. N : (IF x \in p + 1 .. m + 1 THEN e[x - 1] ELSE IF x = p THEN v ELSE e[x])
                               = IF x <= Len(t) THEN t[x] ELSE Raw
        <5> TAKE x \in 1 .. N
        <5>1. CASE x \in p + 1 .. m + 1
          <6>1. x - 1 \in 1 .. N /\ x - 1 <= Len(s) /\ x <= Len(t) /\ x \in 1 .. Len(s) + 1
                /\ ~ (x < p) /\ x # p
            BY <5>1, <2>1, <2>2, <3>2
          <6> QED BY <5>1, <6>1, <3>2, <3>3
        <5>2. CASE x = p
          <6>1. x \in 1 .. Len(s) + 1 /\ x <= Len(t) /\ x \notin p + 1 .. m + 1 BY <5>2, <2>1, <2>2, <3>2
          <6> QED BY <5>2, <6>1, <3>2
        <5>3. CASE x < p
          <6>1. x \in 1 .. Len(s) + 1 /\ x <= Len(t) /\ x <= Len(s) /\ x \notin p + 1 .. m + 1 /\ x # p
            BY <5>3, <2>1, <2>2, <3>2
          <6> QED BY <5>3, <6>1, <3>2, <3>3
        <5>4. CASE x > m + 1
          <6>1. ~ (x <= Len(t)) /\ ~ (x <= Len(s)) /\ x \notin p + 1 .. m + 1 /\ x # p
            BY <5>4, <2>1, <2>2, <3>2
          <6> QED BY <6>1, <3>3
        <5> QED BY <5>1, <5>2, <5>3, <5>4, <2>1, <2>2
      <4> QED BY <2>3, <4>1 DEF Laid
    <3>5. t \in Seq(Values) /\ Len(t) = Len(s) + 1 BY <3>2
    <3> HIDE DEF b, t
    <3>6. Going(r, l, t) /\ (r.ok <=> d.ok) BY <1>1, <2>1, <2>5, <3>4, <3>5, BuiltGoes
    <3> HIDE DEF r
    <3>7. Added(r, c, l, s, t) BY <1>1, <1>3, <3>6 DEF Added
    <3> QED BY <3>1, <3>7 DEF t
  <2> QED BY <2>4, <2>5
<1> QED BY <1>2, <1>3

\* A copy either throws or holds what the list copied from holds.
LEMMA CopyOfGoes ==
  ASSUME NEW c, NEW l, NEW s, Going(c, l, s), NEW k, NEW t, Holds(k, t)
  PROVE  /\ CopyOf(c, k) \in CallType
         /\ CopyOf(c, k).ok =>
              /\ c.ok /\ Holds(CopyOf(c, k).list, t) /\ CopyOf(c, k).list.alloc = c.list.alloc
              /\ CopyOf(c, k).list.data /\ CopyOf(c, k).taken = c.taken + 1
              /\ CopyOf(c, k).given = c.given
<1>1. c \in CallType BY DEF Going
<1>2. k.size = Len(t) /\ t \in Seq(Values) BY DEF Holds
<1>3. CASE c.quota < 1 + k.size
  <2>1. CopyOf(c, k) = Throw(c) BY <1>3 DEF CopyOf
  <2> QED BY <2>1, ThrowGoes DEF Going
<1>4. CASE ~ (c.quota < 1 + k.size)
  <2> DEFINE b == SubSeq(k.slots, 1, k.size)
             q == c.quota - 1 - k.size
             u == c.taken + 1
             z == k.size
             r == CopyOf(c, k)
  <2>1. r = [c EXCEPT !.quota = q, !.taken = u, !.list.data = TRUE, !.list.slots = b, !.list.size = z]
    BY <1>4 DEF CopyOf
  <2>2. b = t /\ b \in Seq(Values \cup {Raw})
    <3>1. Contents(k) = t BY HoldsContents
    <3> QED BY <1>2, <3>1 DEF Contents
  <2>3. q \in Nat /\ u \in Int /\ z \in Nat BY <1>1, <1>2, <1>4 DEF CallType
  <2> HIDE DEF b, q, u, z, r
  <2>4. /\ r \in CallType /\ r.ok = c.ok /\ r.taken = u /\ r.given = c.given
        /\ r.list \in ListType /\ r.list.alloc = c.list.alloc /\ r.list.data = TRUE
        /\ r.list.slots = b /\ r.list.size = z
    BY <1>1, <2>1, <2>2, <2>3 DEF CallType, ListType
  <2>5. t = [x \in 1 .. Len(t) |-> IF x <= Len(t) THEN t[x] ELSE Raw] /\ Len(t) \in Nat
    <3>1. t = [x \in 1 .. Len(t) |-> t[x]] BY <1>2
    <3> QED BY <1>2, <3>1
  <2>6. Holds(r.list, t)
    <3>1. r.list.slots = [x \in 1 .. Len(t) |-> IF x <= Len(t) THEN t[x] ELSE Raw]
      BY <2>2, <2>4, <2>5
    <3>2. r.list.size = Len(t) BY <1>2, <2>4 DEF z
    <3> QED BY <1>2, <2>4, <2>5, <3>1, <3>2, HoldsNow
  <2> QED BY <2>4, <2>6 DEF r, u
<1> QED BY <1>3, <1>4
-----------------------------------------------------------------------------
(* Calls that do not allocate *)

\* l with other slots and another size.
Resized(l, b, z) == [l EXCEPT !.slots = b, !.size = z]

\* k has the allocator of l and a block exactly if l has one.
SameBlock(k, l) == k.alloc = l.alloc /\ k.data = l.data

LEMMA ResizedHolds ==
  ASSUME NEW l, NEW s, Holds(l, s), NEW t \in Seq(Values), Len(t) <= Len(l.slots),
         NEW b, Laid(b, t, Len(l.slots))
  PROVE  Holds(Resized(l, b, Len(t)), t) /\ SameBlock(Resized(l, b, Len(t)), l)
<1> DEFINE k == Resized(l, b, Len(t))
           N == Len(l.slots)
<1>1. l \in ListType /\ N \in Nat BY HoldsBuffer DEF Holds
<1>2. b \in Seq(Values \cup {Raw}) BY <1>1 DEF Laid
<1>3. k \in ListType /\ k.slots = b /\ k.size = Len(t) /\ k.alloc = l.alloc /\ k.data = l.data
  <2> DEFINE z == Len(t)
  <2>1. z \in Nat OBVIOUS
  <2>2. k = [l EXCEPT !.slots = b, !.size = z] BY DEF Resized
  <2> HIDE DEF z, k, N
  <2>3. /\ k \in ListType /\ k.slots = b /\ k.size = z /\ k.alloc = l.alloc /\ k.data = l.data
    BY <1>1, <1>2, <2>1, <2>2 DEF ListType
  <2> QED BY <2>3 DEF z
<1> HIDE DEF k
<1>4. Holds(k, t) BY <1>1, <1>3, HoldsNow DEF Laid
<1> QED BY <1>3, <1>4 DEF k, SameBlock

LEMMA SetHolds ==
  ASSUME NEW l, NEW s, Holds(l, s), NEW p \in 1 .. Len(s), NEW v \in Values
  PROVE  /\ Holds([l EXCEPT !.slots[p] = v], [s EXCEPT ![p] = v])
         /\ SameBlock([l EXCEPT !.slots[p] = v], l)
<1> DEFINE e == l.slots
           N == Len(e)
           t == [s EXCEPT ![p] = v]
           b == [e EXCEPT ![p] = v]
<1>1. /\ l \in ListType /\ s \in Seq(Values) /\ l.size = Len(s) /\ Len(s) \in 0 .. N /\ N \in Nat
      /\ e \in [1 .. N -> Slot]
  BY HoldsBuffer DEF Holds
<1>2. \A x \in 1 .. N : e[x] = IF x <= Len(s) THEN s[x] ELSE Raw BY DEF Holds
<1>3. t \in Seq(Values) /\ Len(t) = Len(s) /\ \A x \in 1 .. Len(s) : t[x] = IF x = p THEN v ELSE s[x]
  BY <1>1
<1>4. [l EXCEPT !.slots[p] = v] = Resized(l, b, Len(t))
  <2>1. [l EXCEPT !.slots[p] = v] = [l EXCEPT !.slots = b] BY <1>1 DEF ListType
  <2>2. [l EXCEPT !.slots = b, !.size = l.size] = [l EXCEPT !.slots = b] BY <1>1 DEF ListType
  <2> QED BY <1>1, <1>3, <2>1, <2>2 DEF Resized
<1>5. Laid(b, t, N)
  <2> HIDE DEF e, N, t
  <2>1. \A x \in 1 .. N : b[x] = IF x = p THEN v ELSE e[x] BY <1>1
  <2>2. b = [x \in 1 .. N |-> b[x]] BY <1>1
  <2> HIDE DEF b
  <2>3. \A x \in 1 .. N : b[x] = IF x <= Len(t) THEN t[x] ELSE Raw
    <3> TAKE x \in 1 .. N
    <3>1. CASE x = p BY <3>1, <1>1, <1>3, <2>1
    <3>2. CASE x # p /\ x <= Len(s) BY <3>2, <1>1, <1>2, <1>3, <2>1
    <3>3. CASE x # p /\ ~ (x <= Len(s)) BY <3>3, <1>1, <1>2, <1>3, <2>1
    <3> QED BY <3>1, <3>2, <3>3
  <2> QED BY <2>2, <2>3 DEF Laid
<1>6. t \in Seq(Values) /\ Len(t) <= Len(l.slots) BY <1>1, <1>3
<1> HIDE DEF b, t
<1>7. Holds(Resized(l, b, Len(t)), t) /\ SameBlock(Resized(l, b, Len(t)), l)
  BY <1>5, <1>6, ResizedHolds
<1> QED BY <1>4, <1>7 DEF t

LEMMA ClearHolds ==
  ASSUME NEW l, NEW s, Holds(l, s)
  PROVE  /\ Holds(Resized(l, DestroyAll(l.slots, l.size), 0), << >>)
         /\ SameBlock(Resized(l, DestroyAll(l.slots, l.size), 0), l)
         /\ DestroyAll(l.slots, l.size) # Torn
<1> DEFINE e == l.slots
           N == Len(e)
           b == DestroyAll(e, Len(s))
<1>1. /\ s \in Seq(Values) /\ l.size = Len(s) /\ Len(s) \in 0 .. N /\ N \in Nat
      /\ e \in [1 .. N -> Slot]
      /\ \A x \in 1 .. N : e[x] \in (IF x <= Len(s) THEN Values ELSE {Raw})
  BY HoldsBuffer DEF Holds
<1>2. \A x \in 1 .. Len(s) : e[x] \in Built BY <1>1 DEF Built
<1>3. b = [x \in 1 .. N |-> IF x <= Len(s) THEN Raw ELSE e[x]]
  <2> HIDE DEF e, N
  <2> QED BY <1>1, <1>2, DestroyAllWorks
<1>4. Laid(b, << >>, N)
  <2>1. \A x \in 1 .. N : (IF x <= Len(s) THEN Raw ELSE e[x]) = Raw BY <1>1
  <2>2. \A x \in 1 .. N : ~ (x <= Len(<< >>)) OBVIOUS
  <2> HIDE DEF e, N, b
  <2> QED BY <1>3, <2>1, <2>2 DEF Laid
<1>5. b # Torn
  <2>1. ASSUME b = Torn PROVE FALSE
    <3>1. DOMAIN Torn = {1} /\ Torn[1] = "torn" BY DEF Torn
    <3>2. 1 \in 1 .. N /\ b[1] = "torn"
      <4> HIDE DEF b
      <4> QED BY <1>3, <2>1, <3>1
    <3>3. b[1] = Raw
      <4> HIDE DEF b
      <4> QED BY <1>1, <1>3, <3>2
    <3> QED BY <3>2, <3>3 DEF Raw
  <2> QED BY <2>1
<1>6. << >> \in Seq(Values) /\ Len(<< >>) = 0 /\ 0 <= N BY <1>1
<1> HIDE DEF b
<1>7. Holds(Resized(l, b, Len(<< >>)), << >>) /\ SameBlock(Resized(l, b, Len(<< >>)), l)
  BY <1>4, <1>6, ResizedHolds
<1> QED BY <1>1, <1>5, <1>6, <1>7 DEF b

\* The slots of a list without the element in slot p.
LEMMA HoleIs ==
  ASSUME NEW l, NEW s, Holds(l, s), NEW p \in 1 .. Len(s)
  PROVE  LET h == Destroy(l.slots, p)
         IN /\ h \in [1 .. Len(l.slots) -> Slot] /\ h[p] = Raw
            /\ \A x \in 1 .. Len(l.slots) : x # p => h[x] = IF x <= Len(s) THEN s[x] ELSE Raw
<1> DEFINE e == l.slots
           N == Len(e)
           h == Destroy(e, p)
<1>1. /\ Len(s) \in 0 .. N /\ N \in Nat /\ e \in [1 .. N -> Slot]
      /\ \A x \in 1 .. N : e[x] \in (IF x <= Len(s) THEN Values ELSE {Raw})
  BY HoldsBuffer
<1>2. \A x \in 1 .. N : e[x] = IF x <= Len(s) THEN s[x] ELSE Raw BY DEF Holds
<1> HIDE DEF e, N
<1>3. p \in 1 .. N /\ e[p] \in Built BY <1>1 DEF Built
<1>4. h = [e EXCEPT ![p] = Raw] BY <1>1, <1>3 DEF Destroy
<1>5. Raw \in Slot BY DEF Slot
<1> HIDE DEF h
<1>6. h \in [1 .. N -> Slot] /\ h[p] = Raw BY <1>1, <1>3, <1>4, <1>5
<1>7. \A x \in 1 .. N : x # p => h[x] = e[x] BY <1>1, <1>4
<1> QED BY <1>2, <1>6, <1>7 DEF e, N, h

LEMMA RemoveAt1Holds ==
  ASSUME NEW l, NEW s, Holds(l, s), NEW p \in 1 .. Len(s)
  PROVE  Holds(remove_at1(l, p), RemoveAt(s, p)) /\ SameBlock(remove_at1(l, p), l)
<1> DEFINE N == Len(l.slots)
           m == Len(s)
           h == Destroy(l.slots, p)
           i == p + 1
           b == ShiftDown(h, Upwards(i, m))
           t == RemoveAt(s, p)
<1>1. /\ m \in 0 .. N /\ N \in Nat /\ s \in Seq(Values) /\ l.size = m /\ l \in ListType
  BY HoldsBuffer DEF Holds
<1>2. /\ h \in [1 .. N -> Slot] /\ h[p] = Raw
      /\ \A x \in 1 .. N : x # p => h[x] = IF x <= m THEN s[x] ELSE Raw
  BY HoleIs
<1>3. t \in Seq(Values) /\ Len(t) = m - 1
      /\ \A x \in 1 .. m - 1 : t[x] = IF x < p THEN s[x] ELSE s[x + 1]
  BY <1>1, RemoveAtIs
<1>4. i \in 2 .. N + 1 /\ m \in i - 1 .. N /\ i - 1 = p /\ p \in 1 .. m BY <1>1
<1>5. \A x \in 1 .. m : s[x] \in Values BY <1>1
<1>6. \A x \in i .. m : h[x] \in Values
  <2> TAKE x \in i .. m
  <2>1. x \in 1 .. N /\ x # p /\ x <= m /\ x \in 1 .. m BY <1>1
  <2> HIDE DEF h
  <2> QED BY <2>1, <1>2, <1>5
<1> HIDE DEF h, i, m, N, t
<1>7. b = [x \in 1 .. N |-> IF x \in i - 1 .. m - 1 THEN h[x + 1] ELSE IF x = m THEN Raw ELSE h[x]]
  <2>1. N \in Nat /\ h \in [1 .. N -> Slot] /\ h[i - 1] = Raw BY <1>1, <1>2, <1>4
  <2>2. i \in 2 .. N + 1 /\ m \in i - 1 .. N BY <1>4
  <2>3. WentDown(ShiftDown(h, Upwards(i, m)), h, N, i, m) BY <1>6, <2>1, <2>2, ShiftDownWorks
  <2> QED BY <2>3 DEF WentDown
<1>8. Laid(b, t, N)
  <2>1. ASSUME NEW x \in 1 .. N
        PROVE  (IF x \in i - 1 .. m - 1 THEN h[x + 1] ELSE IF x = m THEN Raw ELSE h[x])
                 = IF x <= Len(t) THEN t[x] ELSE Raw
    <3>1. CASE x \in p .. m - 1
      <4>1. x + 1 \in 1 .. N /\ x + 1 # p /\ x + 1 <= m /\ x \in 1 .. m - 1 /\ x <= Len(t) /\ ~ (x < p)
        BY <3>1, <1>1, <1>3, <1>4
      <4> QED BY <3>1, <4>1, <1>2, <1>3, <1>4
    <3>2. CASE x = m
      <4>1. x \notin i - 1 .. m - 1 /\ ~ (x <= Len(t)) BY <3>2, <1>1, <1>3, <1>4
      <4> QED BY <3>2, <4>1
    <3>3. CASE x < p
      <4>1. x \notin i - 1 .. m - 1 /\ x # m /\ x # p /\ x <= m /\ x \in 1 .. m - 1 /\ x <= Len(t)
        BY <3>3, <1>1, <1>3, <1>4
      <4>2. h[x] = s[x] /\ t[x] = s[x] BY <3>3, <4>1, <1>2, <1>3
      <4> QED BY <4>1, <4>2
    <3>4. CASE x > m
      <4>1. x \notin i - 1 .. m - 1 /\ x # m /\ x # p /\ ~ (x <= m) /\ ~ (x <= Len(t))
        BY <3>4, <1>1, <1>3, <1>4
      <4> QED BY <4>1, <1>2
    <3> QED BY <3>1, <3>2, <3>3, <3>4, <1>1, <1>4
  <2> HIDE DEF b
  <2> QED BY <1>7, <2>1 DEF Laid
<1>9. t \in Seq(Values) /\ Len(t) <= Len(l.slots) BY <1>1, <1>3 DEF N
<1>10. remove_at1(l, p) = Resized(l, b, Len(t))
  BY <1>1, <1>3 DEF remove_at1, Resized, h, i, m, ListType
<1> HIDE DEF b
<1>11. Holds(Resized(l, b, Len(t)), t) /\ SameBlock(Resized(l, b, Len(t)), l)
  BY <1>8, <1>9, ResizedHolds DEF N
<1> QED BY <1>10, <1>11 DEF t

\* What is left when the last element takes the place of element p.
WithoutFast(s, p) == Front([s EXCEPT ![p] = Last(s)])

LEMMA WithoutFastIs ==
  ASSUME NEW s \in Seq(Values), NEW p \in 1 .. Len(s)
  PROVE  /\ WithoutFast(s, p) \in Seq(Values) /\ Len(WithoutFast(s, p)) = Len(s) - 1
         /\ \A x \in 1 .. Len(s) - 1 : WithoutFast(s, p)[x] = IF x = p THEN s[Len(s)] ELSE s[x]
<1> DEFINE m == Len(s)
           u == [s EXCEPT ![p] = s[m]]
<1>1. u \in Seq(Values) /\ Len(u) = m /\ \A x \in 1 .. m : u[x] = IF x = p THEN s[m] ELSE s[x]
  OBVIOUS
<1>2. WithoutFast(s, p) = SubSeq(u, 1, m - 1) BY <1>1 DEF WithoutFast, Front, Last
<1>3. m \in Nat /\ m >= 1 OBVIOUS
<1> HIDE DEF u, m
<1>4. /\ SubSeq(u, 1, m - 1) \in Seq(Values) /\ Len(SubSeq(u, 1, m - 1)) = m - 1
      /\ \A x \in 1 .. m - 1 : SubSeq(u, 1, m - 1)[x] = u[x]
  BY <1>1, <1>3
<1> QED BY <1>1, <1>2, <1>3, <1>4 DEF m

FastRemoved(l, p) ==
  LET hole == Destroy(l.slots, p)
  IN Resized(l, IF p = l.size THEN hole ELSE Shift(hole, l.size, p), l.size - 1)

LEMMA FastRemoveHolds ==
  ASSUME NEW l, NEW s, Holds(l, s), NEW p \in 1 .. Len(s)
  PROVE  Holds(FastRemoved(l, p), WithoutFast(s, p)) /\ SameBlock(FastRemoved(l, p), l)
<1> DEFINE N == Len(l.slots)
           m == Len(s)
           h == Destroy(l.slots, p)
           b == IF p = m THEN h ELSE Shift(h, m, p)
           t == WithoutFast(s, p)
<1>1. /\ m \in 0 .. N /\ N \in Nat /\ s \in Seq(Values) /\ l.size = m /\ l \in ListType
  BY HoldsBuffer DEF Holds
<1>2. /\ h \in [1 .. N -> Slot] /\ h[p] = Raw
      /\ \A x \in 1 .. N : x # p => h[x] = IF x <= m THEN s[x] ELSE Raw
  BY HoleIs
<1>3. t \in Seq(Values) /\ Len(t) = m - 1
      /\ \A x \in 1 .. m - 1 : t[x] = IF x = p THEN s[m] ELSE s[x]
  BY <1>1, WithoutFastIs
<1>4. p \in 1 .. m /\ m \in 1 .. N /\ p \in 1 .. N /\ s[m] \in Values BY <1>1
<1> HIDE DEF h, m, N, t
<1>5. ASSUME p # m
      PROVE  b = [x \in 1 .. N |-> IF x = p THEN s[m] ELSE IF x = m THEN Raw ELSE h[x]]
  <2>1. h[m] = s[m] BY <1>1, <1>2, <1>4, <1>5
  <2>2. h[m] \in Values /\ m # p /\ N \in Nat /\ p \in 1 .. N BY <1>1, <1>4, <1>5, <2>1
  <2>3. Shifted(Shift(h, m, p), h, N, m, p) BY <1>2, <1>4, <2>2, ShiftWorks
  <2> QED BY <1>5, <2>1, <2>3 DEF Shifted
<1>6. Laid(b, t, N)
  <2>1. CASE p = m
    <3>1. ASSUME NEW x \in 1 .. N PROVE h[x] = IF x <= Len(t) THEN t[x] ELSE Raw
      <4>1. CASE x = m
        <5>1. ~ (x <= Len(t)) BY <4>1, <1>3, <1>4
        <5> QED BY <2>1, <4>1, <5>1, <1>2
      <4>2. CASE x < m
        <5>1. x \in 1 .. m - 1 /\ x <= Len(t) /\ x # p /\ x <= m BY <2>1, <4>2, <1>3, <1>4
        <5> QED BY <5>1, <1>2, <1>3
      <4>3. CASE x > m
        <5>1. ~ (x <= Len(t)) /\ x # p /\ ~ (x <= m) BY <2>1, <4>3, <1>3, <1>4
        <5> QED BY <5>1, <1>2
      <4> QED BY <4>1, <4>2, <4>3, <1>4
    <3>2. b = [x \in 1 .. N |-> h[x]] BY <2>1, <1>2
    <3> HIDE DEF b
    <3> QED BY <3>1, <3>2 DEF Laid
  <2>2. CASE p # m
    <3>1. ASSUME NEW x \in 1 .. N
          PROVE  (IF x = p THEN s[m] ELSE IF x = m THEN Raw ELSE h[x]) = IF x <= Len(t) THEN t[x] ELSE Raw
      <4>1. CASE x = m
        <5>1. ~ (x <= Len(t)) /\ x # p BY <2>2, <4>1, <1>3, <1>4
        <5> QED BY <4>1, <5>1
      <4>2. CASE x < m
        <5>1. x \in 1 .. m - 1 /\ x <= Len(t) /\ x # m /\ x <= m BY <4>2, <1>3, <1>4
        <5> QED BY <5>1, <1>2, <1>3
      <4>3. CASE x > m
        <5>1. ~ (x <= Len(t)) /\ x # p /\ ~ (x <= m) /\ x # m BY <4>3, <1>3, <1>4
        <5> QED BY <5>1, <1>2
      <4> QED BY <4>1, <4>2, <4>3, <1>4
    <3>2. b = [x \in 1 .. N |-> IF x = p THEN s[m] ELSE IF x = m THEN Raw ELSE h[x]] BY <2>2, <1>5
    <3> HIDE DEF b
    <3> QED BY <3>1, <3>2 DEF Laid
  <2> QED BY <2>1, <2>2
<1>7. t \in Seq(Values) /\ Len(t) <= Len(l.slots) BY <1>1, <1>3 DEF N
<1>8. FastRemoved(l, p) = Resized(l, b, Len(t)) BY <1>1, <1>3 DEF FastRemoved, h
<1> HIDE DEF b
<1>9. Holds(Resized(l, b, Len(t)), t) /\ SameBlock(Resized(l, b, Len(t)), l)
  BY <1>6, <1>7, ResizedHolds DEF N
<1> QED BY <1>8, <1>9 DEF t
-----------------------------------------------------------------------------
(* The invariant: live lists hold whole elements, and nothing is leaked *)

Sound(f, o) ==
  /\ DOMAIN f \subseteq Lists /\ f = [i \in DOMAIN f |-> f[i]]
  /\ \A i \in DOMAIN f : Holds(f[i], Contents(f[i]))
  /\ o \in [Allocators -> Int]
  /\ \A a \in Allocators : o[a] = Cardinality(Owners(f, a))

Inv == Sound(lists, out)

LEMMA InvElementsInPlace == Inv => ElementsInPlace
<1> SUFFICES ASSUME Inv PROVE ElementsInPlace OBVIOUS
<1>1. \A i \in live : InPlace(lists[i]) BY HoldsContents DEF Inv, Sound, live
<1>2. \A a \in Allocators : out[a] = Owed(a) BY DEF Inv, Sound, Owed
<1> QED BY <1>1, <1>2 DEF ElementsInPlace

\* 1 if list i of f holds a block of allocator a.
Share(l, a) == IF l.alloc = a /\ l.data THEN 1 ELSE 0
ShareOf(f, i, a) == IF i \in DOMAIN f THEN Share(f[i], a) ELSE 0

LEMMA OwnersWithout ==
  ASSUME NEW f, DOMAIN f \subseteq Lists, NEW i, NEW a
  PROVE  /\ IsFiniteSet(Owners(f, a) \ {i}) /\ Cardinality(Owners(f, a) \ {i}) \in Nat
         /\ Cardinality(Owners(f, a)) = Cardinality(Owners(f, a) \ {i}) + ShareOf(f, i, a)
<1> DEFINE S == Owners(f, a)
<1>1. IsFiniteSet(S)
  <2>1. S \subseteq Lists BY DEF Owners
  <2> QED BY <2>1, ArrayListAssumption, FS_Subset
<1>2. IsFiniteSet(S \ {i}) /\ Cardinality(S \ {i}) \in Nat /\ Cardinality(S) \in Nat
  <2>1. S \ {i} \subseteq S OBVIOUS
  <2>2. IsFiniteSet(S \ {i}) BY <1>1, <2>1, FS_Subset
  <2> QED BY <1>1, <2>2, FS_CardinalityType
<1>3. Cardinality(S) = Cardinality(S \ {i}) + ShareOf(f, i, a)
  <2>1. CASE i \in S
    <3>1. Cardinality(S \ {i}) = Cardinality(S) - 1
      <4> HIDE DEF S
      <4> QED BY <1>1, <2>1, FS_RemoveElement
    <3>2. ShareOf(f, i, a) = 1 BY <2>1 DEF Owners, ShareOf, Share
    <3> HIDE DEF S
    <3> QED BY <1>2, <3>1, <3>2
  <2>2. CASE i \notin S
    <3>1. S \ {i} = S BY <2>2
    <3>2. ShareOf(f, i, a) = 0 BY <2>2 DEF Owners, ShareOf, Share
    <3> HIDE DEF S
    <3> QED BY <1>2, <3>1, <3>2
  <2> QED BY <2>1, <2>2
<1> QED BY <1>2, <1>3

\* o2 is o with the block of list i, if it had one, given back, and that of k.
Rebooked(o2, o, f, i, k) ==
  /\ o2 \in [Allocators -> Int]
  /\ \A a \in Allocators : o2[a] = o[a] - ShareOf(f, i, a) + Share(k, a)

LEMMA PutSound ==
  ASSUME NEW f, NEW o, Sound(f, o), NEW i \in Lists, NEW k, NEW t, Holds(k, t),
         NEW o2, Rebooked(o2, o, f, i, k)
  PROVE  Sound(With(f, i, k), o2)
<1> DEFINE g == With(f, i, k)
<1>1. /\ DOMAIN g = DOMAIN f \cup {i} /\ g[i] = k /\ g = [j \in DOMAIN g |-> g[j]]
      /\ \A j \in DOMAIN f : j # i => g[j] = f[j]
  <2>1. g = [j \in DOMAIN g |-> g[j]] BY DEF With
  <2> QED BY <2>1 DEF With
<1>2. DOMAIN f \subseteq Lists /\ \A j \in DOMAIN f : Holds(f[j], Contents(f[j])) BY DEF Sound
<1>3. Holds(k, Contents(k))
  <2>1. Contents(k) = t BY HoldsContents
  <2> QED BY <2>1
<1> HIDE DEF g
<1>4. \A j \in DOMAIN g : Holds(g[j], Contents(g[j]))
  <2> TAKE j \in DOMAIN g
  <2>1. CASE j = i BY <1>1, <1>3, <2>1
  <2>2. CASE j # i
    <3>1. j \in DOMAIN f /\ g[j] = f[j] BY <1>1, <2>2
    <3> QED BY <1>2, <3>1
  <2> QED BY <2>1, <2>2
<1>5. DOMAIN g \subseteq Lists BY <1>1, <1>2
<1>6. ASSUME NEW a \in Allocators PROVE o2[a] = Cardinality(Owners(g, a))
  <2>1. Owners(g, a) \ {i} = Owners(f, a) \ {i} BY <1>1 DEF Owners
  <2>2. ShareOf(g, i, a) = Share(k, a) /\ Share(k, a) \in Nat BY <1>1 DEF ShareOf, Share
  <2>3. /\ Cardinality(Owners(f, a)) = Cardinality(Owners(f, a) \ {i}) + ShareOf(f, i, a)
        /\ Cardinality(Owners(f, a) \ {i}) \in Nat
    BY <1>2, OwnersWithout
  <2>4. Cardinality(Owners(g, a)) = Cardinality(Owners(f, a) \ {i}) + Share(k, a)
    BY <1>5, <2>1, <2>2, OwnersWithout
  <2>5. ShareOf(f, i, a) \in Nat BY DEF ShareOf, Share
  <2>6. o[a] = Cardinality(Owners(f, a)) BY DEF Sound
  <2>7. o2[a] = o[a] - ShareOf(f, i, a) + Share(k, a) BY DEF Rebooked
  <2> QED BY <2>2, <2>3, <2>4, <2>5, <2>6, <2>7
<1>7. o2 \in [Allocators -> Int] BY DEF Rebooked
<1>8. Sound(g, o2) BY <1>1, <1>4, <1>5, <1>6, <1>7 DEF Sound
<1> QED BY <1>8 DEF g

\* What the client sees: the values of each live list.
Cont(f) == [i \in DOMAIN f |-> Contents(f[i])]

IsPut(g, f, i, t) == g = [j \in DOMAIN f \cup {i} |-> IF j = i THEN t ELSE f[j]]

LEMMA PutCont ==
  ASSUME NEW f, NEW i, NEW k, NEW t, Holds(k, t)
  PROVE  IsPut(Cont(With(f, i, k)), Cont(f), i, t)
<1> DEFINE g == With(f, i, k)
<1>1. DOMAIN g = DOMAIN f \cup {i} /\ g[i] = k /\ \A j \in DOMAIN f : j # i => g[j] = f[j]
  BY DEF With
<1>2. Contents(k) = t BY HoldsContents
<1> HIDE DEF g
<1>3. Cont(g) = [j \in DOMAIN Cont(f) \cup {i} |-> IF j = i THEN t ELSE Cont(f)[j]]
  <2>1. DOMAIN Cont(f) = DOMAIN f /\ \A j \in DOMAIN f : Cont(f)[j] = Contents(f[j]) BY DEF Cont
  <2>2. Cont(g) = [j \in DOMAIN f \cup {i} |-> Contents(g[j])] BY <1>1 DEF Cont
  <2>3. \A j \in DOMAIN f \cup {i} : Contents(g[j]) = IF j = i THEN t ELSE Cont(f)[j]
    BY <1>1, <1>2, <2>1
  <2> QED BY <2>1, <2>2, <2>3
<1> QED BY <1>3 DEF g, IsPut
-----------------------------------------------------------------------------
(* The contract *)

C == INSTANCE ListContract WITH contents <- Cont(lists), Initial <- Initial \cup {<< >>}

\* A step keeps the invariant and is one of the contract, or changes nothing.
Good == Inv' /\ (C!Next \/ UNCHANGED << Cont(lists), ret >>)

LEMMA LiveIs == C!live = live /\ \A i \in live : Cont(lists)[i] = Contents(lists[i])
BY DEF C!live, live, Cont

\* What an unfinished call was about: a live list, or none yet.
Subject(i, l) == (i \in live /\ l = lists[i]) \/ (i \notin live /\ Held(l) = 0)

LEMMA CommitSets ==
  ASSUME Inv, NEW i \in Lists, NEW l, Subject(i, l), NEW c, NEW t,
         Going(c, l, t), NEW r, Commit(i, c, r)
  PROVE  Inv' /\ C!Set(i, t)
<1> DEFINE k == c.list
<1>1. c \in CallType /\ Holds(k, t) /\ k.alloc = l.alloc /\ c.taken - c.given = Held(k) - Held(l)
  BY DEF Going
<1>2. lists' = With(lists, i, k) /\ out' = [out EXCEPT ![k.alloc] = @ + c.taken - c.given]
  BY DEF Commit, Account
<1>3. k.alloc \in Allocators /\ out \in [Allocators -> Int] /\ c.taken \in Int /\ c.given \in Int
      /\ k.data \in BOOLEAN
  BY <1>1 DEF Holds, ListType, Inv, Sound, CallType
<1>4. Rebooked(out', out, lists, i, k)
  <2>1. out' \in [Allocators -> Int]
    <3> HIDE DEF k
    <3>1. out[k.alloc] + c.taken - c.given \in Int BY <1>3
    <3> QED BY <1>2, <1>3, <3>1
  <2>2. ASSUME NEW a \in Allocators PROVE out'[a] = out[a] - ShareOf(lists, i, a) + Share(k, a)
    <3>1. out[a] \in Int BY <1>3
    <3> HIDE DEF k
    <3>2. CASE a = k.alloc
      <4>1. out'[a] = out[a] + c.taken - c.given BY <1>2, <1>3, <3>2
      <4>2. Share(k, a) = Held(k) BY <3>2 DEF Share, Held
      <4>3. ShareOf(lists, i, a) = Held(l) BY <1>1, <3>2 DEF ShareOf, Share, Held, Subject, live
      <4>4. Held(k) \in Int /\ Held(l) \in Int BY DEF Held
      <4> QED BY <1>1, <1>3, <3>1, <4>1, <4>2, <4>3, <4>4
    <3>3. CASE a # k.alloc
      <4>1. out'[a] = out[a] BY <1>2, <1>3, <3>3
      <4>2. Share(k, a) = 0 BY <3>3 DEF Share
      <4>3. ShareOf(lists, i, a) = 0 BY <1>1, <3>3 DEF ShareOf, Share, Subject, live
      <4> QED BY <3>1, <4>1, <4>2, <4>3
    <3> QED BY <3>2, <3>3
  <2> QED BY <2>1, <2>2 DEF Rebooked
<1> HIDE DEF k
<1>5. Sound(With(lists, i, k), out') BY <1>1, <1>4, PutSound DEF Inv
<1>6. Cont(lists)' = [j \in DOMAIN Cont(lists) \cup {i} |-> IF j = i THEN t ELSE Cont(lists)[j]]
  <2>1. IsPut(Cont(With(lists, i, k)), Cont(lists), i, t) BY <1>1, PutCont
  <2>2. Cont(lists)' = Cont(With(lists, i, k)) BY <1>2 DEF Cont
  <2> QED BY <2>1, <2>2 DEF IsPut
<1> QED BY <1>2, <1>5, <1>6 DEF Inv, C!Set, C!live

LEMMA UnchangedInv == Inv /\ UNCHANGED << lists, out >> => Inv' /\ Cont(lists)' = Cont(lists)
BY DEF Inv, Sound, Cont

LEMMA SetSame ==
  ASSUME NEW i \in live, C!Set(i, Contents(lists[i]))
  PROVE  Cont(lists)' = Cont(lists)
<1>1. Cont(lists)' = [j \in C!live \cup {i} |-> IF j = i THEN Contents(lists[i]) ELSE Cont(lists)[j]]
  BY DEF C!Set
<1>2. C!live \cup {i} = DOMAIN lists /\ DOMAIN Cont(lists) = DOMAIN lists BY DEF C!live, live, Cont
<1>3. \A j \in DOMAIN lists : (IF j = i THEN Contents(lists[i]) ELSE Cont(lists)[j]) = Contents(lists[j])
  BY DEF Cont
<1> QED BY <1>1, <1>2, <1>3 DEF Cont

LEMMA ThrewGood == Inv' /\ ret' = "threw" /\ Cont(lists)' = Cont(lists) => Good
BY DEF Good, C!Next, C!Threw

LEMMA UndoneGood ==
  ASSUME Inv, NEW c, ~ c.ok, Undone(c)
  PROVE  Good
BY UnchangedInv, ThrewGood DEF Undone, Ends

LEMMA LiveHolds ==
  ASSUME Inv, NEW i \in live
  PROVE  /\ Holds(lists[i], Contents(lists[i])) /\ i \in Lists /\ Subject(i, lists[i])
         /\ Contents(lists[i]) \in Seq(Values) /\ lists[i].size = Len(Contents(lists[i]))
         /\ Len(Contents(lists[i])) \in Nat
<1>1. Holds(lists[i], Contents(lists[i])) /\ i \in Lists BY DEF Inv, Sound, live
<1>2. Contents(lists[i]) \in Seq(Values) /\ lists[i].size = Len(Contents(lists[i])) BY <1>1 DEF Holds
<1> QED BY <1>1, <1>2 DEF Subject

LEMMA EmptySubject ==
  ASSUME NEW i, i \notin live, NEW a \in Allocators, NEW q \in Nat
  PROVE  Subject(i, Empty(a)) /\ Going(Call(Empty(a), q), Empty(a), << >>)
<1>1. Holds(Empty(a), << >>) /\ Held(Empty(a)) = 0 BY EmptyHolds
<1> QED BY <1>1, CallGoes DEF Subject

LEMMA ConstructGood ==
  ASSUME Inv, NEW i \in Lists, NEW a \in Allocators, NEW n \in Capacities,
         NEW q \in Nat, construct(i, a, n, q)
  PROVE  Good
<1> DEFINE e == Call(Empty(a), q)
           c == reserve1(e, n)
<1>1. i \notin live /\ IF c.ok THEN Commit(i, c, "done") ELSE Undone(c) BY DEF construct
<1>2. n \in Nat BY ArrayListAssumption
<1>3. Subject(i, Empty(a)) /\ Going(e, Empty(a), << >>) BY <1>1, EmptySubject
<1> HIDE DEF e
<1>4. Going(c, Empty(a), << >>) BY <1>2, <1>3, Reserve1Goes
<1> HIDE DEF c
<1>5. CASE c.ok
  <2>1. Commit(i, c, "done") BY <1>1, <1>5
  <2>2. Inv' /\ C!Set(i, << >>) BY <1>3, <1>4, <2>1, CommitSets
  <2>3. ret' = "done" BY <1>5, <2>1 DEF Commit, Ends
  <2>4. C!Construct(i) BY <1>1, <2>2, <2>3, LiveIs DEF C!Construct
  <2> QED BY <2>2, <2>4 DEF Good, C!Next
<1>6. CASE ~ c.ok BY <1>1, <1>6, UndoneGood
<1> QED BY <1>5, <1>6

LEMMA CopyConstructGood ==
  ASSUME Inv, NEW i \in Lists, NEW j \in live, NEW q \in Nat,
         copy_construct(i, j, q)
  PROVE  Good
<1> DEFINE a == lists[j].alloc
           e == Call(Empty(a), q)
           c == IF lists[j].size = 0 THEN e ELSE CopyOf(e, lists[j])
           t == Contents(lists[j])
<1>1. i \notin live /\ IF c.ok THEN Commit(i, c, "done") ELSE Undone([c EXCEPT !.quota = 0])
  BY DEF copy_construct
<1>2. Holds(lists[j], t) /\ t \in Seq(Values) /\ lists[j].size = Len(t) /\ a \in Allocators
  BY LiveHolds DEF Holds, ListType
<1>3. Subject(i, Empty(a)) /\ Going(e, Empty(a), << >>) BY <1>1, <1>2, EmptySubject
<1>4. e.taken = 0 /\ e.given = 0 /\ e.list = Empty(a) /\ Held(Empty(a)) = 0 /\ e.ok
  BY DEF Call, Empty, Held
<1>5. c \in CallType /\ (c.ok => Going(c, Empty(a), t))
  <2>1. CASE lists[j].size = 0
    <3>1. t = << >>
      <4>1. Len(t) = 0 BY <1>2, <2>1
      <4> HIDE DEF t
      <4> QED BY <1>2, <4>1
    <3> QED BY <1>3, <2>1, <3>1 DEF Going
  <2>2. CASE lists[j].size # 0
    <3> HIDE DEF e, t, a
    <3>1. c = CopyOf(e, lists[j]) BY <2>2
    <3>2. /\ CopyOf(e, lists[j]) \in CallType
          /\ CopyOf(e, lists[j]).ok =>
               /\ Holds(CopyOf(e, lists[j]).list, t) /\ CopyOf(e, lists[j]).list.alloc = e.list.alloc
               /\ CopyOf(e, lists[j]).list.data /\ CopyOf(e, lists[j]).taken = e.taken + 1
               /\ CopyOf(e, lists[j]).given = e.given
      BY <1>2, <1>3, CopyOfGoes
    <3> HIDE DEF c
    <3>3. c.ok => Held(c.list) = 1 BY <3>1, <3>2 DEF Held
    <3> QED BY <1>4, <3>1, <3>2, <3>3 DEF Going
  <2> QED BY <2>1, <2>2
<1> HIDE DEF c, t, e
<1>6. CASE c.ok
  <2>1. Commit(i, c, "done") BY <1>1, <1>6
  <2>2. Inv' /\ C!Set(i, t) BY <1>3, <1>5, <1>6, <2>1, CommitSets
  <2>3. ret' = "done" BY <1>6, <2>1 DEF Commit, Ends
  <2>4. C!CopyConstruct(i, j) BY <1>1, <2>2, <2>3, LiveIs DEF C!CopyConstruct, t
  <2>5. j \in C!live BY LiveIs
  <2> QED BY <2>2, <2>4, <2>5 DEF Good, C!Next
<1>7. CASE ~ c.ok
  <2> DEFINE d == [c EXCEPT !.quota = 0]
  <2>1. ~ d.ok BY <1>5, <1>7 DEF CallType
  <2>2. Undone(d) BY <1>1, <1>7
  <2> HIDE DEF d
  <2> QED BY <2>1, <2>2, UndoneGood
<1> QED BY <1>6, <1>7

LEMMA CopyAssigned ==
  ASSUME Inv, NEW i \in live, NEW j \in live, NEW q \in Nat,
         copy_assign(i, j, q)
  PROVE  (Inv' /\ ret' = "done" /\ C!Set(i, Contents(lists[j]))) \/ Good
<1> DEFINE e == Call(lists[i], q)
           s == Contents(lists[i])
           t == Contents(lists[j])
           c == CopyOf(e, lists[j])
           emptied == DestroyAll(lists[i].slots, lists[i].size)
           d == [c EXCEPT !.given = Held(lists[i]), !.list.slots = IF emptied = Torn THEN Torn ELSE @]
<1>1. IF ~ c.ok THEN Undone([c EXCEPT !.quota = 0]) ELSE Commit(i, d, "done")
  BY DEF copy_assign
<1>2. Holds(lists[i], s) /\ Holds(lists[j], t) /\ i \in Lists /\ Subject(i, lists[i]) BY LiveHolds
<1>3. Going(e, lists[i], s) /\ e.taken = 0 /\ e.list = lists[i] BY <1>2, CallGoes
<1>4. emptied # Torn BY <1>2, ClearHolds
<1> HIDE DEF e, s, t, emptied
<1>5. /\ c \in CallType
      /\ c.ok => /\ Holds(c.list, t) /\ c.list.alloc = e.list.alloc
                 /\ c.list.data /\ c.taken = e.taken + 1 /\ c.given = e.given
  BY <1>2, <1>3, CopyOfGoes
<1> HIDE DEF c
<1>6. CASE ~ c.ok
  <2> DEFINE u == [c EXCEPT !.quota = 0]
  <2>1. ~ u.ok BY <1>5, <1>6 DEF CallType
  <2>2. Undone(u) BY <1>1, <1>6
  <2> HIDE DEF u
  <2> QED BY <2>1, <2>2, UndoneGood
<1>7. CASE c.ok
  <2> DEFINE g == Held(lists[i])
             f == [c EXCEPT !.given = g]
  <2>1. g \in Int BY DEF Held
  <2>2. d = f
    <3>1. d = [c EXCEPT !.given = g, !.list.slots = c.list.slots] BY <1>4
    <3>2. c.list \in ListType BY <1>5 DEF CallType
    <3> HIDE DEF g, d
    <3> QED BY <1>5, <2>1, <3>1, <3>2 DEF CallType, ListType
  <2>3. f \in CallType /\ f.list = c.list /\ f.taken = 1 /\ f.given = g /\ f.ok
    <3> HIDE DEF g
    <3> QED BY <1>3, <1>5, <1>7, <2>1 DEF CallType
  <2>4. Held(c.list) = 1 BY <1>5, <1>7 DEF Held
  <2> HIDE DEF f, d
  <2>5. Going(f, lists[i], t) BY <1>3, <1>5, <1>7, <2>1, <2>3, <2>4 DEF Going
  <2>6. Commit(i, f, "done") BY <1>1, <1>7, <2>2
  <2>7. Inv' /\ C!Set(i, t) BY <1>2, <2>5, <2>6, CommitSets
  <2>8. ret' = "done" BY <2>3, <2>6 DEF Commit, Ends
  <2> QED BY <2>7, <2>8 DEF t
<1> QED BY <1>6, <1>7

LEMMA CopyAssignGood ==
  ASSUME Inv, NEW i \in live, NEW j \in live, i # j, NEW q \in Nat,
         copy_assign(i, j, q)
  PROVE  Good
<1>1. CASE Inv' /\ ret' = "done" /\ C!Set(i, Contents(lists[j]))
  <2>1. C!CopyAssign(i, j) BY <1>1, LiveIs DEF C!CopyAssign
  <2>2. i \in C!live /\ j \in C!live BY LiveIs
  <2> QED BY <1>1, <2>1, <2>2 DEF Good, C!Next
<1> QED BY <1>1, CopyAssigned

\* The fold of construct_filled: each add finds the room reserved for it.
LEMMA Add1Room ==
  ASSUME NEW c, NEW l, NEW s, Going(c, l, s), Len(s) < Len(c.list.slots), NEW v \in Values
  PROVE  add1(c, v).ok => Len(add1(c, v).list.slots) = Len(c.list.slots)
<1> DEFINE e == c.list.slots
           N == Len(e)
           b == ConstructIn(e, c.list.size + 1, v)
           r == [c EXCEPT !.quota = @ - 1, !.list.size = @ + 1, !.list.slots = b]
<1>1. /\ c \in CallType /\ Holds(c.list, s) /\ c.list.size = Len(s) /\ Len(s) \in Nat /\ N \in Nat
      /\ e \in [1 .. N -> Slot] /\ c.list \in ListType
  BY HoldsBuffer DEF Going, Holds
<1>2. grow(c) = c BY <1>1 DEF grow
<1>3. CASE ~ c.ok \/ c.quota = 0
  <2>1. add1(c, v) = Throw(c) BY <1>2, <1>3 DEF add1
  <2> QED BY <2>1, ThrowGoes
<1>4. CASE ~ (~ c.ok \/ c.quota = 0)
  <2>1. add1(c, v) = r BY <1>2, <1>4 DEF add1
  <2>2. r.list.slots = b BY <1>1 DEF CallType, ListType
  <2>3. Len(b) = N
    <3> DEFINE k == Len(s) + 1
    <3>1. k \in 1 .. N /\ k \in DOMAIN e BY <1>1
    <3>2. e[k] = Raw
      <4>1. ~ (k <= Len(s)) /\ k \in 1 .. N BY <1>1, <3>1
      <4> HIDE DEF k
      <4> QED BY <1>1, <4>1 DEF Holds
    <3>3. b = [e EXCEPT ![k] = v] BY <1>1, <3>1, <3>2 DEF ConstructIn, Built
    <3>4. v \in Slot BY DEF Slot, Built
    <3> HIDE DEF k, e, N, b
    <3>5. b \in [1 .. N -> Slot] BY <1>1, <3>1, <3>3, <3>4
    <3> QED BY <1>1, <3>5
  <2> QED BY <2>1, <2>2, <2>3
<1> QED BY <1>3, <1>4

\* construct_filled as it is after the first k of the values of s.
FilledTo(r, l, s, k) ==
  r[1 .. k].ok => /\ Going(r[1 .. k], l, SubSeq(s, 1, k))
                  /\ Len(r[1 .. k].list.slots) >= Len(s)

LEMMA FilledStep ==
  ASSUME NEW s \in Seq(Values), NEW c, NEW l, NEW k \in 1 .. Len(s), NEW d,
         c.ok => Going(c, l, SubSeq(s, 1, k - 1)) /\ Len(c.list.slots) >= Len(s),
         d = IF c.ok THEN add1(c, s[k]) ELSE c
  PROVE  d.ok => Going(d, l, SubSeq(s, 1, k)) /\ Len(d.list.slots) >= Len(s)
<1> SUFFICES ASSUME d.ok PROVE Going(d, l, SubSeq(s, 1, k)) /\ Len(d.list.slots) >= Len(s) OBVIOUS
<1>1. CASE ~ c.ok BY <1>1
<1>2. CASE c.ok
  <2> DEFINE u == SubSeq(s, 1, k - 1)
             v == s[k]
  <2>1. u \in Seq(Values) /\ Len(u) = k - 1 /\ v \in Values OBVIOUS
  <2>2. Going(c, l, u) /\ Len(c.list.slots) >= Len(s) BY <1>2
  <2>3. Append(u, v) = SubSeq(s, 1, k) OBVIOUS
  <2>4. d = add1(c, v) BY <1>2
  <2> HIDE DEF u, v
  <2>5. Len(c.list.slots) \in Nat /\ Len(u) < Len(c.list.slots)
    <3>1. Len(c.list.slots) \in Nat BY <2>2, HoldsBuffer DEF Going
    <3> QED BY <2>1, <2>2, <3>1
  <2>6. Added(add1(c, v), c, l, u, Append(u, v)) BY <2>1, <2>2, <2>5, Add1Goes
  <2>7. Going(d, l, Append(u, v)) BY <2>4, <2>6 DEF Added
  <2>8. Len(d.list.slots) = Len(c.list.slots) BY <2>1, <2>2, <2>4, <2>5, Add1Room
  <2> QED BY <2>2, <2>3, <2>7, <2>8
<1> QED BY <1>1, <1>2

LEMMA FilledGoes ==
  ASSUME NEW s \in Seq(Values), NEW c, NEW l, Going(c, l, << >>),
         c.ok => Len(c.list.slots) >= Len(s)
  PROVE  LET d == FoldLeft(LAMBDA x, v : IF x.ok THEN add1(x, v) ELSE x, c, s)
         IN d.ok => Going(d, l, s)
<1> DEFINE n == Len(s)
           es == [k \in 1 .. n |-> [op |-> "add", v |-> s[k]]]
           Solves(t) == t = [z \in SUBSET (1 .. n) |->
                               IF z = {} THEN c
                               ELSE IF t[z \ {Max(z)}].ok THEN add1(t[z \ {Max(z)}], s[Max(z)])
                                    ELSE t[z \ {Max(z)}]]
           d == FoldLeft(LAMBDA x, v : IF x.ok THEN add1(x, v) ELSE x, c, s)
<1>1. n \in Nat /\ DOMAIN s = 1 .. n OBVIOUS
<1>2. \A x : \A k \in 1 .. n : Do(x, es[k]) = IF x.ok THEN add1(x, s[k]) ELSE x BY DEF Do
<1> HIDE DEF n, es
<1>3. ASSUME NEW t PROVE Folds(t, c, es, n) <=> Solves(t)
  <2>1. \A z \in SUBSET (1 .. n) : z # {} =>
          Do(t[z \ {Max(z)}], es[Max(z)])
            = IF t[z \ {Max(z)}].ok THEN add1(t[z \ {Max(z)}], s[Max(z)]) ELSE t[z \ {Max(z)}]
    <3> HIDE DEF Solves
    <3> QED BY <1>1, <1>2, MaxIn
  <2> QED BY <2>1 DEF Folds
<1>4. PICK r0 : Folds(r0, c, es, n) BY <1>1, FoldsExist
<1> DEFINE r == CHOOSE t : Solves(t)
<1>5. Solves(r) BY <1>3, <1>4
<1>6. d = r[1 .. n] BY <1>1 DEF FoldLeft, MapThenFoldSet
<1> DEFINE S == {k \in 0 .. n : ~ FilledTo(r, l, s, k)}
<1>7. r[1 .. 0] = c
  <2>1. 1 .. 0 = {} OBVIOUS
  <2> HIDE DEF r
  <2> QED BY <1>5, <2>1
<1>8. ASSUME NEW m \in 1 .. n
      PROVE  r[1 .. m] = IF r[1 .. (m - 1)].ok THEN add1(r[1 .. (m - 1)], s[m]) ELSE r[1 .. (m - 1)]
  <2>1. m \in Nat /\ m \in 1 .. m /\ \A x \in 1 .. m : x \in 1 .. n BY <1>1
  <2>2. \A x : x \in (1 .. m) \ {m} <=> x \in 1 .. (m - 1) BY <2>1
  <2>3. (1 .. m) \ {m} = 1 .. (m - 1) BY <2>2, Zenon
  <2>4. Max(1 .. m) = m BY <2>1, MaxOf
  <2>5. 1 .. m \in SUBSET (1 .. n) /\ 1 .. m # {} BY <2>1
  <2> HIDE DEF r, S, d
  <2> DEFINE w == 1 .. m
  <2>6. r[w] = IF r[w \ {Max(w)}].ok THEN add1(r[w \ {Max(w)}], s[Max(w)]) ELSE r[w \ {Max(w)}]
    <3> HIDE DEF w
    <3>1. w \in SUBSET (1 .. n) /\ w # {} BY <2>5 DEF w
    <3> QED BY <1>5, <3>1
  <2> QED BY <2>3, <2>4, <2>6
<1> HIDE DEF r, Solves, d
<1>9. S = {}
  <2> SUFFICES ASSUME S # {} PROVE FALSE OBVIOUS
  <2>1. S \in SUBSET Nat BY <1>1
  <2>2. PICK m \in S : \A k \in S : m <= k
    <3> HIDE DEF S
    <3> QED BY <2>1, LeastNat
  <2>3. m # 0
    <3>1. SubSeq(s, 1, 0) = << >> OBVIOUS
    <3>2. FilledTo(r, l, s, 0) BY <1>7, <3>1 DEF FilledTo
    <3> QED BY <2>2, <3>2
  <2>4. m \in 1 .. n /\ m - 1 \in 0 .. n /\ m - 1 \notin S BY <1>1, <2>2, <2>3
  <2>5. FilledTo(r, l, s, m - 1) BY <2>4
  <2>6. FilledTo(r, l, s, m)
    <3> DEFINE x == r[1 .. (m - 1)]
               y == r[1 .. m]
    <3>1. x.ok => Going(x, l, SubSeq(s, 1, m - 1)) /\ Len(x.list.slots) >= Len(s)
      BY <2>5 DEF FilledTo
    <3>2. y = IF x.ok THEN add1(x, s[m]) ELSE x BY <1>8, <2>4
    <3>3. m \in 1 .. Len(s) BY <2>4 DEF n
    <3> HIDE DEF x, y
    <3>4. y.ok => Going(y, l, SubSeq(s, 1, m)) /\ Len(y.list.slots) >= Len(s)
      BY <3>1, <3>2, <3>3, FilledStep
    <3> QED BY <3>4 DEF FilledTo, y
  <2> QED BY <2>2, <2>6
<1>10. FilledTo(r, l, s, n) BY <1>1, <1>9
<1>11. SubSeq(s, 1, n) = s BY DEF n
<1>12. d.ok => Going(d, l, s) BY <1>6, <1>10, <1>11 DEF FilledTo
<1> QED BY <1>12 DEF d

LEMMA ConstructFilledGood ==
  ASSUME Inv, NEW i \in Lists, NEW a \in Allocators, NEW s \in Initial,
         NEW q \in Nat, construct_filled(i, a, s, q)
  PROVE  Good
<1> DEFINE e == Call(Empty(a), q)
           b == reserve1(e, Len(s))
           c == FoldLeft(LAMBDA d, v : IF d.ok THEN add1(d, v) ELSE d, b, s)
<1>1. i \notin live /\ IF c.ok THEN Commit(i, c, "done") ELSE Undone(c) BY DEF construct_filled
<1>2. s \in Seq(Values) /\ Len(s) \in Nat BY ArrayListAssumption
<1>3. Subject(i, Empty(a)) /\ Going(e, Empty(a), << >>) BY <1>1, EmptySubject
<1> HIDE DEF e
<1>4. Going(b, Empty(a), << >>) /\ (b.ok => Len(b.list.slots) >= Len(s)) BY <1>2, <1>3, Reserve1Goes
<1> HIDE DEF b
<1>5. c.ok => Going(c, Empty(a), s) BY <1>2, <1>4, FilledGoes
<1> HIDE DEF c
<1>6. CASE c.ok
  <2>1. Commit(i, c, "done") BY <1>1, <1>6
  <2>2. Inv' /\ C!Set(i, s) BY <1>3, <1>5, <1>6, <2>1, CommitSets
  <2>3. ret' = "done" BY <1>6, <2>1 DEF Commit, Ends
  <2>4. C!Construct(i) BY <1>1, <2>2, <2>3, LiveIs DEF C!Construct
  <2> QED BY <2>2, <2>4 DEF Good, C!Next
<1>7. CASE ~ c.ok BY <1>1, <1>7, UndoneGood
<1> QED BY <1>6, <1>7

\* A call that adds, or throws and has added nothing.
LEMMA AddedGood ==
  ASSUME Inv, NEW i \in live, NEW v \in Values,
         NEW idx \in 0 .. lists[i].size, NEW e, NEW c,
         Added(c, e, lists[i], Contents(lists[i]), InsertAt(Contents(lists[i]), idx + 1, v)),
         Commit(i, c, "done")
  PROVE  Good
<1> DEFINE s == Contents(lists[i])
           t == InsertAt(s, idx + 1, v)
<1>1. i \in Lists /\ Subject(i, lists[i]) /\ lists[i].size = Len(s) BY LiveHolds
<1>2. Going(c, lists[i], IF c.ok THEN t ELSE s) BY DEF Added
<1> HIDE DEF t, s
<1>3. CASE c.ok
  <2>1. Going(c, lists[i], t) BY <1>2, <1>3
  <2>2. Inv' /\ C!Set(i, t) BY <1>1, <2>1, CommitSets
  <2>3. ret' = "done" BY <1>3 DEF Commit, Ends
  <2>4. C!Add(i, idx, v) BY <2>2, <2>3, LiveIs DEF C!Add, C!InsertAt, InsertAt, t, s
  <2>5. i \in C!live /\ idx \in 0 .. Len(Cont(lists)[i]) BY <1>1, LiveIs DEF s
  <2> QED BY <2>2, <2>4, <2>5 DEF Good, C!Next
<1>4. CASE ~ c.ok
  <2>1. Going(c, lists[i], s) BY <1>2, <1>4
  <2>2. Inv' /\ C!Set(i, s) BY <1>1, <2>1, CommitSets
  <2>3. ret' = "threw" BY <1>4 DEF Commit, Ends
  <2>4. Cont(lists)' = Cont(lists) BY <2>2, SetSame DEF s
  <2> QED BY <2>2, <2>3, <2>4, ThrewGood
<1> QED BY <1>3, <1>4

LEMMA AddGood ==
  ASSUME ~ AddToFullOfOne, Inv, NEW i \in live, NEW v \in Values,
         NEW q \in Nat, add(i, v, q)
  PROVE  Good
<1> DEFINE e == Call(lists[i], q)
           s == Contents(lists[i])
           c == add1(e, v)
<1>1. MayAdd(lists[i]) /\ Commit(i, c, "done") BY DEF add
<1>2. Holds(lists[i], s) /\ s \in Seq(Values) /\ lists[i].size = Len(s) BY LiveHolds
<1>3. Going(e, lists[i], s) /\ e.list = lists[i] BY <1>2, CallGoes
<1>4. Roomy(e) BY <1>1, <1>3 DEF Roomy, MayAdd
<1> HIDE DEF e
<1>5. Added(c, e, lists[i], s, Append(s, v)) BY <1>3, <1>4, Add1Goes
<1>6. Append(s, v) = InsertAt(s, Len(s) + 1, v) BY <1>2, AppendIsInsert
<1>7. Len(s) \in 0 .. lists[i].size BY <1>2
<1> HIDE DEF c
<1>8. Added(c, e, lists[i], s, InsertAt(s, Len(s) + 1, v)) BY <1>5, <1>6
<1> QED BY <1>1, <1>7, <1>8, AddedGood

LEMMA AddAtGood ==
  ASSUME ~ AddToFullOfOne, Inv, NEW i \in live, NEW v \in Values,
         NEW idx \in 0 .. lists[i].size, NEW q \in Nat, add_at(i, idx, v, q)
  PROVE  Good
<1> DEFINE e == Call(lists[i], q)
           s == Contents(lists[i])
           p == idx + 1
           c == add_at1(e, p, v)
<1>1. MayAdd(lists[i]) /\ Commit(i, c, "done") BY DEF add_at
<1>2. Holds(lists[i], s) /\ lists[i].size = Len(s) /\ Len(s) \in Nat BY LiveHolds
<1>3. Going(e, lists[i], s) /\ e.list = lists[i] BY <1>2, CallGoes
<1>4. Roomy(e) BY <1>1, <1>3 DEF Roomy, MayAdd
<1>5. p \in 1 .. Len(s) + 1 BY <1>2
<1> HIDE DEF e, s, p
<1>6. Added(c, e, lists[i], s, InsertAt(s, p, v)) BY <1>3, <1>4, <1>5, AddAt1Goes
<1> HIDE DEF c
<1> QED BY <1>1, <1>6, AddedGood DEF p, s

\* reserve and trim_to_size: the same values in another buffer, or in the same.
LEMMA RefitGood ==
  ASSUME Inv, NEW i \in live, NEW c,
         Going(c, lists[i], Contents(lists[i])), Commit(i, c, "done")
  PROVE  Good
<1>1. i \in Lists /\ Subject(i, lists[i]) BY LiveHolds
<1>2. Inv' /\ C!Set(i, Contents(lists[i])) BY <1>1, CommitSets
<1>3. Cont(lists)' = Cont(lists) BY <1>2, SetSame
<1>4. ret' = "done" \/ ret' = "threw" BY DEF Commit, Ends
<1>5. ret' = "done" => C!Next BY <1>3 DEF C!Next, C!Refit
<1> QED BY <1>2, <1>3, <1>4, <1>5, ThrewGood DEF Good

LEMMA ReserveGood ==
  ASSUME Inv, NEW i \in live, NEW n \in Capacities, NEW q \in Nat,
         reserve(i, n, q)
  PROVE  Good
<1> DEFINE e == Call(lists[i], q)
           s == Contents(lists[i])
           c == reserve1(e, n)
<1>1. Commit(i, c, "done") BY DEF reserve
<1>2. Holds(lists[i], s) BY LiveHolds
<1>3. Going(e, lists[i], s) BY <1>2, CallGoes
<1>4. n \in Nat BY ArrayListAssumption
<1> HIDE DEF e, s
<1>5. Going(c, lists[i], s) BY <1>3, <1>4, Reserve1Goes
<1> HIDE DEF c
<1> QED BY <1>1, <1>5, RefitGood DEF s

LEMMA TrimGood ==
  ASSUME Inv, NEW i \in live, NEW q \in Nat, trim_to_size(i, q)
  PROVE  Good
<1> DEFINE e == Call(lists[i], q)
           l == lists[i]
           s == Contents(l)
           b == MovedInto(l.slots, l.size, l.size)
           c == IF Len(l.slots) = l.size THEN e ELSE IF q = 0 THEN Throw(e) ELSE Swap(e, b)
<1>1. Commit(i, c, "done") BY DEF trim_to_size
<1>2. Holds(l, s) /\ l.size = Len(s) /\ Len(s) \in Nat BY LiveHolds
<1>3. Going(e, l, s) /\ e.quota = q BY <1>2, CallGoes
<1> HIDE DEF e, s
<1>4. Going(c, l, s)
  <2>1. Going(Throw(e), l, s) BY <1>3, ThrowGoes
  <2>2. ASSUME q # 0 PROVE Going(Swap(e, b), l, s)
    <3>1. Laid(b, s, Len(s)) BY <1>2, MovedHolds DEF Laid
    <3>2. e.quota > 0 BY <1>3, <2>2
    <3>3. Len(s) <= Len(s) BY <1>2
    <3> HIDE DEF b, l
    <3> QED BY <1>2, <1>3, <3>1, <3>2, <3>3, SwapGoes
  <2> HIDE DEF b, l
  <2> QED BY <1>3, <2>1, <2>2
<1> HIDE DEF c
<1> QED BY <1>1, <1>4, RefitGood DEF s

\* A call that puts another sound list with the same block in the place of i.
LEMMA ReplacedSets ==
  ASSUME Inv, NEW i \in live, NEW k, NEW t, Holds(k, t), SameBlock(k, lists[i]),
         lists' = With(lists, i, k), out' = out
  PROVE  Inv' /\ C!Set(i, t)
<1>1. i \in Lists BY LiveHolds
<1>2. Rebooked(out, out, lists, i, k)
  <2>1. out \in [Allocators -> Int] BY DEF Inv, Sound
  <2>2. \A a \in Allocators : ShareOf(lists, i, a) = Share(k, a) /\ Share(k, a) \in Int
    BY DEF ShareOf, Share, SameBlock, live
  <2> QED BY <2>1, <2>2 DEF Rebooked
<1>3. Sound(With(lists, i, k), out) BY <1>1, <1>2, PutSound DEF Inv
<1>4. IsPut(Cont(With(lists, i, k)), Cont(lists), i, t) BY PutCont
<1>5. Cont(lists)' = Cont(With(lists, i, k)) BY DEF Cont
<1> QED BY <1>3, <1>4, <1>5 DEF Inv, IsPut, C!Set, C!live

LEMMA ExceptIsWith ==
  ASSUME Inv, NEW i \in live, NEW k
  PROVE  [lists EXCEPT ![i] = k] = With(lists, i, k)
<1>1. lists = [j \in DOMAIN lists |-> lists[j]] /\ i \in DOMAIN lists BY DEF Inv, Sound, live
<1>2. DOMAIN lists \cup {i} = DOMAIN lists BY <1>1
<1> QED BY <1>1, <1>2 DEF With

LEMMA SetGood ==
  ASSUME Inv, NEW i \in live, NEW idx \in Indices(i), NEW v \in Values,
         set(i, idx, v)
  PROVE  Good
<1> DEFINE l == lists[i]
           p == idx + 1
           s == Contents(l)
           k == [l EXCEPT !.slots[p] = v]
           t == [s EXCEPT ![p] = v]
<1>1. Holds(l, s) /\ l.size = Len(s) /\ Len(s) \in Nat BY LiveHolds
<1>2. p \in 1 .. Len(s) /\ idx \in 0 .. Len(s) - 1 BY <1>1 DEF Indices
<1>3. Holds(k, t) /\ SameBlock(k, l)
  <2> HIDE DEF l, p, s
  <2> QED BY <1>1, <1>2, SetHolds
<1>4. lists' = With(lists, i, k) /\ out' = out /\ ret' = "yes"
  <2>1. lists' = [lists EXCEPT ![i] = k] /\ out' = out /\ ret' = "yes" BY DEF set
  <2> QED BY <2>1, ExceptIsWith
<1> HIDE DEF k, t
<1>5. Inv' /\ C!Set(i, t) BY <1>3, <1>4, ReplacedSets
<1>6. C!Replace(i, idx, v) BY <1>4, <1>5, LiveIs DEF C!Replace, t
<1>7. i \in C!live /\ idx \in 0 .. Len(Cont(lists)[i]) - 1 BY <1>2, LiveIs
<1> QED BY <1>5, <1>6, <1>7 DEF Good, C!Next

\* remove_at, called with an index or by remove.
LEMMA RemoveAtSets ==
  ASSUME Inv, NEW i \in live, NEW idx \in Indices(i), remove_at(i, idx)
  PROVE  Inv' /\ ret' = "yes" /\ C!Set(i, RemoveAt(Contents(lists[i]), idx + 1))
<1> DEFINE l == lists[i]
           p == idx + 1
           s == Contents(l)
           k == remove_at1(l, p)
           t == RemoveAt(s, p)
<1>1. Holds(l, s) /\ l.size = Len(s) /\ Len(s) \in Nat BY LiveHolds
<1>2. p \in 1 .. Len(s) BY <1>1 DEF Indices
<1>3. Holds(k, t) /\ SameBlock(k, l)
  <2> HIDE DEF l, p, s
  <2> QED BY <1>1, <1>2, RemoveAt1Holds
<1>4. lists' = With(lists, i, k) /\ out' = out /\ ret' = "yes"
  <2>1. lists' = [lists EXCEPT ![i] = k] /\ out' = out /\ ret' = "yes" BY DEF remove_at
  <2> QED BY <2>1, ExceptIsWith
<1> HIDE DEF k, t
<1>5. Inv' /\ C!Set(i, t) BY <1>3, <1>4, ReplacedSets
<1> QED BY <1>4, <1>5 DEF t

LEMMA RemoveAtGood ==
  ASSUME Inv, NEW i \in live, NEW idx \in Indices(i), remove_at(i, idx)
  PROVE  Good
<1>1. Inv' /\ ret' = "yes" /\ C!Set(i, RemoveAt(Contents(lists[i]), idx + 1)) BY RemoveAtSets
<1>2. C!Delete(i, idx) BY <1>1, LiveIs DEF C!Delete, C!RemoveAt, RemoveAt
<1>3. i \in C!live /\ idx \in 0 .. Len(Cont(lists)[i]) - 1 BY LiveHolds, LiveIs DEF Indices
<1> QED BY <1>1, <1>2, <1>3 DEF Good, C!Next

LEMMA FastRemoveGood ==
  ASSUME Inv, NEW i \in live, NEW idx \in Indices(i), fast_remove_at(i, idx)
  PROVE  Good
<1> DEFINE l == lists[i]
           p == idx + 1
           s == Contents(l)
           hole == Destroy(l.slots, p)
           b == IF p = l.size THEN hole ELSE Shift(hole, l.size, p)
           k == FastRemoved(l, p)
           t == WithoutFast(s, p)
<1>1. Holds(l, s) /\ l.size = Len(s) /\ Len(s) \in Nat BY LiveHolds
<1>2. p \in 1 .. Len(s) /\ idx \in 0 .. Len(s) - 1 BY <1>1 DEF Indices
<1>3. Holds(k, t) /\ SameBlock(k, l)
  <2> HIDE DEF l, p, s
  <2> QED BY <1>1, <1>2, FastRemoveHolds
<1>4. lists' = With(lists, i, k) /\ out' = out /\ ret' = "yes"
  <2>1. lists' = [lists EXCEPT ![i].slots = b, ![i].size = @ - 1] /\ out' = out /\ ret' = "yes"
    BY DEF fast_remove_at
  <2>2. k = [l EXCEPT !.slots = b, !.size = l.size - 1] BY DEF FastRemoved, Resized
  <2>3. [lists EXCEPT ![i].slots = b, ![i].size = @ - 1] = [lists EXCEPT ![i] = k]
    <3>1. lists = [j \in DOMAIN lists |-> lists[j]] /\ i \in DOMAIN lists /\ l \in ListType
      BY <1>1 DEF Inv, Sound, live, Holds
    <3> HIDE DEF b, k
    <3> QED BY <3>1, <2>2 DEF ListType
  <2> QED BY <2>1, <2>3, ExceptIsWith
<1> HIDE DEF k, t
<1>5. Inv' /\ C!Set(i, t) BY <1>3, <1>4, ReplacedSets
<1>6. C!DeleteFast(i, idx)
  <2>1. t = C!Front([s EXCEPT ![p] = C!Last(s)]) BY DEF t, WithoutFast, Front, Last, C!Front, C!Last
  <2> QED BY <1>4, <1>5, <2>1, LiveIs DEF C!DeleteFast
<1>7. i \in C!live /\ idx \in 0 .. Len(Cont(lists)[i]) - 1 BY <1>2, LiveIs
<1> QED BY <1>5, <1>6, <1>7 DEF Good, C!Next

LEMMA ClearGood ==
  ASSUME Inv, NEW i \in live, clear(i)
  PROVE  Good
<1> DEFINE l == lists[i]
           b == DestroyAll(l.slots, l.size)
           k == Resized(l, b, 0)
<1>1. Holds(l, Contents(l)) BY LiveHolds
<1>2. Holds(k, << >>) /\ SameBlock(k, l) BY <1>1, ClearHolds
<1>3. lists' = With(lists, i, k) /\ out' = out /\ ret' = "done"
  <2>1. lists' = [lists EXCEPT ![i].slots = b, ![i].size = 0] /\ out' = out /\ ret' = "done"
    BY DEF clear
  <2>2. k = [l EXCEPT !.slots = b, !.size = 0] BY DEF Resized
  <2>3. [lists EXCEPT ![i].slots = b, ![i].size = 0] = [lists EXCEPT ![i] = k]
    <3>1. lists = [j \in DOMAIN lists |-> lists[j]] /\ i \in DOMAIN lists /\ l \in ListType
      BY <1>1 DEF Inv, Sound, live, Holds
    <3> HIDE DEF b, k
    <3> QED BY <3>1, <2>2 DEF ListType
  <2> QED BY <2>1, <2>3, ExceptIsWith
<1> HIDE DEF k
<1>4. Inv' /\ C!Set(i, << >>) BY <1>2, <1>3, ReplacedSets
<1>5. C!Clear(i) /\ i \in C!live BY <1>3, <1>4, LiveIs DEF C!Clear
<1> QED BY <1>4, <1>5 DEF Good, C!Next

\* The slot remove finds is the first that holds v.
LEMMA FoundIs ==
  ASSUME NEW l, NEW s, Holds(l, s), NEW v, NEW found,
         found = SelectInSubSeq(l.slots, 1, l.size, LAMBDA x : x = v)
  PROVE  /\ C!Contains(s, v) => found \in 1 .. Len(s) /\ C!RemoveFirst(s, v) = RemoveAt(s, found)
         /\ ~ C!Contains(s, v) => found = 0 /\ C!RemoveFirst(s, v) = s
<1> DEFINE I == {x \in 1 .. Len(s) : s[x] = v}
<1>1. l.size = Len(s) /\ s \in Seq(Values) /\ Len(s) \in 0 .. Len(l.slots)
      /\ \A p \in 1 .. Len(l.slots) : l.slots[p] = IF p <= Len(s) THEN s[p] ELSE Raw
  BY HoldsBuffer DEF Holds
<1>2. {x \in 1 .. l.size : l.slots[x] = v} = I
  <2>1. \A x \in 1 .. Len(s) : l.slots[x] = s[x]
    <3>1. \A x \in 1 .. Len(s) : x \in 1 .. Len(l.slots) /\ x <= Len(s) BY <1>1
    <3> QED BY <1>1, <3>1
  <2> QED BY <1>1, <2>1
<1>3. found = IF I # {} THEN Min(I) ELSE 0
  <2>1. found = IF {x \in 1 .. l.size : l.slots[x] = v} # {}
                THEN Min({x \in 1 .. l.size : l.slots[x] = v}) ELSE 0
    BY DEF SelectInSubSeq
  <2> HIDE DEF I
  <2> QED BY <1>2, <2>1
<1>4. C!SelectInSeq(s, LAMBDA w : w = v) = IF I # {} THEN Min(I) ELSE 0
  BY DEF C!SelectInSeq, C!SelectInSubSeq, C!Min, Min
<1>5. C!Contains(s, v) <=> I # {} BY DEF C!Contains
<1>6. ASSUME I # {} PROVE Min(I) \in 1 .. Len(s)
  <2>1. I \in SUBSET Nat /\ I \subseteq 1 .. Len(s) BY <1>1
  <2> HIDE DEF I
  <2>2. PICK m \in I : \A x \in I : m <= x BY <1>6, <2>1, LeastNat
  <2>3. Min(I) \in I BY <2>2 DEF Min
  <2> QED BY <2>1, <2>3
<1>7. C!RemoveFirst(s, v) = IF I # {} THEN RemoveAt(s, IF I # {} THEN Min(I) ELSE 0) ELSE s
  <2>1. (\E x \in 1 .. Len(s) : s[x] = v) <=> I # {} OBVIOUS
  <2> HIDE DEF I
  <2> QED BY <1>4, <2>1 DEF C!RemoveFirst, C!RemoveAt, RemoveAt
<1> HIDE DEF I
<1> QED BY <1>3, <1>5, <1>6, <1>7

LEMMA RemoveGood ==
  ASSUME Inv, NEW i \in live, NEW v \in Values, remove(i, v)
  PROVE  Good
<1> DEFINE s == Contents(lists[i])
           found == SelectInSubSeq(lists[i].slots, 1, lists[i].size, LAMBDA x : x = v)
           t == C!RemoveFirst(s, v)
           has == C!Contains(s, v)
<1>1. IF found = 0 THEN ret' = "no" /\ UNCHANGED << lists, out >> ELSE remove_at(i, found - 1)
  BY DEF remove
<1>2. Holds(lists[i], s) /\ lists[i].size = Len(s) /\ Len(s) \in Nat BY LiveHolds
<1>3. /\ has => found \in 1 .. Len(s) /\ t = RemoveAt(s, found)
      /\ ~ has => found = 0 /\ t = s
  <2> HIDE DEF s
  <2> QED BY <1>2, FoundIs
<1> HIDE DEF found, t, s, has
<1>4. CASE has
  <2>1. found \in 1 .. Len(s) /\ found # 0 /\ t = RemoveAt(s, found) BY <1>3, <1>4
  <2>2. remove_at(i, found - 1) BY <1>1, <2>1
  <2>3. found - 1 \in Indices(i) /\ (found - 1) + 1 = found BY <1>2, <2>1 DEF Indices
  <2>4. Inv' /\ ret' = "yes" /\ C!Set(i, RemoveAt(s, found)) BY <2>2, <2>3, RemoveAtSets DEF s
  <2>5. C!RemoveValue(i, v) BY <1>4, <2>1, <2>4, LiveIs DEF C!RemoveValue, s, t, has
  <2>6. i \in C!live BY LiveIs
  <2> QED BY <2>4, <2>5, <2>6 DEF Good, C!Next
<1>5. CASE ~ has
  <2>1. ret' = "no" /\ UNCHANGED << lists, out >> /\ t = s BY <1>1, <1>3, <1>5
  <2>2. Inv' /\ Cont(lists)' = Cont(lists) BY <2>1, UnchangedInv
  <2>3. C!Set(i, t)
    <3>1. Cont(lists) = [j \in DOMAIN Cont(lists) \cup {i} |-> IF j = i THEN s ELSE Cont(lists)[j]]
      BY DEF Cont, live, s
    <3> QED BY <2>1, <2>2, <3>1 DEF C!Set, C!live
  <2>4. C!RemoveValue(i, v) BY <1>5, <2>1, <2>3, LiveIs DEF C!RemoveValue, s, t, has
  <2>5. i \in C!live BY LiveIs
  <2> QED BY <2>2, <2>4, <2>5 DEF Good, C!Next
<1> QED BY <1>4, <1>5

\* Two lists of f at once.
LEMMA PutTwo ==
  ASSUME Inv, NEW i \in Lists, NEW j \in Lists, i # j,
         NEW k, NEW t, Holds(k, t), NEW m, NEW u, Holds(m, u),
         lists' = With(With(lists, i, k), j, m), out' = out,
         \A a \in Allocators :
           ShareOf(lists, i, a) + ShareOf(lists, j, a) = Share(k, a) + Share(m, a)
  PROVE  /\ Inv'
         /\ Cont(lists)' = [x \in DOMAIN Cont(lists) \cup {i, j} |->
                              IF x = j THEN u ELSE IF x = i THEN t ELSE Cont(lists)[x]]
<1> DEFINE g == With(lists, i, k)
           o == [a \in Allocators |-> out[a] - ShareOf(lists, i, a) + Share(k, a)]
<1>1. out \in [Allocators -> Int]
      /\ \A a \in Allocators : ShareOf(lists, i, a) \in Int /\ Share(k, a) \in Int
           /\ ShareOf(lists, j, a) \in Int /\ Share(m, a) \in Int
  BY DEF Inv, Sound, ShareOf, Share
<1>2. Rebooked(o, out, lists, i, k) BY <1>1 DEF Rebooked
<1>3. Sound(g, o)
  <2> HIDE DEF o
  <2> QED BY <1>2, PutSound DEF Inv
<1>4. \A a \in Allocators : ShareOf(g, j, a) = ShareOf(lists, j, a) BY DEF ShareOf, With
<1>5. Rebooked(out, o, g, j, m)
  <2>1. \A a \in Allocators : o[a] = out[a] - ShareOf(lists, i, a) + Share(k, a) OBVIOUS
  <2> HIDE DEF g, o
  <2>2. ASSUME NEW a \in Allocators PROVE out[a] = o[a] - ShareOf(g, j, a) + Share(m, a)
    <3> DEFINE w == out[a]
               x == ShareOf(lists, i, a)
               y == ShareOf(lists, j, a)
               z == Share(k, a)
               n == Share(m, a)
    <3>1. w \in Int /\ x \in Int /\ y \in Int /\ z \in Int /\ n \in Int BY <1>1
    <3>2. x + y = z + n OBVIOUS
    <3>3. o[a] = w - x + z /\ ShareOf(g, j, a) = y BY <1>4, <2>1
    <3> HIDE DEF w, x, y, z, n
    <3>4. w = (w - x + z) - y + n BY <3>1, <3>2
    <3> QED BY <3>3, <3>4 DEF w, n
  <2> QED BY <1>1, <2>2 DEF Rebooked
<1>6. Sound(With(g, j, m), out)
  <2> HIDE DEF g, o
  <2> QED BY <1>3, <1>5, PutSound
<1>7. IsPut(Cont(g), Cont(lists), i, t) BY PutCont
<1>8. IsPut(Cont(With(g, j, m)), Cont(g), j, u)
  <2> HIDE DEF g
  <2> QED BY PutCont
<1>9. Cont(lists)' = Cont(With(g, j, m)) BY DEF Cont
<1>10. Inv' BY <1>6 DEF Inv
<1> HIDE DEF g
<1>11. Cont(With(g, j, m)) = [x \in DOMAIN Cont(lists) \cup {i, j} |->
                              IF x = j THEN u ELSE IF x = i THEN t ELSE Cont(lists)[x]]
  <2> DEFINE c == Cont(lists)
             d == Cont(g)
  <2>1. d = [x \in DOMAIN c \cup {i} |-> IF x = i THEN t ELSE c[x]] BY <1>7 DEF IsPut
  <2>2. Cont(With(g, j, m)) = [x \in DOMAIN d \cup {j} |-> IF x = j THEN u ELSE d[x]]
    BY <1>8 DEF IsPut
  <2> HIDE DEF c, d
  <2>3. DOMAIN d = DOMAIN c \cup {i} BY <2>1
  <2>4. (DOMAIN c \cup {i}) \cup {j} = DOMAIN c \cup {i, j} OBVIOUS
  <2>5. \A x \in DOMAIN c \cup {i, j} :
          (IF x = j THEN u ELSE d[x]) = IF x = j THEN u ELSE IF x = i THEN t ELSE c[x]
    BY <2>1
  <2>6. Cont(With(g, j, m)) = [x \in DOMAIN c \cup {i, j} |-> IF x = j THEN u ELSE d[x]]
    BY <2>2, <2>3, <2>4
  <2> QED BY <2>5, <2>6 DEF c
<1> QED BY <1>9, <1>10, <1>11

LEMMA MoveConstructGood ==
  ASSUME Inv, NEW i \in Lists, NEW j \in live, i # j, move_construct(i, j)
  PROVE  Good
<1> DEFINE s == Contents(lists[j])
           m == Empty(lists[j].alloc)
<1>1. i \notin live /\ lists' = With(With(lists, i, lists[j]), j, m) /\ out' = out /\ ret' = "done"
  BY DEF move_construct
<1>2. Holds(lists[j], s) /\ j \in Lists /\ lists[j].alloc \in Allocators
  BY LiveHolds DEF Holds, ListType
<1>3. Holds(m, << >>) /\ Held(m) = 0 BY <1>2, EmptyHolds
<1>4. \A a \in Allocators :
        ShareOf(lists, i, a) + ShareOf(lists, j, a) = Share(lists[j], a) + Share(m, a)
  <2>1. \A a \in Allocators : Share(m, a) = 0 BY DEF Share, Empty
  <2>2. \A a \in Allocators : ShareOf(lists, i, a) = 0 /\ ShareOf(lists, j, a) = Share(lists[j], a)
    BY <1>1 DEF ShareOf, live
  <2>3. \A a \in Allocators : Share(lists[j], a) \in Int BY DEF Share
  <2> QED BY <2>1, <2>2, <2>3
<1> HIDE DEF s, m
<1>5. /\ Inv'
      /\ Cont(lists)' = [x \in DOMAIN Cont(lists) \cup {i, j} |->
                           IF x = j THEN << >> ELSE IF x = i THEN s ELSE Cont(lists)[x]]
  BY <1>1, <1>2, <1>3, <1>4, PutTwo
<1>6. C!MoveConstruct(i, j)
  <2>1. DOMAIN Cont(lists) \cup {i, j} = C!live \cup {i} /\ Cont(lists)[j] = s /\ i \notin C!live
    BY <1>1, LiveIs DEF C!live, s
  <2>2. Cont(lists)' = [x \in C!live \cup {i} |->
                         IF x = i THEN s ELSE IF x = j THEN << >> ELSE Cont(lists)[x]]
    BY <1>5, <2>1
  <2> QED BY <1>1, <2>1, <2>2 DEF C!MoveConstruct
<1>7. j \in C!live BY LiveIs
<1> QED BY <1>5, <1>6, <1>7 DEF Good, C!Next

LEMMA MoveAssignGood ==
  ASSUME Inv, NEW i \in live, NEW j \in live, i # j, move_assign(i, j)
  PROVE  Good
<1> DEFINE s == Contents(lists[i])
           t == Contents(lists[j])
<1>1. lists[i].alloc = lists[j].alloc /\ lists' = With(With(lists, i, lists[j]), j, lists[i])
      /\ out' = out /\ ret' = "done"
  BY DEF move_assign
<1>2. Holds(lists[i], s) /\ Holds(lists[j], t) /\ i \in Lists /\ j \in Lists BY LiveHolds
<1>3. \A a \in Allocators :
        ShareOf(lists, i, a) + ShareOf(lists, j, a) = Share(lists[j], a) + Share(lists[i], a)
  <2>1. \A a \in Allocators : ShareOf(lists, i, a) = Share(lists[i], a)
                            /\ ShareOf(lists, j, a) = Share(lists[j], a)
    BY DEF ShareOf, live
  <2>2. \A a \in Allocators : Share(lists[j], a) \in Int /\ Share(lists[i], a) \in Int BY DEF Share
  <2> QED BY <2>1, <2>2
<1> HIDE DEF s, t
<1>4. /\ Inv'
      /\ Cont(lists)' = [x \in DOMAIN Cont(lists) \cup {i, j} |->
                           IF x = j THEN s ELSE IF x = i THEN t ELSE Cont(lists)[x]]
  BY <1>1, <1>2, <1>3, PutTwo
<1>5. C!MoveAssign(i, j)
  <2>1. /\ DOMAIN Cont(lists) \cup {i, j} = DOMAIN Cont(lists)
        /\ Cont(lists)[j] = t /\ Cont(lists)[i] = s
    BY LiveIs DEF C!live, s, t
  <2>2. Cont(lists)' = [Cont(lists) EXCEPT ![i] = t, ![j] = s]
    <3> DEFINE c == Cont(lists)
    <3>1. c = [x \in DOMAIN c |-> c[x]] BY DEF Cont
    <3>2. Cont(lists)' = [x \in DOMAIN c |-> IF x = j THEN s ELSE IF x = i THEN t ELSE c[x]]
      BY <1>4, <2>1
    <3> HIDE DEF c
    <3>3. [x \in DOMAIN c |-> IF x = j THEN s ELSE IF x = i THEN t ELSE c[x]]
          = [c EXCEPT ![i] = t, ![j] = s]
      BY <3>1
    <3> QED BY <3>2, <3>3 DEF c
  <2> QED BY <1>1, <2>1, <2>2 DEF C!MoveAssign
<1>6. i \in C!live /\ j \in C!live BY LiveIs
<1> QED BY <1>4, <1>5, <1>6 DEF Good, C!Next

LEMMA DestroyGood ==
  ASSUME Inv, NEW i \in live, destroy(i)
  PROVE  Good
<1> DEFINE l == lists[i]
           g == [j \in live \ {i} |-> lists[j]]
<1>1. lists' = g /\ out' = [out EXCEPT ![l.alloc] = @ + 0 - Held(l)] /\ ret' = "done"
  BY DEF destroy, Account
<1>2. DOMAIN g = live \ {i} /\ (\A j \in live \ {i} : g[j] = lists[j]) /\ g = [j \in DOMAIN g |-> g[j]]
  OBVIOUS
<1>3. live \subseteq Lists /\ (\A j \in live : Holds(lists[j], Contents(lists[j])))
      /\ out \in [Allocators -> Int] /\ \A a \in Allocators : out[a] = Cardinality(Owners(lists, a))
  BY DEF Inv, Sound, live
<1>4. l.alloc \in Allocators /\ Held(l) \in Int BY <1>3 DEF Holds, ListType, Held
<1> HIDE DEF g, l
<1>5. out' \in [Allocators -> Int]
  <2>1. out[l.alloc] + 0 - Held(l) \in Int BY <1>3, <1>4
  <2> QED BY <1>1, <1>3, <2>1
<1>6. ASSUME NEW a \in Allocators PROVE out'[a] = Cardinality(Owners(g, a))
  <2>1. Owners(g, a) = Owners(lists, a) \ {i} BY <1>2 DEF Owners, live
  <2>2. /\ Cardinality(Owners(lists, a)) = Cardinality(Owners(lists, a) \ {i}) + ShareOf(lists, i, a)
        /\ Cardinality(Owners(lists, a) \ {i}) \in Nat
    BY <1>3, OwnersWithout DEF live
  <2>3. out'[a] = out[a] - ShareOf(lists, i, a)
    <3>1. CASE a = l.alloc
      <4>1. ShareOf(lists, i, a) = Held(l) BY <3>1 DEF ShareOf, Share, Held, l, live
      <4>2. out'[a] = out[a] + 0 - Held(l) BY <1>1, <1>3, <3>1
      <4>3. out[a] \in Int BY <1>3
      <4> QED BY <1>4, <4>1, <4>2, <4>3
    <3>2. CASE a # l.alloc
      <4>1. ShareOf(lists, i, a) = 0 BY <3>2 DEF ShareOf, Share, l
      <4>2. out'[a] = out[a] BY <1>1, <1>3, <3>2
      <4>3. out[a] \in Int BY <1>3
      <4> QED BY <4>1, <4>2, <4>3
    <3> QED BY <3>1, <3>2
  <2>4. out[a] = Cardinality(Owners(lists, a)) BY <1>3
  <2>5. ShareOf(lists, i, a) \in Int BY DEF ShareOf, Share
  <2> QED BY <2>1, <2>2, <2>3, <2>4, <2>5
<1>7. \A j \in DOMAIN g : Holds(g[j], Contents(g[j])) BY <1>2, <1>3
<1>8. DOMAIN g \subseteq Lists BY <1>2, <1>3
<1>9. Sound(g, out') BY <1>2, <1>5, <1>6, <1>7, <1>8 DEF Sound
<1>10. Inv' BY <1>1, <1>9 DEF Inv
<1>11. Cont(lists)' = [j \in C!live \ {i} |-> Cont(lists)[j]]
  <2>1. Cont(lists)' = [j \in DOMAIN g |-> Contents(g[j])] BY <1>1 DEF Cont
  <2>2. \A j \in live \ {i} : Contents(g[j]) = Cont(lists)[j] BY <1>2 DEF Cont, live
  <2> QED BY <1>2, <2>1, <2>2, LiveIs
<1>12. C!Destroy(i) /\ i \in C!live BY <1>1, <1>11, LiveIs DEF C!Destroy
<1> QED BY <1>10, <1>12 DEF Good, C!Next
-----------------------------------------------------------------------------
(* The step and the theorems *)

LEMMA NextGood ==
  ASSUME ~ AddToFullOfOne, Inv, [Next]_vars
  PROVE  Good
<1>1. CASE UNCHANGED vars
  <2>1. UNCHANGED << lists, out >> /\ ret' = ret BY <1>1 DEF vars
  <2> QED BY <2>1, UnchangedInv DEF Good
<1>2. CASE Next
  <2>1. PICK i \in Lists :
          \/ \E quota \in 0 .. MaxQuota : Constructing(i, quota) \/ (i \in live /\ Allocating(i, quota))
          \/ \E j \in live \ {i} : move_construct(i, j) \/ (i \in live /\ move_assign(i, j))
          \/ /\ i \in live
             /\ \/ clear(i) \/ destroy(i)
                \/ \E idx \in Indices(i) : \/ remove_at(i, idx) \/ fast_remove_at(i, idx)
                                           \/ \E v \in Values : set(i, idx, v)
                \/ \E v \in Values : remove(i, v)
    BY <1>2 DEF Next
  <2>2. ASSUME NEW q \in 0 .. MaxQuota, Constructing(i, q) PROVE Good
    <3>1. q \in Nat BY ArrayListAssumption
    <3>2. ASSUME NEW a \in Allocators, NEW n \in Capacities, construct(i, a, n, q) PROVE Good
      BY <3>1, <3>2, ConstructGood
    <3>3. ASSUME NEW a \in Allocators, NEW s \in Initial, construct_filled(i, a, s, q) PROVE Good
      BY <3>1, <3>3, ConstructFilledGood
    <3>4. ASSUME NEW j \in live \ {i}, copy_construct(i, j, q) PROVE Good
      BY <3>1, <3>4, CopyConstructGood
    <3> QED BY <2>2, <3>2, <3>3, <3>4 DEF Constructing
  <2>3. ASSUME NEW q \in 0 .. MaxQuota, i \in live, Allocating(i, q) PROVE Good
    <3>1. q \in Nat /\ i \in live BY <2>3, ArrayListAssumption
    <3>2. ASSUME NEW j \in live \ {i}, copy_assign(i, j, q) \/ move_assign_copies(i, j, q) PROVE Good
      BY <3>1, <3>2, CopyAssignGood DEF move_assign_copies
    <3>3. ASSUME NEW v \in Values, add(i, v, q) PROVE Good BY <3>1, <3>3, AddGood
    <3>4. ASSUME NEW v \in Values, NEW idx \in 0 .. lists[i].size, add_at(i, idx, v, q) PROVE Good
      BY <3>1, <3>4, AddAtGood
    <3>5. ASSUME NEW n \in Capacities, reserve(i, n, q) PROVE Good BY <3>1, <3>5, ReserveGood
    <3>6. ASSUME trim_to_size(i, q) PROVE Good BY <3>1, <3>6, TrimGood
    <3> QED BY <2>3, <3>2, <3>3, <3>4, <3>5, <3>6 DEF Allocating
  <2>4. ASSUME NEW j \in live \ {i}, move_construct(i, j) PROVE Good BY <2>4, MoveConstructGood
  <2>5. ASSUME NEW j \in live \ {i}, i \in live, move_assign(i, j) PROVE Good
    BY <2>5, MoveAssignGood
  <2>6. ASSUME i \in live, clear(i) PROVE Good BY <2>6, ClearGood
  <2>7. ASSUME i \in live, destroy(i) PROVE Good BY <2>7, DestroyGood
  <2>8. ASSUME i \in live, NEW idx \in Indices(i), remove_at(i, idx) PROVE Good
    BY <2>8, RemoveAtGood
  <2>9. ASSUME i \in live, NEW idx \in Indices(i), fast_remove_at(i, idx) PROVE Good
    BY <2>9, FastRemoveGood
  <2>10. ASSUME i \in live, NEW idx \in Indices(i), NEW v \in Values, set(i, idx, v) PROVE Good
    BY <2>10, SetGood
  <2>11. ASSUME i \in live, NEW v \in Values, remove(i, v) PROVE Good BY <2>11, RemoveGood
  <2> QED BY <2>1, <2>2, <2>3, <2>4, <2>5, <2>6, <2>7, <2>8, <2>9, <2>10, <2>11
<1> QED BY <1>1, <1>2

LEMMA InitInv == Init => Inv /\ C!Init
<1> SUFFICES ASSUME Init PROVE Inv /\ C!Init OBVIOUS
<1>1. lists = << >> /\ out = [a \in Allocators |-> 0] /\ ret = "done" BY DEF Init
<1>2. DOMAIN lists = {} /\ lists = [i \in DOMAIN lists |-> lists[i]] BY <1>1
<1>3. \A a \in Allocators : out[a] = Cardinality(Owners(lists, a))
  <2>1. \A a \in Allocators : Owners(lists, a) = {} BY <1>2 DEF Owners
  <2> QED BY <1>1, <2>1, FS_EmptySet
<1>4. out \in [Allocators -> Int] BY <1>1
<1>5. Inv BY <1>2, <1>3, <1>4 DEF Inv, Sound
<1>6. Cont(lists) = << >>
  <2>1. Cont(lists) = [i \in {} |-> Contents(lists[i])] BY <1>2 DEF Cont
  <2> QED BY <2>1
<1> QED BY <1>1, <1>5, <1>6 DEF C!Init

\* The elements of every list and the blocks of every allocator, whichever
\* allocation or copy fails: array_list.hpp:1195-1262 puts a call's changes
\* back before it rethrows.  Clients never add to a full list of capacity 1,
\* whose grow (NewCapacity(1) = 1) makes no room.
THEOREM ListElementsInPlace ==
  ASSUME ~ AddToFullOfOne
  PROVE  Spec => []ElementsInPlace
<1>1. Init => Inv BY InitInv
<1>2. Inv /\ [Next]_vars => Inv' BY NextGood DEF Good
<1>3. Inv => ElementsInPlace BY InvElementsInPlace
<1> QED BY <1>1, <1>2, <1>3, PTL DEF Spec

\* Each list is the sequence of values its client put there: every call of
\* array_list.hpp does to the contents what ListContract says, and a call that
\* throws leaves all of them as they were.
THEOREM ListsKeepContract ==
  ASSUME ~ AddToFullOfOne
  PROVE  Spec => C!Spec
<1>1. Init => Inv /\ C!Init BY InitInv
<1>2. Inv /\ [Next]_vars => Inv' /\ [C!Next]_<< Cont(lists), ret >>
  BY NextGood DEF Good
<1> QED BY <1>1, <1>2, PTL DEF Spec, C!Spec
=============================================================================
