-------------------- MODULE SynchronizedAllocatorProofs --------------------
(***************************************************************************)
(* Safety of SynchronizedAllocator for any number of threads, wrappers and *)
(* buckets: the mutex lets one thread at a time into the pool, so that the *)
(* free list stays a chain of buckets that nobody else has, and none gets  *)
(* lost.                                                                   *)
(***************************************************************************)
EXTENDS SynchronizedAllocator, TLAPS, WellFoundedInduction

Places == {"idle", "lock_allocate", "lock_deallocate", "allocate", "pop",
           "deallocate", "push", "unlock"}

\* No step of a call works on a null bucket, nor keeps one it has passed on.
Calls ==
  {c \in [pc : Places, w : Wrappers \cup {NoThread}, node : Buckets \cup {Null}] :
     /\ c.pc \in {"pop", "lock_deallocate", "deallocate", "push"} => c.node # Null
     /\ c.pc \in {"idle", "lock_allocate", "allocate"} => c.node = Null}

TypeOK ==
  /\ thr \in [Threads -> [m_state : {"NEW", "RUNNABLE", "TERMINATED"},
                          os : {"none", "starting", "running", "finished"}]]
  /\ wrapper \in [Wrappers -> [st : {"usable", "none"}, m_mutex : Threads \cup {NoThread}]]
  /\ free_list \in Buckets \cup {Null}
  /\ next \in [Buckets -> Buckets \cup {Null}]
  /\ page \in {"none", "given", "destroyed"}
  /\ held \in SUBSET Buckets
  /\ call \in [Threads -> Calls]

-----------------------------------------------------------------------------
(* The lock *)

Working == {"allocate", "pop", "deallocate", "push", "unlock"}
Inside(t) == call[t].pc \in Working

\* Calls are made through the only wrapper in use, and whoever is inside holds
\* its mutex.
Locked ==
  /\ \A v, w \in Wrappers : wrapper[v].st = "usable" /\ wrapper[w].st = "usable" => v = w
  /\ \A t \in Threads : ~At(t, "idle") =>
       /\ call[t].w \in Wrappers /\ wrapper[call[t].w].st = "usable"
       /\ thr[t].os = "running"
  /\ \A t \in Threads : Inside(t) => wrapper[call[t].w].m_mutex = t

\* Two threads are never inside the pool at once.
LEMMA OneInside ==
  ASSUME TypeOK, Locked, NEW t \in Threads, NEW u \in Threads, Inside(t), Inside(u)
  PROVE  t = u
<1>1. ~At(t, "idle") /\ ~At(u, "idle") BY DEF Inside, Working, At
<1>2. call[t].w = call[u].w BY <1>1 DEF Locked
<1> QED BY <1>2 DEF Locked

\* A step of a call that stays inside.
LEMMA MovesOn ==
  ASSUME TypeOK, Locked, NEW t \in Threads, Inside(t), UNCHANGED << thr, wrapper >>,
         NEW pc \in Working, NEW node \in Buckets \cup {Null},
         pc = "unlock" \/ (pc \in {"pop", "push"} /\ node # Null),
         call' = [call EXCEPT ![t] = [@ EXCEPT !.pc = pc, !.node = node]]
  PROVE  call' \in [Threads -> Calls] /\ Locked'
<1> DEFINE c == [call[t] EXCEPT !.pc = pc, !.node = node]
<1>1. c \in Calls /\ c.pc = pc /\ c.w = call[t].w
  BY DEF TypeOK, Calls, Places, Working
<1>2. call' = [call EXCEPT ![t] = c] OBVIOUS
<1> HIDE DEF c
<1>3. call' \in [Threads -> Calls] BY <1>1, <1>2 DEF TypeOK
<1>4. call'[t] = c /\ \A u \in Threads \ {t} : call'[u] = call[u]
  BY <1>2 DEF TypeOK
<1> QED BY <1>1, <1>3, <1>4 DEF Locked, Inside, At, Working

LEMMA LockedStep ==
  ASSUME TypeOK, Locked, [Next]_vars
  PROVE  TypeOK' /\ Locked'
<1> USE SharedPoolAssumption DEF Buckets, Null
<1>1. ASSUME NEW t \in Threads, NEW w \in Wrappers, CallAllocate(t, w) PROVE TypeOK' /\ Locked'
  BY <1>1 DEF CallAllocate, TypeOK, Calls, Places, Locked, Inside, Working, At
<1>2. ASSUME NEW t \in Threads, NEW w \in Wrappers, NEW b \in held, CallDeallocate(t, w, b)
      PROVE  TypeOK' /\ Locked'
  BY <1>2 DEF CallDeallocate, TypeOK, Calls, Places, Locked, Inside, Working, At
<1>3. ASSUME NEW t \in Threads, lock(t) PROVE TypeOK' /\ Locked'
  <2> DEFINE pc == IF At(t, "lock_allocate") THEN "allocate" ELSE "deallocate"
             c == [call[t] EXCEPT !.pc = pc]
             w == call[t].w
  <2>1. ~At(t, "idle") /\ call' = [call EXCEPT ![t] = c]
    BY <1>3 DEF lock, EnterCall, GoTo, At
  <2>2. c \in Calls /\ c.w = w /\ c.pc \in Working /\ w \in Wrappers /\ wrapper[w].m_mutex = NoThread
    <3>1. call[t] \in Calls BY DEF TypeOK
    <3>2. \/ call[t].pc = "lock_allocate" /\ pc = "allocate"
          \/ call[t].pc = "lock_deallocate" /\ pc = "deallocate"
      BY <1>3 DEF lock, EnterCall, At
    <3>3. c \in Calls /\ c.w = w /\ c.pc \in Working
      BY <3>1, <3>2 DEF Calls, Places, Working
    <3>4. w \in Wrappers BY <2>1 DEF Locked
    <3> QED BY <3>3, <3>4, <1>3 DEF lock
  <2>3. wrapper' = [wrapper EXCEPT ![w].m_mutex = t] /\ UNCHANGED << thr, free_list, next, page, held >>
    BY <1>3 DEF lock
  <2> HIDE DEF c, w
  <2>4. /\ call' \in [Threads -> Calls] /\ call'[t] = c
        /\ \A u \in Threads \ {t} : call'[u] = call[u]
    BY <2>1, <2>2 DEF TypeOK
  <2>5. TypeOK' BY <2>2, <2>3, <2>4 DEF TypeOK
  <2>6. \A v \in Wrappers : /\ wrapper'[v].st = wrapper[v].st
                            /\ wrapper'[v].m_mutex = IF v = w THEN t ELSE wrapper[v].m_mutex
    BY <2>2, <2>3 DEF TypeOK
  <2>7. thr[t].os = "running" /\ wrapper[w].st = "usable"
    BY <2>1 DEF Locked, w
  <2>8. \A u \in Threads : Inside(u) => u # t /\ call[u].w # w
    BY <2>2, <2>1, <1>3 DEF Locked, Inside, Working, w, lock, EnterCall, At
  <2> QED BY <2>2, <2>3, <2>4, <2>5, <2>6, <2>7, <2>8 DEF Locked, Inside, Working, At
<1>4. ASSUME NEW t \in Threads, ReadHead(t) PROVE TypeOK' /\ Locked'
  <2>1. /\ Inside(t) /\ UNCHANGED << thr, wrapper >>
        /\ call' = [call EXCEPT ![t] = [@ EXCEPT !.pc = "pop", !.node = free_list]]
        /\ free_list # Null
    BY <1>4 DEF ReadHead, GoWith, At, Inside, Working
  <2>2. call' \in [Threads -> Calls] /\ Locked' BY <2>1, MovesOn DEF TypeOK, Working
  <2> QED BY <1>4, <2>2 DEF ReadHead, TypeOK
<1>5. ASSUME NEW t \in Threads, allocate_page(t) PROVE TypeOK' /\ Locked'
  BY <1>5 DEF allocate_page, TypeOK, Locked, Inside, At
<1>6. ASSUME NEW t \in Threads, NoPage(t) PROVE TypeOK' /\ Locked'
  <2>1. /\ Inside(t) /\ UNCHANGED << thr, wrapper >>
        /\ call' = [call EXCEPT ![t] = [@ EXCEPT !.pc = "unlock", !.node = call[t].node]]
    BY <1>6 DEF NoPage, GoTo, At, Inside, Working, TypeOK, Calls
  <2>2. call' \in [Threads -> Calls] /\ Locked' BY <2>1, MovesOn DEF TypeOK, Calls, Working
  <2> QED BY <1>6, <2>2 DEF NoPage, TypeOK
<1>7. ASSUME NEW t \in Threads, Pop(t) PROVE TypeOK' /\ Locked'
  <2>1. /\ Inside(t) /\ UNCHANGED << thr, wrapper >>
        /\ call' = [call EXCEPT ![t] = [@ EXCEPT !.pc = "unlock", !.node = call[t].node]]
    BY <1>7 DEF Pop, GoTo, At, Inside, Working, TypeOK, Calls
  <2>2. call' \in [Threads -> Calls] /\ Locked' BY <2>1, MovesOn DEF TypeOK, Calls, Working
  <2>3. call[t].node \in Buckets BY <1>7 DEF Pop, At, TypeOK, Calls
  <2>4. free_list' \in Buckets \cup {Null} BY <1>7, <2>3 DEF Pop, TypeOK
  <2> QED BY <1>7, <2>2, <2>4 DEF Pop, TypeOK
<1>8. ASSUME NEW t \in Threads, LinkNode(t) PROVE TypeOK' /\ Locked'
  <2>1. /\ Inside(t) /\ UNCHANGED << thr, wrapper >>
        /\ call' = [call EXCEPT ![t] = [@ EXCEPT !.pc = "push", !.node = call[t].node]]
        /\ call[t].node # Null
    BY <1>8 DEF LinkNode, GoTo, At, Inside, Working, TypeOK, Calls
  <2>2. call' \in [Threads -> Calls] /\ Locked' BY <2>1, MovesOn DEF TypeOK, Calls, Working
  <2>3. next' \in [Buckets -> Buckets \cup {Null}] BY <1>8 DEF LinkNode, TypeOK
  <2> QED BY <1>8, <2>2, <2>3 DEF LinkNode, TypeOK
<1>9. ASSUME NEW t \in Threads, Push(t) PROVE TypeOK' /\ Locked'
  <2>1. /\ Inside(t) /\ UNCHANGED << thr, wrapper >>
        /\ call' = [call EXCEPT ![t] = [@ EXCEPT !.pc = "unlock", !.node = Null]]
    BY <1>9 DEF Push, GoWith, At, Inside, Working
  <2>2. call' \in [Threads -> Calls] /\ Locked' BY <2>1, MovesOn DEF TypeOK, Working
  <2>3. free_list' \in Buckets \cup {Null} BY <1>9 DEF Push, TypeOK, Calls
  <2> QED BY <1>9, <2>2, <2>3 DEF Push, TypeOK
<1>10. ASSUME NEW t \in Threads, unlock(t) PROVE TypeOK' /\ Locked'
  BY <1>10 DEF unlock, Idle, TypeOK, Calls, Places, Locked, Inside, Working, At
<1>11. ASSUME NEW t \in Threads, Lifecycle(t) PROVE TypeOK' /\ Locked'
  <2>1. UNCHANGED << wrapper, free_list, next, page, held, call >>
    BY <1>11 DEF Lifecycle, Pooled
  <2>2. /\ thr' \in [Threads -> [m_state : {"NEW", "RUNNABLE", "TERMINATED"},
                                 os : {"none", "starting", "running", "finished"}]]
        /\ \A u \in Threads : thr[u].os = "running" /\ ~At(u, "idle") => thr'[u].os = "running"
    <3>1. CASE start(t) BY <3>1 DEF start, joinable, TypeOK
    <3>2. CASE begin(t) BY <3>2 DEF begin, TypeOK
    <3>3. CASE Ends(t) BY <3>3 DEF Ends, end, At, TypeOK
    <3>4. CASE join(t) BY <3>4 DEF join, TypeOK
    <3> QED BY <1>11, <3>1, <3>2, <3>3, <3>4 DEF Lifecycle
  <2> QED BY <2>1, <2>2 DEF TypeOK, Locked, Inside, At
<1>12. ASSUME NEW d \in Wrappers, NEW s \in Wrappers, move_construct(d, s) PROVE TypeOK' /\ Locked'
  <2>1. /\ \A t \in Threads : At(t, "idle")
        /\ UNCHANGED << thr, free_list, next, page, held, call >>
        /\ wrapper[s].st = "usable" /\ wrapper[d].st = "none"
        /\ wrapper' = [wrapper EXCEPT ![d].st = "usable", ![s].st = "none"]
    BY <1>12 DEF move_construct
  <2> DEFINE first == [wrapper EXCEPT ![d].st = "usable"]
  <2>5. first \in [Wrappers -> [st : {"usable", "none"}, m_mutex : Threads \cup {NoThread}]]
    BY DEF TypeOK
  <2>6. wrapper' = [first EXCEPT ![s].st = "none"] BY <2>1
  <2> HIDE DEF first
  <2>7. wrapper' \in [Wrappers -> [st : {"usable", "none"}, m_mutex : Threads \cup {NoThread}]]
    BY <2>5, <2>6
  <2>2. TypeOK' BY <2>1, <2>7 DEF TypeOK
  <2>3. \A w \in Wrappers : wrapper'[w].st = "usable" => w = d
    BY <2>1 DEF Locked, TypeOK
  <2>4. \A t \in Threads : At(t, "idle")' /\ ~Inside(t)'
    BY <2>1 DEF At, Inside, Working
  <2> QED BY <2>2, <2>3, <2>4 DEF Locked
<1>13. CASE DestroyPool BY <1>13 DEF DestroyPool, TypeOK, Locked, Inside, At
<1>14. CASE UNCHANGED vars BY <1>14 DEF vars, TypeOK, Locked, Inside, At
<1> QED BY <1>1, <1>2, <1>3, <1>4, <1>5, <1>6, <1>7, <1>8, <1>9, <1>10, <1>11, <1>12, <1>13, <1>14
        DEF Next, InCall
-----------------------------------------------------------------------------
(* The free list *)

\* The n buckets of a list, the last one pushed at n: head is where it starts,
\* and each bucket links to the one before it.
Chain(s, n, head, links) ==
  /\ s \in [1 .. n -> Buckets]
  /\ \A i, j \in 1 .. n : s[i] = s[j] => i = j
  /\ head = IF n = 0 THEN Null ELSE s[n]
  /\ \A i \in 1 .. n : links[s[i]] = IF i = 1 THEN Null ELSE s[i - 1]
Elements(s, n) == {s[i] : i \in 1 .. n}

\* A fresh page: every bucket links to the one below it.
LEMMA ChainOfPage ==
  LET s == [i \in Buckets |-> i]
  IN /\ Chain(s, PageBuckets, PageBuckets, [b \in Buckets |-> b - 1])
     /\ Elements(s, PageBuckets) = Buckets
BY SharedPoolAssumption DEF Chain, Elements, Buckets, Null

\* A bucket that is not in the list and links to its head becomes its head.
LEMMA ChainPushed ==
  ASSUME NEW n \in Nat, NEW s, NEW head, NEW links, Chain(s, n, head, links),
         NEW b \in Buckets \ Elements(s, n), links[b] = head
  PROVE  \E r : /\ Chain(r, n + 1, b, links)
                /\ Elements(r, n + 1) = Elements(s, n) \cup {b}
<1> DEFINE r == [i \in 1 .. n + 1 |-> IF i = n + 1 THEN b ELSE s[i]]
<1>1. \A i \in 1 .. n : r[i] = s[i] /\ i \in 1 .. n + 1 /\ s[i] # b /\ s[i] \in Buckets
  BY DEF Elements, Chain
<1>2. r[n + 1] = b /\ r \in [1 .. n + 1 -> Buckets]
  BY <1>1
<1>3. \A i \in 1 .. n + 1 : i \in 1 .. n \/ i = n + 1 OBVIOUS
<1>7. \A i \in 1 .. n + 1 : i # 1 => i - 1 \in 1 .. n OBVIOUS
<1> HIDE DEF r
<1>4. \A i, j \in 1 .. n + 1 : r[i] = r[j] => i = j
  BY <1>1, <1>2, <1>3 DEF Chain
<1>5. \A i \in 1 .. n + 1 : links[r[i]] = IF i = 1 THEN Null ELSE r[i - 1]
  <2> SUFFICES ASSUME NEW i \in 1 .. n + 1
               PROVE  links[r[i]] = IF i = 1 THEN Null ELSE r[i - 1]
    OBVIOUS
  <2>1. CASE i \in 1 .. n BY <2>1, <1>1, <1>7 DEF Chain
  <2>2. CASE i = n + 1 /\ n = 0 BY <2>2, <1>2 DEF Chain
  <2>3. CASE i = n + 1 /\ n # 0 BY <2>3, <1>1, <1>2, <1>7 DEF Chain
  <2> QED BY <1>3, <2>1, <2>2, <2>3
<1>6. Elements(r, n + 1) = Elements(s, n) \cup {b}
  BY <1>1, <1>2, <1>3 DEF Elements
<1> QED BY <1>2, <1>4, <1>5, <1>6 DEF Chain

\* Without its head the list starts where the head linked to.
LEMMA ChainPopped ==
  ASSUME NEW n \in Nat, NEW s, NEW head, NEW links, Chain(s, n, head, links), head # Null
  PROVE  /\ n > 0 /\ head \in Elements(s, n)
         /\ \E r : /\ Chain(r, n - 1, links[head], links)
                   /\ Elements(r, n - 1) = Elements(s, n) \ {head}
<1>1. n > 0 /\ head = s[n] /\ n \in 1 .. n BY DEF Chain
<1>2. head \in Elements(s, n) BY <1>1 DEF Elements
<1> DEFINE r == [i \in 1 .. n - 1 |-> s[i]]
<1>3. /\ \A i \in 1 .. n - 1 : r[i] = s[i] /\ i \in 1 .. n /\ i # n
      /\ \A i \in 1 .. n : i \in 1 .. n - 1 \/ i = n
      /\ n - 1 \in Nat /\ (n - 1 # 0 => n - 1 \in 1 .. n - 1)
  BY <1>1
<1>4. r \in [1 .. n - 1 -> Buckets] BY <1>3 DEF Chain
<1>8. \A i \in 1 .. n - 1 : i # 1 => i - 1 \in 1 .. n - 1 BY <1>1
<1> HIDE DEF r
<1>5. links[head] = IF n - 1 = 0 THEN Null ELSE r[n - 1]
  BY <1>1, <1>3 DEF Chain
<1>6. \A i \in 1 .. n - 1 : links[r[i]] = IF i = 1 THEN Null ELSE r[i - 1]
  BY <1>3, <1>8 DEF Chain
<1>9. \A i, j \in 1 .. n - 1 : r[i] = r[j] => i = j
  BY <1>3 DEF Chain
<1>7. Elements(r, n - 1) = Elements(s, n) \ {head}
  BY <1>1, <1>3 DEF Elements, Chain
<1> QED BY <1>1, <1>2, <1>4, <1>5, <1>6, <1>7, <1>9 DEF Chain

\* A link stored in another bucket does not matter.
LEMMA ChainFramed ==
  ASSUME NEW n \in Nat, NEW s, NEW head, NEW links \in [Buckets -> Buckets \cup {Null}],
         Chain(s, n, head, links), NEW b \in Buckets \ Elements(s, n), NEW x
  PROVE  Chain(s, n, head, [links EXCEPT ![b] = x])
BY DEF Chain, Elements
-----------------------------------------------------------------------------
(* Where the buckets are *)

\* The bucket a call has in its hand: taken from its client, or from the list.
InHand(t) ==
  IF call[t].pc \in {"lock_deallocate", "deallocate", "push", "unlock"}
  THEN {call[t].node} \ {Null} ELSE {}

\* A bucket is in the list, with a client or in one hand.
Shared(listed) ==
  /\ listed \cap held = {}
  /\ \A t \in Threads : InHand(t) \cap (listed \cup held) = {}
  /\ \A t, u \in Threads : t # u => InHand(t) \cap InHand(u) = {}
  /\ \A b \in Buckets : b \in listed \cup held \/ \E t \in Threads : b \in InHand(t)

\* What the thread inside has read or stored still stands.
AtHead ==
  \A t \in Threads : /\ At(t, "pop") => call[t].node = free_list
                     /\ At(t, "push") => next[call[t].node] = free_list

Stocked(n, s) == Chain(s, n, free_list, next) /\ Shared(Elements(s, n))
Stock ==
  /\ page = "none" => /\ free_list = Null /\ held = {}
                      /\ \A t \in Threads : InHand(t) = {}
  /\ page = "given" => \E n \in Nat : \E s : Stocked(n, s)
  /\ page = "destroyed" => \A t \in Threads : thr[t].os # "running"

Inv == TypeOK /\ Locked /\ AtHead /\ Stock

\* A step that leaves the list alone keeps it when it keeps the hands.
LEMMA StockKept ==
  ASSUME Stock, UNCHANGED << free_list, next, page, held >>,
         \A t \in Threads : InHand(t)' = InHand(t),
         page = "destroyed" => \A t \in Threads : thr'[t].os # "running"
  PROVE  Stock'
<1>1. ASSUME page = "given" PROVE \E n \in Nat : \E s : Stocked(n, s)'
  <2>1. PICK n \in Nat : \E s : Stocked(n, s) BY <1>1 DEF Stock
  <2>2. PICK s : Stocked(n, s) BY <2>1
  <2>3. Stocked(n, s)' BY <2>2 DEF Stocked, Shared, Chain, Elements
  <2> QED BY <2>3
<1> QED BY <1>1 DEF Stock

\* No other thread is inside, so none is about to pop or push.
LEMMA OthersOutside ==
  ASSUME TypeOK, Locked, NEW t \in Threads, Inside(t)
  PROVE  /\ \A u \in Threads \ {t} : ~At(u, "pop") /\ ~At(u, "push")
         /\ page = "destroyed" => ~Stock
         /\ page = "none" /\ Stock => free_list = Null /\ InHand(t) = {}
<1>1. \A u \in Threads \ {t} : ~At(u, "pop") /\ ~At(u, "push")
  BY OneInside DEF Inside, Working, At
<1>2. thr[t].os = "running" BY DEF Locked, Inside, Working, At
<1> QED BY <1>1, <1>2 DEF Stock

LEMMA InitInv == Init => Inv
<1> SUFFICES ASSUME Init PROVE Inv OBVIOUS
<1> USE SharedPoolAssumption DEF Buckets, Null
<1>1. TypeOK BY DEF Init, ThreadInit, Idle, TypeOK, Calls, Places
<1>2. \A t \in Threads : At(t, "idle") /\ ~Inside(t) /\ InHand(t) = {}
  BY DEF Init, Idle, At, Inside, Working, InHand
<1>3. Locked
  <2>1. PICK w \in Wrappers :
          wrapper = [v \in Wrappers |-> [st |-> IF v = w THEN "usable" ELSE "none",
                                         m_mutex |-> NoThread]]
    BY DEF Init
  <2>2. \A v \in Wrappers : wrapper[v].st = "usable" => v = w BY <2>1
  <2> QED BY <1>2, <2>2 DEF Locked
<1>4. AtHead BY <1>2 DEF AtHead, At
<1>5. Stock BY <1>2 DEF Stock, Init
<1> QED BY <1>1, <1>3, <1>4, <1>5 DEF Inv

\* The calls that store into the pool, one store at a time.
LEMMA NextInv == Inv /\ [Next]_vars => Inv'
<1> SUFFICES ASSUME Inv, [Next]_vars PROVE Inv' OBVIOUS
<1>0. TypeOK /\ Locked /\ AtHead /\ Stock /\ TypeOK' /\ Locked' BY LockedStep DEF Inv
<1> SUFFICES AtHead' /\ Stock' BY <1>0 DEF Inv
<1>1. ASSUME NEW t \in Threads, NEW w \in Wrappers, CallAllocate(t, w) PROVE AtHead' /\ Stock'
  <2>1. \A u \in Threads : InHand(u)' = InHand(u)
    BY <1>0, <1>1 DEF CallAllocate, At, InHand, TypeOK, Calls
  <2>2. Stock' BY <2>1, <1>0, <1>1, StockKept DEF CallAllocate, Stock
  <2>3. AtHead' BY <1>0, <1>1 DEF CallAllocate, AtHead, At, TypeOK
  <2> QED BY <2>2, <2>3
<1>2. ASSUME NEW t \in Threads, NEW w \in Wrappers, NEW b \in held, CallDeallocate(t, w, b)
      PROVE  AtHead' /\ Stock'
  <2>1. /\ b \in Buckets /\ b # Null /\ At(t, "idle") /\ thr[t].os = "running"
        /\ call' = [call EXCEPT ![t] = [pc |-> "lock_deallocate", w |-> w, node |-> b]]
        /\ held' = held \ {b} /\ UNCHANGED << thr, wrapper, free_list, next, page >>
    BY <1>0, <1>2 DEF CallDeallocate, TypeOK, Buckets, Null
  <2>2. AtHead' BY <1>0, <2>1 DEF AtHead, At, TypeOK
  <2>3. InHand(t) = {} /\ InHand(t)' = {b} /\ \A u \in Threads \ {t} : InHand(u)' = InHand(u)
    BY <1>0, <2>1 DEF InHand, At, TypeOK
  <2>4. page = "given" BY <1>0, <2>1 DEF Stock, TypeOK
  <2>5. PICK n \in Nat : \E s : Stocked(n, s) BY <1>0, <2>4 DEF Stock
  <2>6. PICK s : Stocked(n, s) BY <2>5
  <2>7. Chain(s, n, free_list', next') BY <2>1, <2>6 DEF Stocked
  <2> DEFINE E == Elements(s, n)
  <2>8. Shared(E) BY <2>6 DEF Stocked
  <2> HIDE DEF E
  <2>9. \A u \in Threads \ {t} : b \notin InHand(u)
    BY <2>8 DEF Shared
  <2>10. Shared(E)'
    <3>1. E' = E BY DEF E, Elements
    <3> QED BY <3>1, <2>1, <2>3, <2>8, <2>9 DEF Shared
  <2> QED BY <2>1, <2>2, <2>4, <2>7, <2>10 DEF Stock, Stocked, E
<1>3. ASSUME NEW t \in Threads, lock(t) PROVE AtHead' /\ Stock'
  <2>1. /\ \/ call[t].pc = "lock_allocate" /\ call'[t].pc = "allocate"
           \/ call[t].pc = "lock_deallocate" /\ call'[t].pc = "deallocate"
        /\ call'[t].node = call[t].node
        /\ \A u \in Threads \ {t} : call'[u] = call[u]
    <3>1. CASE At(t, "lock_allocate") /\ GoTo(t, "allocate")
      BY <1>0, <3>1 DEF At, GoTo, TypeOK, Calls
    <3>2. CASE At(t, "lock_deallocate") /\ GoTo(t, "deallocate")
      BY <1>0, <3>2 DEF At, GoTo, TypeOK, Calls
    <3> QED BY <1>3, <3>1, <3>2 DEF lock, EnterCall
  <2>2. call[t].pc = "lock_allocate" => call[t].node = Null
    BY <1>0 DEF TypeOK, Calls
  <2>3. \A u \in Threads : InHand(u)' = InHand(u)
    BY <2>1, <2>2 DEF InHand
  <2>4. UNCHANGED << thr, free_list, next, page, held >> BY <1>3 DEF lock
  <2>5. Stock' BY <2>3, <2>4, <1>0, StockKept DEF Stock
  <2>6. AtHead' BY <1>0, <2>4, <2>1 DEF AtHead, At
  <2> QED BY <2>5, <2>6
<1>4. ASSUME NEW t \in Threads, ReadHead(t) PROVE AtHead' /\ Stock'
  <2>1. \A u \in Threads : InHand(u)' = InHand(u)
    BY <1>0, <1>4 DEF ReadHead, GoWith, At, InHand, TypeOK, Calls
  <2>2. UNCHANGED << thr, free_list, next, page, held >> BY <1>4 DEF ReadHead
  <2>3. Stock' BY <2>1, <2>2, <1>0, StockKept DEF Stock
  <2>4. AtHead' BY <1>0, <1>4 DEF ReadHead, GoWith, AtHead, At, TypeOK
  <2> QED BY <2>3, <2>4
<1>5. ASSUME NEW t \in Threads, allocate_page(t) PROVE AtHead' /\ Stock'
  <2>1. /\ Inside(t) /\ page = "none" /\ page' = "given" /\ free_list' = PageBuckets
        /\ next' = [b \in Buckets |-> b - 1] /\ UNCHANGED << thr, held, call >>
    BY <1>5 DEF allocate_page, At, Inside, Working
  <2>2. AtHead'
    BY <1>0, <1>5, <2>1, OthersOutside DEF AtHead, At, allocate_page
  <2>3. held' = {} /\ \A u \in Threads : InHand(u)' = {}
    BY <1>0, <2>1 DEF Stock, InHand
  <2> DEFINE s == [i \in Buckets |-> i]
  <2>4. Chain(s, PageBuckets, free_list', next') /\ Elements(s, PageBuckets) = Buckets
    BY <2>1, ChainOfPage
  <2>5. PageBuckets \in Nat BY SharedPoolAssumption
  <2> HIDE DEF s
  <2>6. Shared(Elements(s, PageBuckets))' BY <2>3, <2>4 DEF Shared, Elements
  <2> QED BY <2>1, <2>2, <2>4, <2>5, <2>6 DEF Stock, Stocked
<1>6. ASSUME NEW t \in Threads, NoPage(t) PROVE AtHead' /\ Stock'
  <2>1. \A u \in Threads : InHand(u)' = InHand(u)
    BY <1>0, <1>6 DEF NoPage, GoTo, At, InHand, TypeOK, Calls
  <2>2. UNCHANGED << thr, free_list, next, page, held >> BY <1>6 DEF NoPage
  <2>3. Stock' BY <2>1, <2>2, <1>0, StockKept DEF Stock
  <2>4. AtHead' BY <1>0, <1>6 DEF NoPage, GoTo, AtHead, At, TypeOK
  <2> QED BY <2>3, <2>4
<1>7. ASSUME NEW t \in Threads, Pop(t) PROVE AtHead' /\ Stock'
  <2> DEFINE node == call[t].node
  <2>1. /\ Inside(t) /\ node # Null /\ node \in Buckets /\ node = free_list
        /\ free_list' = next[node] /\ UNCHANGED << thr, next, page, held >>
    BY <1>0, <1>7 DEF Pop, At, Inside, Working, TypeOK, Calls, AtHead
  <2>2. call' = [call EXCEPT ![t].pc = "unlock"] BY <1>7 DEF Pop, GoTo
  <2>3. InHand(t) = {} /\ InHand(t)' = {node} /\ \A u \in Threads \ {t} : InHand(u)' = InHand(u)
    BY <1>0, <1>7, <2>1, <2>2 DEF InHand, At, TypeOK, Pop
  <2>4. AtHead'
    BY <1>0, <2>1, <2>2, OthersOutside DEF AtHead, At, TypeOK
  <2>5. page = "given" BY <1>0, <2>1, OthersOutside DEF TypeOK
  <2>6. PICK n \in Nat : \E s : Stocked(n, s) BY <1>0, <2>5 DEF Stock
  <2>7. PICK s : Stocked(n, s) BY <2>6
  <2>8. Chain(s, n, free_list, next) /\ Shared(Elements(s, n)) BY <2>7 DEF Stocked
  <2> DEFINE E == Elements(s, n)
  <2>9. /\ n > 0 /\ node \in E
        /\ \E r : /\ Chain(r, n - 1, free_list', next')
                  /\ Elements(r, n - 1) = E \ {node}
    BY <2>1, <2>8, ChainPopped
  <2>10. PICK r : /\ Chain(r, n - 1, free_list', next')
                  /\ Elements(r, n - 1) = E \ {node}
    BY <2>9
  <2>11. n - 1 \in Nat BY <2>9
  <2>12. Shared(Elements(r, n - 1))'
    <3>1. Shared(E) BY <2>8
    <3>2. Elements(r, n - 1)' = E \ {node} BY <2>10 DEF Elements
    <3> HIDE DEF E, node
    <3> QED BY <3>1, <3>2, <2>1, <2>3, <2>9 DEF Shared
  <2> QED BY <2>1, <2>4, <2>5, <2>10, <2>11, <2>12 DEF Stock, Stocked
<1>8. ASSUME NEW t \in Threads, LinkNode(t) PROVE AtHead' /\ Stock'
  <2> DEFINE node == call[t].node
  <2>1. /\ Inside(t) /\ node # Null /\ node \in Buckets
        /\ next' = [next EXCEPT ![node] = free_list]
        /\ UNCHANGED << thr, free_list, page, held >>
    BY <1>0, <1>8 DEF LinkNode, At, Inside, Working, TypeOK, Calls
  <2>2. call' = [call EXCEPT ![t].pc = "push"] BY <1>8 DEF LinkNode, GoTo
  <2>3. /\ call[t].pc = "deallocate" /\ call'[t].pc = "push" /\ call'[t].node = node
         /\ \A u \in Threads \ {t} : call'[u] = call[u]
    BY <1>0, <1>8, <2>2 DEF At, TypeOK, Calls, LinkNode
  <2>4. InHand(t) = {node} /\ \A u \in Threads : InHand(u)' = InHand(u)
    BY <2>1, <2>3 DEF InHand
  <2>5. AtHead'
    BY <1>0, <2>1, <2>2, OthersOutside DEF AtHead, At, TypeOK
  <2>6. page = "given" BY <1>0, <2>1, <2>4, OthersOutside DEF TypeOK
  <2>7. PICK n \in Nat : \E s : Stocked(n, s) BY <1>0, <2>6 DEF Stock
  <2>8. PICK s : Stocked(n, s) BY <2>7
  <2>9. Chain(s, n, free_list, next) /\ Shared(Elements(s, n)) BY <2>8 DEF Stocked
  <2>10. node \notin Elements(s, n) BY <2>4, <2>9 DEF Shared
  <2>11. Chain(s, n, free_list', next')
    BY <1>0, <2>1, <2>9, <2>10, ChainFramed DEF TypeOK
  <2>12. Shared(Elements(s, n))' BY <2>1, <2>4, <2>9 DEF Shared, Elements
  <2> QED BY <2>1, <2>5, <2>6, <2>11, <2>12 DEF Stock, Stocked
<1>9. ASSUME NEW t \in Threads, Push(t) PROVE AtHead' /\ Stock'
  <2> DEFINE node == call[t].node
  <2>1. /\ Inside(t) /\ node # Null /\ node \in Buckets /\ next[node] = free_list
        /\ free_list' = node /\ UNCHANGED << thr, next, page, held >>
    BY <1>0, <1>9 DEF Push, At, Inside, Working, TypeOK, Calls, AtHead
  <2>2. call' = [call EXCEPT ![t].pc = "unlock", ![t].node = Null] BY <1>9 DEF Push, GoWith
  <2>3. InHand(t) = {node} /\ InHand(t)' = {} /\ \A u \in Threads \ {t} : InHand(u)' = InHand(u)
    <3>1. /\ call[t].pc = "push" /\ call'[t].pc = "unlock" /\ call'[t].node = Null
          /\ \A u \in Threads \ {t} : call'[u] = call[u]
      BY <1>0, <1>9, <2>2 DEF At, TypeOK, Calls, Push
    <3> QED BY <2>1, <3>1 DEF InHand
  <2>4. AtHead'
    BY <1>0, <2>1, <2>2, OthersOutside DEF AtHead, At, TypeOK
  <2>5. page = "given" BY <1>0, <2>1, <2>3, OthersOutside DEF TypeOK
  <2>6. PICK n \in Nat : \E s : Stocked(n, s) BY <1>0, <2>5 DEF Stock
  <2>7. PICK s : Stocked(n, s) BY <2>6
  <2>8. Chain(s, n, free_list, next) /\ Shared(Elements(s, n)) BY <2>7 DEF Stocked
  <2> DEFINE E == Elements(s, n)
  <2>9. node \notin E BY <2>3, <2>8 DEF Shared
  <2>10. PICK r : /\ Chain(r, n + 1, free_list', next')
                  /\ Elements(r, n + 1) = E \cup {node}
    BY <2>1, <2>8, <2>9, ChainPushed
  <2>11. n + 1 \in Nat OBVIOUS
  <2>12. Shared(Elements(r, n + 1))'
    <3>1. Shared(E) BY <2>8
    <3>2. Elements(r, n + 1)' = E \cup {node} BY <2>10 DEF Elements
    <3> HIDE DEF E, node
    <3> QED BY <3>1, <3>2, <2>1, <2>3 DEF Shared
  <2> QED BY <2>1, <2>4, <2>5, <2>10, <2>11, <2>12 DEF Stock, Stocked
<1>10. ASSUME NEW t \in Threads, unlock(t) PROVE AtHead' /\ Stock'
  <2> DEFINE hand == {call[t].node} \ {Null}
  <2>1. /\ Inside(t) /\ held' = held \cup hand /\ call' = [call EXCEPT ![t] = Idle]
        /\ UNCHANGED << thr, free_list, next, page >>
    BY <1>10 DEF unlock, At, Inside, Working
  <2>2. InHand(t) = hand /\ InHand(t)' = {} /\ \A u \in Threads \ {t} : InHand(u)' = InHand(u)
    BY <1>0, <1>10, <2>1 DEF InHand, At, TypeOK, unlock, Idle
  <2>3. AtHead' BY <1>0, <2>1 DEF AtHead, At, TypeOK, Idle
  <2> HIDE DEF hand
  <2>4. CASE page = "none"
    <3>1. hand = {} BY <1>0, <2>1, <2>2, <2>4, OthersOutside
    <3> QED BY <1>0, <2>1, <2>2, <2>3, <2>4, <3>1 DEF Stock
  <2>5. CASE page = "given"
    <3>1. PICK n \in Nat : \E s : Stocked(n, s) BY <1>0, <2>5 DEF Stock
    <3>2. PICK s : Stocked(n, s) BY <3>1
    <3>3. Chain(s, n, free_list', next') /\ Shared(Elements(s, n)) BY <2>1, <3>2 DEF Stocked
    <3>4. Shared(Elements(s, n))'
      <4>1. Elements(s, n)' = Elements(s, n) BY DEF Elements
      <4> QED BY <2>1, <2>2, <3>3, <4>1 DEF Shared
    <3> QED BY <2>1, <2>3, <2>5, <3>3, <3>4 DEF Stock, Stocked
  <2>6. CASE page = "destroyed" BY <1>0, <2>1, <2>6, OthersOutside
  <2> QED BY <1>0, <2>4, <2>5, <2>6 DEF TypeOK
<1>11. ASSUME NEW t \in Threads, Lifecycle(t) PROVE AtHead' /\ Stock'
  <2>1. page # "destroyed" /\ UNCHANGED << wrapper, free_list, next, page, held, call >>
    BY <1>11 DEF Lifecycle, Pooled
  <2>2. \A u \in Threads : InHand(u)' = InHand(u) BY <2>1 DEF InHand
  <2>3. Stock' BY <1>0, <2>1, <2>2, StockKept
  <2> QED BY <1>0, <2>1, <2>3 DEF AtHead, At
<1>12. ASSUME NEW d \in Wrappers, NEW s \in Wrappers, move_construct(d, s) PROVE AtHead' /\ Stock'
  <2>1. UNCHANGED << thr, free_list, next, page, held, call >>
    BY <1>12 DEF move_construct
  <2>2. \A u \in Threads : InHand(u)' = InHand(u) BY <2>1 DEF InHand
  <2>3. Stock' BY <1>0, <2>1, <2>2, StockKept DEF Stock
  <2> QED BY <1>0, <2>1, <2>3 DEF AtHead, At
<1>13. CASE DestroyPool
  <2>1. page' = "destroyed" /\ UNCHANGED << thr, free_list, next, call >>
        /\ \A t \in Threads : thr[t].os = "none"
    BY <1>13 DEF DestroyPool, joinable
  <2> QED BY <1>0, <2>1 DEF AtHead, At, Stock
<1>14. CASE UNCHANGED vars
  <2>1. UNCHANGED << thr, free_list, next, page, held, call >> BY <1>14 DEF vars
  <2>2. \A u \in Threads : InHand(u)' = InHand(u) BY <2>1 DEF InHand
  <2>3. Stock' BY <1>0, <2>1, <2>2, StockKept DEF Stock
  <2> QED BY <1>0, <2>1, <2>3 DEF AtHead, At
<1> QED BY <1>1, <1>2, <1>3, <1>4, <1>5, <1>6, <1>7, <1>8, <1>9, <1>10, <1>11, <1>12, <1>13, <1>14
        DEF Next, InCall
-----------------------------------------------------------------------------
(* The theorems *)

\* A nonempty set of naturals has a least element.
LEMMA LeastNat ==
  ASSUME NEW S \in SUBSET Nat, S # {}
  PROVE  \E m \in S : \A n \in S : m <= n
<1>1. IsWellFoundedOn(OpToRel(<, Nat), Nat) BY NatLessThanWellFounded
<1>2. PICK m \in S : \A n \in S : ~ (<<n, m>> \in OpToRel(<, Nat))
  BY <1>1, WFMin
<1>3. \A n \in S : ~ (n < m) BY <1>2 DEF OpToRel
<1> QED BY <1>3

\* The chain's elements are what the links lead to from the head.
LEMMA ListedIsChain ==
  ASSUME NEW n \in Nat, NEW s, Chain(s, n, free_list, next)
  PROVE  Listed = Elements(s, n)
<1> USE SharedPoolAssumption
<1>1. \A i \in 1 .. n : s[i] \in Buckets /\ s[i] # Null
  BY DEF Chain, Buckets, Null
<1>2. Elements(s, n) \in SUBSET Buckets /\ LinksStayIn(Elements(s, n))
  <2>1. n # 0 => n \in 1 .. n OBVIOUS
  <2>2. \A i \in 1 .. n : i # 1 => i - 1 \in 1 .. n OBVIOUS
  <2> QED BY <1>1, <2>1, <2>2 DEF Elements, LinksStayIn, Chain
<1>3. ASSUME NEW S \in SUBSET Buckets, LinksStayIn(S), NEW k \in 1 .. n, s[k] \notin S
      PROVE  FALSE
  <2> DEFINE Missed == {n - i : i \in {j \in 1 .. n : s[j] \notin S}}
  <2>1. Missed \in SUBSET Nat /\ Missed # {} BY <1>3
  <2>2. PICK m \in Missed : \A d \in Missed : m <= d BY <2>1, LeastNat
  <2>3. PICK i \in 1 .. n : s[i] \notin S /\ m = n - i BY <2>2
  <2>4. CASE i = n
    BY <1>1, <1>3, <2>3, <2>4 DEF LinksStayIn, Chain
  <2>5. CASE i # n
    <3>1. i + 1 \in 1 .. n /\ i + 1 # 1 /\ (i + 1) - 1 = i BY <2>5
    <3>2. s[i + 1] \in S
      <4>1. SUFFICES ASSUME s[i + 1] \notin S PROVE FALSE OBVIOUS
      <4>2. n - (i + 1) \in Missed BY <3>1, <4>1
      <4>3. m <= n - (i + 1) BY <2>2, <4>2
      <4> QED BY <2>3, <4>3
    <3>3. next[s[i + 1]] = s[i] BY <3>1 DEF Chain
    <3> QED BY <1>1, <1>3, <2>3, <3>2, <3>3 DEF LinksStayIn
  <2> QED BY <2>4, <2>5
<1> QED BY <1>2, <1>3 DEF Listed, Elements

LEMMA InvHandedOutOnce == Inv => HandedOutOnce
<1> SUFFICES ASSUME Inv, NEW t \in Threads, At(t, "unlock"), call[t].node # Null
             PROVE  /\ call[t].node \notin held
                    /\ \A u \in Threads \ {t} : At(u, "unlock") => call[u].node # call[t].node
  BY DEF HandedOutOnce
<1>1. call[t].node \in InHand(t) /\ Inside(t) BY DEF InHand, At, Inside, Working
<1>2. page = "given" BY <1>1, OthersOutside DEF Inv, TypeOK
<1>3. PICK n \in Nat : \E s : Stocked(n, s) BY <1>2 DEF Inv, Stock
<1>4. PICK s : Shared(Elements(s, n)) BY <1>3 DEF Stocked
<1> QED BY <1>1, <1>4 DEF Shared, InHand, At

LEMMA InvNoneLost == Inv => NoneLost
<1> SUFFICES ASSUME Inv, page = "given", \A t \in Threads : ~AtWork(t)
             PROVE  Listed = Buckets \ (held \cup {call[t].node : t \in Threads})
  BY DEF NoneLost
<1>1. PICK n \in Nat : \E s : Stocked(n, s) BY DEF Inv, Stock
<1>2. PICK s : Stocked(n, s) BY <1>1
<1>3. Listed = Elements(s, n) /\ Shared(Elements(s, n)) BY <1>2, ListedIsChain DEF Stocked
<1>4. \A t \in Threads : InHand(t) = {call[t].node} \ {Null}
  BY DEF Inv, TypeOK, Calls, Places, AtWork, InHand
<1>5. Elements(s, n) \in SUBSET Buckets /\ Null \notin Buckets
  BY <1>2, SharedPoolAssumption DEF Stocked, Chain, Elements, Buckets, Null
<1> QED BY <1>3, <1>4, <1>5 DEF Shared

LEMMA SpecInv == Spec => []Inv
BY InitInv, NextInv, PTL DEF Spec

\* Whatever the threads do, no bucket is handed to two clients, nor to one
\* while another holds it (synchronized_allocator.cpp:19-37 over
\* pool_allocator.cpp:79-117): the mutex of the one wrapper in use keeps every
\* read of the head of the list together with the store that follows it.
THEOREM NobodySharesABucket == Spec => []HandedOutOnce
BY SpecInv, InvHandedOutOnce, PTL

\* Whenever no thread is inside the pool, its list reaches every bucket that no
\* client and no call has: no store to a link or to the head is overwritten by
\* another thread's (pool_allocator.cpp:114-116).
THEOREM NoBucketIsLost == Spec => []NoneLost
BY SpecInv, InvNoneLost, PTL
=============================================================================
