----------------------- MODULE SynchronizedAllocator -----------------------
(***************************************************************************)
(* tca::synchronized_allocator over a pool_allocator, called by            *)
(* tc::threads.  The wrapped calls are modelled load by load and store by  *)
(* store, so that only the mutex keeps them apart.  The main thread starts *)
(* and joins the others, may move the wrapper while no call is in it, and  *)
(* destroys the pool when every thread was joined.                         *)
(***************************************************************************)
EXTENDS Thread, Integers

CONSTANTS
  Wrappers,     \* the synchronized_allocator objects
  PageBuckets,  \* buckets of the one page the pool's parent can give
  NoThread

ASSUME SharedPoolAssumption == PageBuckets \in Nat \ {0} /\ NoThread \notin Threads

Buckets == 1..PageBuckets
Null    == 0

VARIABLES
  wrapper,    \* wrapper -> [st, m_mutex]: life, and the thread holding the lock
  free_list,  \* the pool's head of the list, or Null
  next,       \* the link stored in each bucket
  page,       \* "none", "given", "destroyed": the pool's one page
  held,       \* the buckets clients hold (any of them may free any)
  call        \* thread -> [pc, w, node]: its place in a call, and its locals

vars == << thr, wrapper, free_list, next, page, held, call >>

Idle == [pc |-> "idle", w |-> NoThread, node |-> Null]

Init ==
  /\ ThreadInit
  /\ \E w \in Wrappers :
       wrapper = [v \in Wrappers |-> [st |-> IF v = w THEN "usable" ELSE "none",
                                      m_mutex |-> NoThread]]
  /\ free_list = Null /\ next = [b \in Buckets |-> Null]
  /\ page = "none" /\ held = {}
  /\ call = [t \in Threads |-> Idle]

At(t, pc) == call[t].pc = pc
GoTo(t, pc) == call' = [call EXCEPT ![t].pc = pc]
GoWith(t, pc, b) == call' = [call EXCEPT ![t].pc = pc, ![t].node = b]
-----------------------------------------------------------------------------
(* A thread's calls.  unique_lock locks first and unlocks at the end. *)

CallAllocate(t, w) ==
  /\ thr[t].os = "running" /\ At(t, "idle") /\ wrapper[w].st = "usable"
  /\ call' = [call EXCEPT ![t] = [pc |-> "lock_allocate", w |-> w, node |-> Null]]
  /\ UNCHANGED << thr, wrapper, free_list, next, page, held >>

\* The client lets go of b when it makes the call.
CallDeallocate(t, w, b) ==
  /\ thr[t].os = "running" /\ At(t, "idle") /\ wrapper[w].st = "usable"
  /\ call' = [call EXCEPT ![t] = [pc |-> "lock_deallocate", w |-> w, node |-> b]]
  /\ held' = held \ {b}
  /\ UNCHANGED << thr, wrapper, free_list, next, page >>

EnterCall(t) ==
  \/ At(t, "lock_allocate") /\ GoTo(t, "allocate")
  \/ At(t, "lock_deallocate") /\ GoTo(t, "deallocate")

\* Mutant: the mutex is not waited for.
LockNoWait(t) ==
  /\ EnterCall(t)
  /\ wrapper' = [wrapper EXCEPT ![call[t].w].m_mutex = t]
  /\ UNCHANGED << thr, free_list, next, page, held >>
lock(t) ==
  /\ EnterCall(t)
  /\ wrapper[call[t].w].m_mutex = NoThread
  /\ wrapper' = [wrapper EXCEPT ![call[t].w].m_mutex = t]
  /\ UNCHANGED << thr, free_list, next, page, held >>

\* node = free_list, when there is one.
ReadHead(t) ==
  /\ At(t, "allocate") /\ free_list # Null
  /\ GoWith(t, "pop", free_list)
  /\ UNCHANGED << thr, wrapper, free_list, next, page, held >>

\* Every bucket is pushed in turn, so the last one ends at the head.
allocate_page(t) ==
  /\ At(t, "allocate") /\ free_list = Null /\ page = "none"
  /\ page' = "given" /\ free_list' = PageBuckets
  /\ next' = [b \in Buckets |-> b - 1]
  /\ UNCHANGED << thr, wrapper, held, call >>

\* The parent has no page, or has given all it has: nullptr.
NoPage(t) ==
  /\ At(t, "allocate") /\ free_list = Null
  /\ GoTo(t, "unlock")
  /\ UNCHANGED << thr, wrapper, free_list, next, page, held >>

\* free_list = free_list->next
Pop(t) ==
  /\ At(t, "pop")
  /\ free_list' = next[call[t].node]
  /\ GoTo(t, "unlock")
  /\ UNCHANGED << thr, wrapper, next, page, held >>

\* node->next = free_list, then free_list = node
LinkNode(t) ==
  /\ At(t, "deallocate")
  /\ next' = [next EXCEPT ![call[t].node] = free_list]
  /\ GoTo(t, "push")
  /\ UNCHANGED << thr, wrapper, free_list, page, held >>
Push(t) ==
  /\ At(t, "push")
  /\ free_list' = call[t].node
  /\ GoWith(t, "unlock", Null)
  /\ UNCHANGED << thr, wrapper, next, page, held >>

\* Mutant: the mutex stays locked.
ReturnLocked(t) ==
  /\ At(t, "unlock")
  /\ held' = held \cup ({call[t].node} \ {Null})
  /\ call' = [call EXCEPT ![t] = Idle]
  /\ UNCHANGED << thr, wrapper, free_list, next, page >>
\* The call returns: a bucket that was taken is the client's now.
unlock(t) ==
  /\ At(t, "unlock")
  /\ wrapper' = [wrapper EXCEPT ![call[t].w].m_mutex = NoThread]
  /\ held' = held \cup ({call[t].node} \ {Null})
  /\ call' = [call EXCEPT ![t] = Idle]
  /\ UNCHANGED << thr, free_list, next, page >>

InCall(t) == lock(t) \/ ReadHead(t) \/ allocate_page(t) \/ NoPage(t) \/ Pop(t)
             \/ LinkNode(t) \/ Push(t) \/ unlock(t)
-----------------------------------------------------------------------------
(* Threads and the main thread *)

Pooled == << wrapper, free_list, next, page, held, call >>
Ends(t) == At(t, "idle") /\ end(t)
Lifecycle(t) ==
  /\ page # "destroyed"
  /\ start(t) \/ begin(t) \/ Ends(t) \/ join(t)
  /\ UNCHANGED Pooled

\* The new wrapper has a mutex of its own and the source keeps its pointer, so
\* the client moves while nobody calls, and does not use the source again.
move_construct(d, s) ==
  /\ wrapper[s].st = "usable" /\ wrapper[d].st = "none"
  /\ \A t \in Threads : At(t, "idle")
  /\ wrapper' = [wrapper EXCEPT ![d].st = "usable", ![s].st = "none"]
  /\ UNCHANGED << thr, free_list, next, page, held, call >>

\* The pool's owner destroys it when no thread is left to join.
DestroyPool ==
  /\ page # "destroyed" /\ \A t \in Threads : ~joinable(t)
  /\ page' = "destroyed" /\ held' = {}
  /\ UNCHANGED << thr, wrapper, free_list, next, call >>

Next ==
  \/ \E t \in Threads : \/ \E w \in Wrappers : \/ CallAllocate(t, w)
                                               \/ \E b \in held : CallDeallocate(t, w, b)
                        \/ InCall(t)
                        \/ Lifecycle(t)
  \/ \E d, s \in Wrappers : move_construct(d, s)
  \/ DestroyPool

\* The OS runs every thread that is inside a call.
Spec == Init /\ [][Next]_vars /\ \A t \in Threads : WF_vars(InCall(t))
-----------------------------------------------------------------------------
(* Properties *)

\* A bucket on its way to a client is not another thread's and not held.
HandedOutOnce ==
  \A t \in Threads : At(t, "unlock") /\ call[t].node # Null =>
    /\ call[t].node \notin held
    /\ \A u \in Threads \ {t} : At(u, "unlock") => call[u].node # call[t].node

\* The buckets reached from free_list: the least set that the links stay in.
LinksStayIn(S) == /\ free_list \in S \cup {Null}
                  /\ \A b \in S : next[b] \in S \cup {Null}
Listed == {b \in Buckets : \A S \in SUBSET Buckets : LinksStayIn(S) => b \in S}

\* While no thread is at work in the pool its list holds exactly the buckets
\* that are neither with a client nor in a caller's hand: none is lost to a
\* store that another thread overwrote.
AtWork(t) == call[t].pc \in {"allocate", "pop", "deallocate", "push"}
NoneLost ==
  page = "given" /\ (\A t \in Threads : ~AtWork(t)) =>
    Listed = Buckets \ (held \cup {call[t].node : t \in Threads})

\* Every lock that was taken is released.
LocksAreReleased ==
  \A w \in Wrappers : []<>(wrapper[w].m_mutex = NoThread)
=============================================================================
