----------------------------- MODULE SharedPtr -----------------------------
(***************************************************************************)
(* tc::shared_ptr and tc::weak_ptr (shared_ptr_t.hpp) over the counts of a *)
(* control_block (control_block.hpp, control_block.cpp), used by several   *)
(* threads.  A call is the sequence of steps that touch shared memory:     *)
(* each atomic increment, decrement, load and compare-exchange of a count, *)
(* the destruction of the object and the freeing of the control block are  *)
(* steps of their own, kept per thread in `todo' in the code's order.      *)
(*                                                                         *)
(* The managed object has one shared_ptr member, so that objects can be    *)
(* chained and destroying one destroys the next.  The member of the object *)
(* of block c is the handle c itself.                                      *)
(***************************************************************************)
EXTENDS Naturals, Sequences, FiniteSets

CONSTANTS
  Threads,
  Ctrls,      \* the control blocks the run may allocate; none is used twice
  Shared,     \* the shared_ptr variables of the client
  Weak,       \* the weak_ptr variables of the client
  Null        \* m_control == nullptr

ASSUME HandlesAssumption ==
  /\ IsFiniteSet(Threads) /\ IsFiniteSet(Ctrls)
  /\ IsFiniteSet(Shared) /\ IsFiniteSet(Weak)
  /\ Ctrls \cap Shared = {} /\ Weak \cap (Ctrls \cup Shared) = {}
  /\ Null \notin Ctrls

VARIABLES
  held,       \* handle -> m_control, for every shared_ptr and every weak_ptr
  strong,     \* m_strong of each block
  weak,       \* m_weak of each block
  phase,      \* of block and object: "unused", "live", "destroyed", "freed"
  todo,       \* thread -> the steps its current call still has to take
  fault       \* TRUE once freed memory was used or an object destroyed twice

vars == << held, strong, weak, phase, todo, fault >>

Handles == Shared \cup Weak \cup Ctrls

Init ==
  /\ held   = [h \in Handles |-> Null]
  /\ strong = [c \in Ctrls |-> 0] /\ weak = [c \in Ctrls |-> 0]
  /\ phase  = [c \in Ctrls |-> "unused"]
  /\ todo   = [t \in Threads |-> << >>]
  /\ fault  = FALSE
-----------------------------------------------------------------------------
(* The steps a call is made of.  `dst' is the handle a step writes, `src'  *)
(* the handle it reads and `path' the shared_ptr that leads to them.       *)

DecStrong(c)  == [op |-> "dec_strong", ctrl |-> c]
Destroy(c)    == [op |-> "destroy_object", ctrl |-> c]
DecWeak(c)    == [op |-> "dec_weak", ctrl |-> c]
Dealloc(c)    == [op |-> "destroy_control_block", ctrl |-> c]
Inc(f, c)     == [op |-> IF f.inc = "strong" THEN "inc_strong" ELSE "inc_weak",
                  dst |-> f.dst, src |-> f.src, path |-> f.path, ctrl |-> c]
Take(d, s, p, kind) == [op |-> "take", dst |-> d, src |-> s, path |-> p, inc |-> kind]
Load(d, w)      == [op |-> "load", dst |-> d, src |-> w, path |-> {}]
Cas(d, w, v)    == [op |-> "cas", dst |-> d, src |-> w, path |-> {}, val |-> v]

\* cleanup() of a handle that holds c; a null m_control needs nothing.
StrongCleanup(c) == IF c = Null THEN << >> ELSE << DecStrong(c) >>
WeakCleanup(c)   == IF c = Null THEN << >> ELSE << DecWeak(c) >>

Steps(t)   == {todo[t][i] : i \in DOMAIN todo[t]}
Pending    == UNION {Steps(t) : t \in Threads}
Assigned   == {f.dst : f \in {g \in Pending : "dst" \in DOMAIN g}}
Written    == Assigned \cup {f.src : f \in {g \in Pending : g.op = "take" /\ g.inc = "none"}}
BeingRead  == UNION {{f.src} \cup f.path : f \in {g \in Pending : "src" \in DOMAIN g}}

\* The client's own discipline: a handle is not written while another call
\* uses it.  Reading one handle from several threads is allowed.
MayWrite(h) == h \notin Written \cup BeingRead
MayRead(h)  == h \notin Written

\* The shared_ptrs a thread can name: a variable, or the member of the object
\* that a variable points to.
Place(h, viaMember) == IF viaMember THEN held[h] ELSE h
Reaches(h, viaMember) == MayRead(h) /\ (viaMember => held[h] # Null)

Idle(t)       == todo[t] = << >>
Call(t, frames) == todo' = [todo EXCEPT ![t] = frames]
-----------------------------------------------------------------------------
(* The calls of the client *)

\* make_shared / allocate_shared into an empty variable: both counts are 1.
allocate_shared(t, d) ==
  /\ Idle(t) /\ MayWrite(d) /\ held[d] = Null
  /\ \E c \in {x \in Ctrls : phase[x] = "unused"} :
       /\ held'   = [held EXCEPT ![d] = c]
       /\ strong' = [strong EXCEPT ![c] = 1]
       /\ weak'   = [weak EXCEPT ![c] = 1]
       /\ phase'  = [phase EXCEPT ![c] = "live"]
  /\ UNCHANGED << todo, fault >>

\* shared_ptr(const shared_ptr&): m_control is copied, then counted.
copy_construct(t, d, s, m) ==
  /\ Idle(t) /\ MayWrite(d) /\ held[d] = Null
  /\ d # s /\ Reaches(s, m) /\ MayRead(Place(s, m))
  /\ Call(t, << Take(d, Place(s, m), {s}, "strong") >>)
  /\ UNCHANGED << held, strong, weak, phase, fault >>

\* Mutant: the old object is not released.
CopyAssignNoCleanup(t, d, dm, s, sm) ==
  LET dst == Place(d, dm)
      src == Place(s, sm)
  IN /\ Idle(t) /\ Reaches(d, dm) /\ Reaches(s, sm)
     /\ MayWrite(dst) /\ MayRead(src) /\ dst # src /\ (sm => d # s)
     /\ Call(t, << Take(dst, src, {d, s} \ {dst}, "strong") >>)
     /\ UNCHANGED << held, strong, weak, phase, fault >>
\* operator=(const shared_ptr&): cleanup() of the receiver comes first, then
\* ptr.m_control is read and counted.  p = p->next is left out: its source
\* dies with the old object before it is read.
copy_assign(t, d, dm, s, sm) ==
  LET dst == Place(d, dm)
      src == Place(s, sm)
  IN /\ Idle(t) /\ Reaches(d, dm) /\ Reaches(s, sm)
     /\ MayWrite(dst) /\ MayRead(src) /\ dst # src /\ (sm => d # s)
     /\ Call(t, StrongCleanup(held[dst]) \o << Take(dst, src, {d, s} \ {dst}, "strong") >>)
     /\ UNCHANGED << held, strong, weak, phase, fault >>

\* operator=(shared_ptr&&) of the same type exchanges the two handles; the
\* move constructor is the case of an empty receiver.
move_assign(t, d, s) ==
  /\ Idle(t) /\ MayWrite(d) /\ MayWrite(s) /\ d # s
  /\ held' = [held EXCEPT ![d] = held[s], ![s] = held[d]]
  /\ UNCHANGED << strong, weak, phase, todo, fault >>

\* operator=(shared_ptr<E>&&) of a related type gives up the old object and
\* empties the source, unless both hold the same one.
move_assign_related(t, d, s) ==
  /\ Idle(t) /\ MayWrite(d) /\ MayWrite(s) /\ held[d] # held[s]
  /\ Call(t, StrongCleanup(held[d]) \o << Take(d, s, {}, "none") >>)
  /\ UNCHANGED << held, strong, weak, phase, fault >>

\* ~shared_ptr of a variable.
destroy_shared(t, d) ==
  /\ Idle(t) /\ MayWrite(d) /\ held[d] # Null
  /\ held' = [held EXCEPT ![d] = Null]
  /\ Call(t, StrongCleanup(held[d]))
  /\ UNCHANGED << strong, weak, phase, fault >>

\* get_weak: weak_ptr(m_obj, m_control) into an empty weak_ptr.
get_weak(t, w, s) ==
  /\ Idle(t) /\ MayWrite(w) /\ held[w] = Null /\ MayRead(s)
  /\ Call(t, << Take(w, s, {}, "weak") >>)
  /\ UNCHANGED << held, strong, weak, phase, fault >>

\* weak_ptr's copy assignment, and copy construction into an empty one.
weak_copy_assign(t, w, v) ==
  /\ Idle(t) /\ MayWrite(w) /\ MayRead(v) /\ w # v
  /\ Call(t, WeakCleanup(held[w]) \o << Take(w, v, {}, "weak") >>)
  /\ UNCHANGED << held, strong, weak, phase, fault >>

destroy_weak(t, w) ==
  /\ Idle(t) /\ MayWrite(w) /\ held[w] # Null
  /\ held' = [held EXCEPT ![w] = Null]
  /\ Call(t, WeakCleanup(held[w]))
  /\ UNCHANGED << strong, weak, phase, fault >>

\* lock() into an empty shared_ptr.
lock(t, d, w) ==
  /\ Idle(t) /\ MayWrite(d) /\ held[d] = Null /\ MayRead(w) /\ held[w] # Null
  /\ Call(t, << Load(d, w) >>)
  /\ UNCHANGED << held, strong, weak, phase, fault >>
-----------------------------------------------------------------------------
(* Taking the next step of a call.  f is the step, rest what follows it.   *)

\* Every step that goes through m_control uses the block's memory.
Use(c) == fault' = (fault \/ phase[c] \in {"unused", "freed"})
Continue(t, frames) == todo' = [todo EXCEPT ![t] = frames \o Tail(@)]
Dec(n) == IF n > 0 THEN n - 1 ELSE 0

\* Mutant: the last shared_ptr keeps the weak reference of all of them.
DecStrongKeepsWeak(t, f) ==
  /\ strong' = [strong EXCEPT ![f.ctrl] = Dec(@)]
  /\ Continue(t, IF strong[f.ctrl] = 1 THEN << Destroy(f.ctrl) >> ELSE << >>)
  /\ Use(f.ctrl)
  /\ UNCHANGED << held, weak, phase >>

\* cleanup() of a shared_ptr: whoever brings m_strong to zero destroys the
\* object and gives up the weak reference the shared_ptrs have in common.
dec_strong(t, f) ==
  /\ strong' = [strong EXCEPT ![f.ctrl] = Dec(@)]
  /\ Continue(t, IF strong[f.ctrl] = 1 THEN << Destroy(f.ctrl), DecWeak(f.ctrl) >> ELSE << >>)
  /\ Use(f.ctrl)
  /\ UNCHANGED << held, weak, phase >>

\* The object's destructor runs the destructor of its shared_ptr member.
destroy_object(t, f) ==
  /\ phase' = [phase EXCEPT ![f.ctrl] = "destroyed"]
  /\ held'  = [held EXCEPT ![f.ctrl] = Null]
  /\ Continue(t, StrongCleanup(held[f.ctrl]))
  /\ fault' = (fault \/ phase[f.ctrl] # "live")
  /\ UNCHANGED << strong, weak >>

dec_weak(t, f) ==
  /\ weak' = [weak EXCEPT ![f.ctrl] = Dec(@)]
  /\ Continue(t, IF weak[f.ctrl] = 1 THEN << Dealloc(f.ctrl) >> ELSE << >>)
  /\ Use(f.ctrl)
  /\ UNCHANGED << held, strong, phase >>

destroy_control_block(t, f) ==
  /\ phase' = [phase EXCEPT ![f.ctrl] = "freed"]
  /\ Continue(t, << >>) /\ Use(f.ctrl)
  /\ UNCHANGED << held, strong, weak >>

inc_strong(t, f) ==
  /\ strong' = [strong EXCEPT ![f.ctrl] = @ + 1]
  /\ Continue(t, << >>) /\ Use(f.ctrl)
  /\ UNCHANGED << held, weak, phase >>

inc_weak(t, f) ==
  /\ weak' = [weak EXCEPT ![f.ctrl] = @ + 1]
  /\ Continue(t, << >>) /\ Use(f.ctrl)
  /\ UNCHANGED << held, strong, phase >>

\* m_control = ptr.m_control: the source must still exist, which it does not
\* when it is the member of an object that was destroyed.
take(t, f) ==
  LET c == held[f.src]
      counted == IF c = Null \/ f.inc = "none" THEN << >> ELSE << Inc(f, c) >>
  IN /\ held' = IF f.inc = "none"
                THEN [held EXCEPT ![f.dst] = c, ![f.src] = Null]
                ELSE [held EXCEPT ![f.dst] = c]
     /\ Continue(t, counted)
     /\ fault' = (fault \/ (f.src \in Ctrls /\ phase[f.src] # "live"))
     /\ UNCHANGED << strong, weak, phase >>

\* try_inc_strong: the load, then compare_exchange_weak, which may fail for
\* no reason; a failure loads the count again.  Zero ends it without a lock.
TryAgain(t, f, v) ==
  Continue(t, IF v = 0 THEN << >> ELSE << Cas(f.dst, f.src, v) >>)

load(t, f) ==
  /\ TryAgain(t, f, strong[held[f.src]]) /\ Use(held[f.src])
  /\ UNCHANGED << held, strong, weak, phase >>

\* Mutant: try_inc_strong gives up after one failure.
CasGivesUp(t, f) ==
  /\ Continue(t, << >>) /\ Use(held[f.src])
  /\ UNCHANGED << held, strong, weak, phase >>
cas_fails(t, f) ==
  /\ TryAgain(t, f, strong[held[f.src]]) /\ Use(held[f.src])
  /\ UNCHANGED << held, strong, weak, phase >>

\* Mutant: the count is incremented without comparing it with the load.
IncWithoutCompare(t, f) ==
  /\ strong' = [strong EXCEPT ![held[f.src]] = @ + 1]
  /\ held'   = [held EXCEPT ![f.dst] = held[f.src]]
  /\ Continue(t, << >>) /\ Use(held[f.src])
  /\ UNCHANGED << weak, phase >>
cas_succeeds(t, f) ==
  LET c == held[f.src]
  IN /\ strong[c] = f.val
     /\ strong' = [strong EXCEPT ![c] = @ + 1]
     /\ held'   = [held EXCEPT ![f.dst] = c]
     /\ Continue(t, << >>) /\ Use(c)
     /\ UNCHANGED << weak, phase >>

Step(t) ==
  /\ ~Idle(t)
  /\ LET f == Head(todo[t])
     IN \/ f.op = "dec_strong" /\ dec_strong(t, f)
        \/ f.op = "destroy_object" /\ destroy_object(t, f)
        \/ f.op = "dec_weak" /\ dec_weak(t, f)
        \/ f.op = "destroy_control_block" /\ destroy_control_block(t, f)
        \/ f.op = "inc_strong" /\ inc_strong(t, f)
        \/ f.op = "inc_weak" /\ inc_weak(t, f)
        \/ f.op = "take" /\ take(t, f)
        \/ f.op = "load" /\ load(t, f)
        \/ f.op = "cas" /\ (cas_fails(t, f) \/ cas_succeeds(t, f))

SharedCall(t) ==
  \E d \in Shared :
    \/ allocate_shared(t, d)
    \/ destroy_shared(t, d)
    \/ \E w \in Weak : lock(t, d, w)
    \/ \E s \in Shared :
         \/ move_assign(t, d, s)
         \/ move_assign_related(t, d, s)
         \/ \E m \in BOOLEAN : copy_construct(t, d, s, m)
         \/ \E dm, sm \in BOOLEAN : copy_assign(t, d, dm, s, sm)

WeakCall(t) ==
  \E w \in Weak :
    \/ destroy_weak(t, w)
    \/ \E s \in Shared : get_weak(t, w, s)
    \/ \E v \in Weak : weak_copy_assign(t, w, v) \/ move_assign(t, w, v)

Next == \E t \in Threads : SharedCall(t) \/ WeakCall(t) \/ Step(t)

\* A thread in the middle of a call keeps running.
Spec == Init /\ [][Next]_vars /\ \A t \in Threads : WF_vars(Step(t))
-----------------------------------------------------------------------------
(* The array specialisation's own copy assignment *)

\* shared_ptr<T[]>::operator=(const shared_ptr&) overwrites m_control before
\* cleanup(), which then releases the new array instead of the old one.
array_copy_assign(t, d, s) ==
  /\ Idle(t) /\ MayWrite(d) /\ MayRead(s) /\ d # s
  /\ held' = [held EXCEPT ![d] = held[s]]
  /\ Call(t, StrongCleanup(held[s]) \o
             (IF held[s] = Null THEN << >>
              ELSE << Inc(Take(d, s, {}, "strong"), held[s]) >>))
  /\ UNCHANGED << strong, weak, phase, fault >>
ArraySpec ==
  Init /\ [][Next \/ \E t \in Threads : \E d, s \in Shared :
                       array_copy_assign(t, d, s)]_vars
-----------------------------------------------------------------------------
(* Properties *)

\* A handle that no call is giving a new value.
Settled(h) == h \notin Assigned
HoldersOf(H, c) == {h \in H : Settled(h) /\ held[h] = c}

\* The places of a step in the calls, each counted from the end of its call,
\* where the steps that a call adds leave it.
Frames(t, f) == {n \in 1 .. Len(todo[t]) : todo[t][Len(todo[t]) + 1 - n] = f}
Count(f)     == Cardinality(UNION {{t} \X Frames(t, f) : t \in Threads})

\* No call uses a control block after it was freed, reads a member of a
\* destroyed object, or destroys an object a second time, whatever the
\* threads' interleaving (cleanup, lock, copy).
NoFault == ~fault

\* The counts are exact at every step: m_strong is the number of shared_ptrs
\* that hold the block plus the releases on their way, m_weak the number of
\* weak_ptrs plus releases on their way plus one for all shared_ptrs together.
CountsExact ==
  \A c \in Ctrls : phase[c] \in {"live", "destroyed"} =>
    /\ strong[c] = Cardinality(HoldersOf(Shared \cup Ctrls, c)) + Count(DecStrong(c))
    /\ weak[c] = Cardinality(HoldersOf(Weak, c)) + Count(DecWeak(c))
                 + IF strong[c] > 0 THEN 1 ELSE 0

\* Once the last owner has let go nobody becomes an owner again: a weak_ptr's
\* lock cannot revive an object whose destruction has begun.
NoRevival ==
  [][\A c \in Ctrls : (phase[c] # "unused" /\ strong[c] = 0) => strong'[c] = 0]_vars

\* lock() comes back empty only when no shared_ptr owns the object any more.
LockFailsOnlyWhenExpired ==
  [][\A t \in Threads :
       (todo[t] # << >> /\ Head(todo[t]).op \in {"load", "cas"} /\ todo'[t] = << >>
        /\ held'[Head(todo[t]).dst] = Null)
       => HoldersOf(Shared \cup Ctrls, held[Head(todo[t]).src]) = {}]_vars

\* A block that no handle holds is freed in the end: the last of two threads
\* that release at once, a shared_ptr or a weak_ptr, does it.
Referenced(c) == \E h \in Handles : held[h] = c
Released ==
  \A c \in Ctrls : (phase[c] # "unused" /\ ~Referenced(c)) ~> phase[c] = "freed"
=============================================================================
