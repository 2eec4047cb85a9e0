--------------------------- MODULE SocketsProofs ---------------------------
(***************************************************************************)
(* The flags of tsocket for any number of sockets, descriptors and bytes:  *)
(* whatever call throws, they say no more than the descriptor is, and less *)
(* only after a connect that threw; and the bytes that the clients         *)
(* exchange arrive once and in order.                                      *)
(***************************************************************************)
EXTENDS MCSockets, SequenceTheorems, TLAPS

Flags == {"CREATED", "CONNECTED", "BINDED", "LISTENING", "SHUTDOWN_OUT", "SHUTDOWN_IN", "CLOSED"}
States == {"fresh", "bound", "listening", "connected"}

(* The parts of the invariant speak of any sockets `so' and descriptors     *)
(* `ds', so that a call that opens a descriptor and goes on takes two steps *)
(* of the proof.                                                            *)

Row(r) == r \in [state : States, peer : Nat, inbox : {r.inbox}, waiting : Seq(Nat),
                 shut_in : BOOLEAN, shut_out : BOOLEAN]
Rows(ds) == ds \in Seq({ds[d] : d \in DOMAIN ds}) /\ \A d \in DOMAIN ds : Row(ds[d])
Objects(so) == so \in [Sockets -> [flags : SUBSET Flags, fd : Nat, blocking : BOOLEAN]]

\* An object has a descriptor while it is created and not closed.
Lives(so, ds) == \A s \in Sockets :
  /\ so[s].fd # 0 <=> "CREATED" \in so[s].flags /\ "CLOSED" \notin so[s].flags
  /\ so[s].fd # 0 => so[s].fd \in DOMAIN ds
  /\ "CREATED" \notin so[s].flags => so[s].flags \subseteq {"CLOSED"}
  /\ "CLOSED" \in so[s].flags => "CONNECTED" \notin so[s].flags
  /\ \A t \in Sockets \ {s} : so[s].fd # 0 => so[t].fd # so[s].fd

\* What the flags say of the descriptor.
Agree(so, ds) == \A s \in Sockets :
  so[s].fd # 0 =>
    /\ "CONNECTED" \in so[s].flags => ds[so[s].fd].state = "connected"
    /\ "LISTENING" \in so[s].flags <=> ds[so[s].fd].state = "listening"
    /\ "BINDED" \in so[s].flags <=> ds[so[s].fd].state \in {"bound", "listening"}
    /\ "SHUTDOWN_OUT" \in so[s].flags <=> ds[so[s].fd].shut_out

\* The two ends of a connection.
Ends(ds) == \A d \in DOMAIN ds :
  ds[d].state = "connected" =>
    /\ ds[d].peer \in DOMAIN ds
    /\ ds[ds[d].peer].peer = d /\ ds[ds[d].peer].state = "connected"

\* What waits for an accept is a connection that nobody has, once.
Queues(so, ds) == \A q \in DOMAIN ds : \A p \in DOMAIN ds[q].waiting :
  LET d == ds[q].waiting[p]
  IN /\ d \in DOMAIN ds /\ ds[d].state = "connected" /\ ~ds[d].shut_out
     /\ \A s \in Sockets : so[s].fd # d
     /\ \A r \in DOMAIN ds : \A o \in DOMAIN ds[r].waiting :
          ds[r].waiting[o] = d => r = q /\ o = p

Good(so, ds) == Objects(so) /\ Rows(ds) /\ Lives(so, ds) /\ Agree(so, ds) /\ Ends(ds) /\ Queues(so, ds)
-----------------------------------------------------------------------------
(* Sequences *)

LEMMA IsSequence ==
  ASSUME NEW T, NEW n \in Nat, NEW e \in [1 .. n -> T]
  PROVE  e \in Seq(T) /\ Len(e) = n
OBVIOUS

LEMMA Appended ==
  ASSUME NEW ds, Rows(ds), NEW r, Row(r)
  PROVE  /\ Rows(Append(ds, r)) /\ Len(ds) \in Nat
         /\ DOMAIN ds = 1 .. Len(ds)
         /\ DOMAIN Append(ds, r) = 1 .. (Len(ds) + 1) /\ Len(Append(ds, r)) = Len(ds) + 1
         /\ \A d \in DOMAIN ds : Append(ds, r)[d] = ds[d]
         /\ Append(ds, r)[Len(ds) + 1] = r
<1> DEFINE S == {ds[d] : d \in DOMAIN ds}
<1> DEFINE e == Append(ds, r)
<1>1. ds \in Seq(S) /\ \A d \in DOMAIN ds : Row(ds[d]) BY DEF Rows
<1>2. Len(ds) \in Nat /\ DOMAIN ds = 1 .. Len(ds) BY <1>1
<1>3. /\ e \in Seq(S \cup {r}) /\ Len(e) = Len(ds) + 1
      /\ \A d \in 1 .. Len(ds) : e[d] = ds[d]
      /\ e[Len(ds) + 1] = r
  BY <1>1
<1>4. DOMAIN e = 1 .. (Len(ds) + 1) BY <1>3
<1>5. e \in Seq({e[d] : d \in DOMAIN e})
  <2> DEFINE T == {e[x] : x \in DOMAIN e}
  <2> HIDE DEF e, S
  <2>1. e \in [1 .. Len(e) -> S \cup {r}] /\ Len(e) \in Nat BY <1>3
  <2>2. \A d \in DOMAIN e : e[d] \in T OBVIOUS
  <2>3. e \in [1 .. Len(e) -> T] BY <2>1, <2>2
  <2> HIDE DEF T
  <2>4. e \in Seq(T) BY <2>1, <2>3, IsSequence
  <2> QED BY <2>4 DEF T
<1>6. \A d \in DOMAIN e : Row(e[d]) BY <1>1, <1>2, <1>3, <1>4
<1> QED BY <1>2, <1>3, <1>4, <1>5, <1>6 DEF Rows

LEMMA Changed ==
  ASSUME NEW ds, Rows(ds), NEW k \in DOMAIN ds, NEW r, Row(r)
  PROVE  /\ Rows([ds EXCEPT ![k] = r]) /\ Len([ds EXCEPT ![k] = r]) = Len(ds)
         /\ DOMAIN [ds EXCEPT ![k] = r] = DOMAIN ds
         /\ \A d \in DOMAIN ds : [ds EXCEPT ![k] = r][d] = IF d = k THEN r ELSE ds[d]
<1> DEFINE S == {ds[d] : d \in DOMAIN ds}
<1> DEFINE e == [ds EXCEPT ![k] = r]
<1>1. ds \in Seq(S) /\ \A d \in DOMAIN ds : Row(ds[d]) BY DEF Rows
<1>2. Len(ds) \in Nat /\ DOMAIN ds = 1 .. Len(ds) BY <1>1
<1>3. DOMAIN e = DOMAIN ds /\ \A d \in DOMAIN ds : e[d] = IF d = k THEN r ELSE ds[d] OBVIOUS
<1>4. e = [d \in 1 .. Len(ds) |-> e[d]] BY <1>2, <1>3
<1>5. e \in Seq({e[d] : d \in DOMAIN e}) /\ Len(e) = Len(ds)
  <2> DEFINE T == {e[x] : x \in DOMAIN e}
  <2>1. \A d \in DOMAIN e : e[d] \in T OBVIOUS
  <2>2. e \in [1 .. Len(ds) -> T] BY <2>1, <1>2, <1>3, <1>4
  <2> HIDE DEF T, e
  <2>3. e \in Seq(T) /\ Len(e) = Len(ds) BY <2>2, <1>2, IsSequence
  <2> QED BY <2>3 DEF T
<1>6. \A d \in DOMAIN e : Row(e[d]) BY <1>1, <1>3
<1> QED BY <1>3, <1>5, <1>6 DEF Rows
-----------------------------------------------------------------------------
(* One change at a time *)

LEMMA Rewritten ==
  ASSUME NEW r, Row(r)
  PROVE  /\ \A x \in States : Row([r EXCEPT !.state = x])
         /\ \A n \in Nat : Row([r EXCEPT !.state = "connected", !.peer = n])
         /\ \A w \in Seq(Nat) : Row([r EXCEPT !.waiting = w])
         /\ Row([r EXCEPT !.shut_in = TRUE]) /\ Row([r EXCEPT !.shut_out = TRUE])
<1>1. \A x \in States : Row([r EXCEPT !.state = x]) BY DEF Row
<1>2. \A n \in Nat : Row([r EXCEPT !.state = "connected", !.peer = n]) BY DEF Row, States
<1>3. \A w \in Seq(Nat) : Row([r EXCEPT !.waiting = w]) BY DEF Row
<1>4. Row([r EXCEPT !.shut_in = TRUE]) /\ Row([r EXCEPT !.shut_out = TRUE]) BY DEF Row
<1> QED BY <1>1, <1>2, <1>3, <1>4

LEMMA NewRow == Row(Bare)
BY DEF Row, Bare, States, NULL_SOCKET

LEMMA Given ==
  ASSUME NEW F, NEW r \in [flags : F, fd : Nat, blocking : BOOLEAN], NEW n \in Nat, NEW f \in F
  PROVE  /\ [r EXCEPT !.fd = n, !.flags = f] \in [flags : F, fd : Nat, blocking : BOOLEAN]
         /\ [r EXCEPT !.fd = n, !.flags = f].fd = n
         /\ [r EXCEPT !.fd = n, !.flags = f].flags = f
OBVIOUS

\* create: the descriptor is new, and so is nobody's.
Created(so, ds, s, so2, ds2) ==
  /\ "CREATED" \notin so[s].flags /\ "CLOSED" \notin so[s].flags
  /\ ds2 = Append(ds, Bare)
  /\ so2 = [so EXCEPT ![s] = [so[s] EXCEPT !.fd = Len(ds) + 1, !.flags = @ \cup {"CREATED"}]]

LEMMA Opening ==
  ASSUME NEW so, NEW ds, Good(so, ds), NEW s \in Sockets,
         NEW so2, NEW ds2, Created(so, ds, s, so2, ds2)
  PROVE  /\ Good(so2, ds2)
         /\ so2[s].fd # 0 /\ so2[s].fd \in DOMAIN ds2 /\ ds2[so2[s].fd].state = "fresh"
         /\ so2[s].flags = {"CREATED"}
<1> USE DEF Created
<1>1. Objects(so) /\ Rows(ds) /\ Lives(so, ds) /\ Agree(so, ds) /\ Ends(ds) /\ Queues(so, ds)
  BY DEF Good
<1>2. /\ Rows(ds2) /\ Len(ds) \in Nat /\ DOMAIN ds = 1 .. Len(ds) /\ DOMAIN ds2 = 1 .. (Len(ds) + 1)
      /\ \A d \in DOMAIN ds : ds2[d] = ds[d]
      /\ ds2[Len(ds) + 1] = Bare
  BY <1>1, Appended, NewRow
<1>3. /\ Objects(so2)
      /\ so2[s].fd = Len(ds) + 1 /\ so2[s].flags = so[s].flags \cup {"CREATED"}
      /\ \A t \in Sockets \ {s} : so2[t] = so[t]
  <2>1. so[s] \in [flags : SUBSET Flags, fd : Nat, blocking : BOOLEAN] BY <1>1 DEF Objects
  <2>2. so[s].flags \cup {"CREATED"} \in SUBSET Flags BY <2>1 DEF Flags
  <2> DEFINE x == [so[s] EXCEPT !.fd = Len(ds) + 1, !.flags = so[s].flags \cup {"CREATED"}]
  <2>3. /\ x \in [flags : SUBSET Flags, fd : Nat, blocking : BOOLEAN]
        /\ x.fd = Len(ds) + 1 /\ x.flags = so[s].flags \cup {"CREATED"}
    <3>1. Len(ds) + 1 \in Nat BY <1>2
    <3> QED BY <3>1, <2>1, <2>2, Given
  <2> HIDE DEF x
  <2>4. so2 = [so EXCEPT ![s] = x] BY DEF x
  <2> QED BY <1>1, <2>3, <2>4 DEF Objects
<1>4. so[s].flags = {}
  BY <1>1 DEF Lives
<1>5. \A t \in Sockets : so[t].fd # Len(ds) + 1
  BY <1>1, <1>2 DEF Lives, Objects
<1>6. Lives(so2, ds2)
  BY <1>1, <1>2, <1>3, <1>4, <1>5 DEF Lives
<1>7. Agree(so2, ds2)
  BY <1>1, <1>2, <1>3, <1>4 DEF Agree, Bare, Lives
<1>8. Ends(ds2)
  BY <1>1, <1>2 DEF Ends, Bare
<1>9. Queues(so2, ds2)
  <2>1. \A q \in DOMAIN ds2 : \A p \in DOMAIN ds2[q].waiting : q \in DOMAIN ds
    BY <1>2 DEF Bare
  <2> QED BY <2>1, <1>1, <1>2, <1>3 DEF Queues
<1> QED BY <1>2, <1>3, <1>4, <1>6, <1>7, <1>8, <1>9 DEF Good, Bare

\* What waits for an accept keeps waiting while nobody gets it or changes it.
WaitsOn(so, ds, so2, ds2) ==
  /\ DOMAIN ds2 = DOMAIN ds /\ \A d \in DOMAIN ds : ds2[d].waiting = ds[d].waiting
  /\ \A d \in DOMAIN ds :
       ds[d].state = "connected" /\ ~ds[d].shut_out /\ (\A t \in Sockets : so[t].fd # d)
         => ds2[d].state = "connected" /\ ~ds2[d].shut_out /\ \A t \in Sockets : so2[t].fd # d

LEMMA StillWaiting ==
  ASSUME NEW so, NEW ds, NEW so2, NEW ds2, Queues(so, ds), WaitsOn(so, ds, so2, ds2)
  PROVE  Queues(so2, ds2)
<1>0. /\ DOMAIN ds2 = DOMAIN ds /\ \A d \in DOMAIN ds : ds2[d].waiting = ds[d].waiting
      /\ \A d \in DOMAIN ds :
           ds[d].state = "connected" /\ ~ds[d].shut_out /\ (\A t \in Sockets : so[t].fd # d)
             => ds2[d].state = "connected" /\ ~ds2[d].shut_out /\ \A t \in Sockets : so2[t].fd # d
  BY DEF WaitsOn
<1> SUFFICES ASSUME NEW q \in DOMAIN ds, NEW p \in DOMAIN ds[q].waiting,
                    NEW d, d = ds[q].waiting[p]
             PROVE  /\ d \in DOMAIN ds /\ ds2[d].state = "connected" /\ ~ds2[d].shut_out
                    /\ \A t \in Sockets : so2[t].fd # d
                    /\ \A r \in DOMAIN ds : \A o \in DOMAIN ds[r].waiting :
                         ds[r].waiting[o] = d => r = q /\ o = p
  BY <1>0 DEF Queues
<1>1. /\ d \in DOMAIN ds /\ ds[d].state = "connected" /\ ~ds[d].shut_out
      /\ \A t \in Sockets : so[t].fd # d
      /\ \A r \in DOMAIN ds : \A o \in DOMAIN ds[r].waiting :
           ds[r].waiting[o] = d => r = q /\ o = p
  BY DEF Queues
<1> QED BY <1>0, <1>1

\* bind and listen: the descriptor of a socket moves on, and a flag with it.
LEMMA Marking ==
  ASSUME NEW so, NEW ds, Good(so, ds), NEW s \in Sockets, so[s].fd # 0,
         NEW flag \in {"BINDED", "LISTENING"}, NEW state,
         \/ flag = "BINDED" /\ state = "bound" /\ ds[so[s].fd].state = "fresh"
         \/ flag = "LISTENING" /\ state = "listening" /\ ds[so[s].fd].state \in {"bound", "listening"},
         NEW so2, NEW ds2, ds2 = [ds EXCEPT ![so[s].fd].state = state],
         so2 = [so EXCEPT ![s].flags = @ \cup {flag}]
  PROVE  Good(so2, ds2)
<1>1. Objects(so) /\ Rows(ds) /\ Lives(so, ds) /\ Agree(so, ds) /\ Ends(ds) /\ Queues(so, ds)
  BY DEF Good
<1> DEFINE k == so[s].fd
<1>2. k \in DOMAIN ds /\ ds[k].state # "connected" BY <1>1 DEF Lives
<1>3. Row([ds[k] EXCEPT !.state = state]) BY <1>1, <1>2, Rewritten DEF Rows, States
<1>4. /\ Rows(ds2) /\ DOMAIN ds2 = DOMAIN ds
      /\ \A d \in DOMAIN ds : ds2[d] = IF d = k THEN [ds[k] EXCEPT !.state = state] ELSE ds[d]
  BY <1>1, <1>2, <1>3, Changed
<1>5. \A d \in DOMAIN ds :
        /\ ds2[d].state = IF d = k THEN state ELSE ds[d].state
        /\ ds2[d].peer = ds[d].peer /\ ds2[d].waiting = ds[d].waiting /\ ds2[d].shut_out = ds[d].shut_out
  BY <1>1, <1>4 DEF Rows, Row
<1>6. /\ Objects(so2)
      /\ so2[s].fd = k /\ so2[s].flags = so[s].flags \cup {flag}
      /\ \A t \in Sockets \ {s} : so2[t] = so[t]
  BY <1>1 DEF Objects, Flags
<1>7. Lives(so2, ds2) BY <1>1, <1>4, <1>6 DEF Lives
<1>8. Agree(so2, ds2)
  <2> SUFFICES ASSUME NEW t \in Sockets, so2[t].fd # 0
               PROVE  /\ "CONNECTED" \in so2[t].flags => ds2[so2[t].fd].state = "connected"
                      /\ "LISTENING" \in so2[t].flags <=> ds2[so2[t].fd].state = "listening"
                      /\ "BINDED" \in so2[t].flags <=> ds2[so2[t].fd].state \in {"bound", "listening"}
                      /\ "SHUTDOWN_OUT" \in so2[t].flags <=> ds2[so2[t].fd].shut_out
    BY DEF Agree
  <2>1. CASE t = s
    <3>1. /\ "CONNECTED" \in so[s].flags => ds[k].state = "connected"
          /\ "LISTENING" \in so[s].flags <=> ds[k].state = "listening"
          /\ "BINDED" \in so[s].flags <=> ds[k].state \in {"bound", "listening"}
          /\ "SHUTDOWN_OUT" \in so[s].flags <=> ds[k].shut_out
      BY <1>1 DEF Agree
    <3>2. ds2[k].state = state /\ ds2[k].shut_out = ds[k].shut_out BY <1>2, <1>5
    <3>3. \A f : f \in so2[s].flags <=> f \in so[s].flags \/ f = flag BY <1>6
    <3> HIDE DEF k
    <3>4. CASE flag = "BINDED" /\ state = "bound" /\ ds[k].state = "fresh"
      BY <3>1, <3>2, <3>3, <3>4, <2>1, <1>6
    <3>5. CASE flag = "LISTENING" /\ state = "listening" /\ ds[k].state \in {"bound", "listening"}
      BY <3>1, <3>2, <3>3, <3>5, <2>1, <1>6
    <3> QED BY <3>4, <3>5 DEF k
  <2>2. CASE t # s
    <3>1. so[t].fd # k /\ so[t].fd \in DOMAIN ds BY <2>2, <1>1, <1>6 DEF Lives
    <3> QED BY <2>2, <3>1, <1>1, <1>5, <1>6 DEF Agree
  <2> QED BY <2>1, <2>2
<1>9. Ends(ds2) BY <1>1, <1>2, <1>4, <1>5 DEF Ends
<1>10. Queues(so2, ds2)
  <2>1. \A d \in DOMAIN ds : (\A t \in Sockets : so[t].fd # d)
          => d # k /\ \A t \in Sockets : so2[t].fd # d
    BY <1>6
  <2> HIDE DEF k
  <2>2. \A d \in DOMAIN ds : d # k => ds2[d].state = ds[d].state /\ ds2[d].shut_out = ds[d].shut_out
    BY <1>5
  <2>3. \A d \in DOMAIN ds :
          ds[d].state = "connected" /\ ~ds[d].shut_out /\ (\A t \in Sockets : so[t].fd # d)
            => ds2[d].state = "connected" /\ ~ds2[d].shut_out /\ \A t \in Sockets : so2[t].fd # d
    BY <2>1, <2>2
  <2>4. Queues(so, ds) /\ DOMAIN ds2 = DOMAIN ds /\ \A d \in DOMAIN ds : ds2[d].waiting = ds[d].waiting
    BY <1>1, <1>4, <1>5
  <2>5. WaitsOn(so, ds, so2, ds2) BY <2>3, <2>4 DEF WaitsOn
  <2> QED BY <2>4, <2>5, StillWaiting
<1> QED BY <1>4, <1>6, <1>7, <1>8, <1>9, <1>10 DEF Good

\* A call that leaves the objects alone and only puts bytes on the way.
LEMMA Moving ==
  ASSUME NEW so, NEW ds, Good(so, ds), NEW k \in DOMAIN ds, NEW bytes,
         NEW ds2, ds2 = [ds EXCEPT ![k].inbox = bytes]
  PROVE  Good(so, ds2)
<1>1. Objects(so) /\ Rows(ds) /\ Lives(so, ds) /\ Agree(so, ds) /\ Ends(ds) /\ Queues(so, ds)
  BY DEF Good
<1>2. Row([ds[k] EXCEPT !.inbox = bytes]) BY <1>1 DEF Rows, Row
<1>3. /\ Rows(ds2) /\ DOMAIN ds2 = DOMAIN ds
      /\ \A d \in DOMAIN ds : ds2[d] = IF d = k THEN [ds[k] EXCEPT !.inbox = bytes] ELSE ds[d]
  BY <1>1, <1>2, Changed
<1>4. \A d \in DOMAIN ds :
        /\ ds2[d].state = ds[d].state /\ ds2[d].peer = ds[d].peer
        /\ ds2[d].waiting = ds[d].waiting /\ ds2[d].shut_out = ds[d].shut_out
  BY <1>1, <1>3 DEF Rows, Row
<1>5. Lives(so, ds2) BY <1>1, <1>3 DEF Lives
<1>6. Agree(so, ds2) BY <1>1, <1>4 DEF Agree, Lives
<1>7. Ends(ds2) BY <1>1, <1>3, <1>4 DEF Ends
<1>8. Queues(so, ds2) BY <1>1, <1>3, <1>4 DEF Queues
<1> QED BY <1>1, <1>3, <1>5, <1>6, <1>7, <1>8 DEF Good

\* The descriptor k and a new one become the ends of a connection, and the
\* new one waits at l.
Coupled(ds, k, l, there, ds2) ==
  /\ Len(ds) \in Nat /\ there = Len(ds) + 1 /\ DOMAIN ds = 1 .. Len(ds)
  /\ Rows(ds2) /\ DOMAIN ds2 = 1 .. there
  /\ \A d \in 1 .. there :
       /\ d \in {k, there} => ds2[d].state = "connected"
       /\ d \notin {k, there} => ds2[d].state = ds[d].state /\ ds2[d].peer = ds[d].peer
       /\ d \notin {l, there} => ds2[d].waiting = ds[d].waiting
       /\ d # there => ds2[d].shut_out = ds[d].shut_out /\ ds2[d].inbox = ds[d].inbox
  /\ ds2[k].peer = there /\ ds2[there].peer = k /\ ~ds2[there].shut_out /\ ds2[there].inbox = << >>
  /\ ds2[there].waiting = << >> /\ ds2[l].waiting = Append(ds[l].waiting, there)

LEMMA Coupling ==
  ASSUME NEW ds, Rows(ds), NEW k \in DOMAIN ds, NEW l \in DOMAIN ds, k # l, k \in Nat
  PROVE  Coupled(ds, k, l, Len(ds) + 1, Connected(ds, k, l))
<1> DEFINE there == Len(ds) + 1
<1> DEFINE new == [Bare EXCEPT !.state = "connected", !.peer = k]
<1> DEFINE ds3 == Append(ds, new)
<1> DEFINE ds4 == [ds3 EXCEPT ![k] = [ds[k] EXCEPT !.state = "connected", !.peer = there]]
<1> DEFINE ds5 == [ds4 EXCEPT ![l] = [ds[l] EXCEPT !.waiting = Append(@, there)]]
<1>3. /\ Row(new) /\ new.state = "connected" /\ new.peer = k /\ new.waiting = << >> /\ ~new.shut_out
      /\ new.inbox = << >>
  BY NewRow DEF Row, Bare, States
<1>4. /\ Rows(ds3) /\ there \in Nat /\ Len(ds) \in Nat
      /\ DOMAIN ds = 1 .. Len(ds) /\ DOMAIN ds3 = 1 .. there
      /\ \A d \in DOMAIN ds : ds3[d] = ds[d]
      /\ ds3[there] = new
  <2> HIDE DEF new
  <2> QED BY <1>3, Appended
<1>5. /\ Rows(ds4) /\ DOMAIN ds4 = 1 .. there
      /\ \A d \in 1 .. there :
           ds4[d] = IF d = k THEN [ds[k] EXCEPT !.state = "connected", !.peer = there] ELSE ds3[d]
  <2>1. Row([ds[k] EXCEPT !.state = "connected", !.peer = there])
    BY <1>4, Rewritten DEF Rows
  <2> HIDE DEF ds3, there
  <2>2. k \in DOMAIN ds3 BY <1>4 DEF there
  <2> QED BY <1>4, <2>1, <2>2, Changed
<1>6. /\ Rows(ds5) /\ DOMAIN ds5 = 1 .. there
      /\ \A d \in 1 .. there :
           ds5[d] = IF d = l THEN [ds[l] EXCEPT !.waiting = Append(@, there)] ELSE ds4[d]
  <2>1. Row([ds[l] EXCEPT !.waiting = Append(ds[l].waiting, there)])
    <3>1. Row(ds[l]) /\ ds[l].waiting \in Seq(Nat) BY DEF Rows, Row
    <3>2. Append(ds[l].waiting, there) \in Seq(Nat) BY <3>1, <1>4
    <3> QED BY <3>1, <3>2, Rewritten
  <2> HIDE DEF ds4, there
  <2>2. l \in DOMAIN ds4 BY <1>4, <1>5 DEF there
  <2> QED BY <1>5, <2>1, <2>2, Changed
<1> DEFINE ds2 == Connected(ds, k, l)
<1>7. ds2 = ds5
  <2> HIDE DEF new
  <2>1. Connected(ds, k, l) = [ds3 EXCEPT ![k].state = "connected", ![k].peer = there,
                                          ![l].waiting = Append(@, there)]
    BY DEF Connected, new
  <2>2. ds3[k] = ds[k] /\ ds3[l] = ds[l] /\ k \in DOMAIN ds3 /\ l \in DOMAIN ds3 BY <1>4
  <2> HIDE DEF ds3, there
  <2> QED BY <2>1, <2>2
<1> HIDE DEF ds2, ds5, ds4, ds3, new
<1> DEFINE x == [ds[k] EXCEPT !.state = "connected", !.peer = there]
<1> DEFINE y == [ds[l] EXCEPT !.waiting = Append(ds[l].waiting, there)]
<1>rows. /\ l # there /\ k # there /\ k \in 1 .. there /\ l \in 1 .. there /\ there \in 1 .. there
      /\ ds2[k] = x /\ ds2[l] = y /\ ds2[there] = new
      /\ \A d \in 1 .. there : d \notin {k, l, there} => d \in DOMAIN ds /\ ds2[d] = ds[d]
  <2>1. l # there /\ k # there /\ k \in 1 .. there /\ l \in 1 .. there /\ there \in 1 .. there
    BY <1>4
  <2>2. \A d \in 1 .. there : d # there => d \in DOMAIN ds BY <1>4
  <2> HIDE DEF there
  <2>3. ds2[k] = x /\ ds2[l] = ds5[l] /\ ds2[there] = new
    BY <2>1, <1>4, <1>5, <1>6, <1>7
  <2>4. ds5[l] = y BY <2>1, <1>6
  <2>5. \A d \in 1 .. there : d \notin {k, l, there} => d \in DOMAIN ds /\ ds2[d] = ds[d]
    BY <2>2, <1>4, <1>5, <1>6, <1>7
  <2> QED BY <2>1, <2>3, <2>4, <2>5
<1>x. /\ x.state = "connected" /\ x.peer = there /\ x.waiting = ds[k].waiting
      /\ x.shut_out = ds[k].shut_out /\ x.inbox = ds[k].inbox
  <2> HIDE DEF there
  <2>1. Row(ds[k]) BY DEF Rows
  <2> QED BY <2>1 DEF Row
<1>y. /\ y.state = ds[l].state /\ y.peer = ds[l].peer /\ y.shut_out = ds[l].shut_out
      /\ y.waiting = Append(ds[l].waiting, there) /\ y.inbox = ds[l].inbox
  <2> HIDE DEF there
  <2>1. Row(ds[l]) BY DEF Rows
  <2> QED BY <2>1 DEF Row
<1> HIDE DEF x, y
<1>8. \A d \in 1 .. there :
        /\ d \in {k, there} => ds2[d].state = "connected"
        /\ d \notin {k, there} => ds2[d].state = ds[d].state /\ ds2[d].peer = ds[d].peer
        /\ d \notin {l, there} => ds2[d].waiting = ds[d].waiting
        /\ d # there => ds2[d].shut_out = ds[d].shut_out /\ ds2[d].inbox = ds[d].inbox
  <2> HIDE DEF there
  <2> QED BY <1>3, <1>rows, <1>x, <1>y
<1>9. /\ ds2[k].peer = there /\ ds2[there].peer = k /\ ~ds2[there].shut_out
      /\ ds2[there].inbox = << >>
      /\ ds2[there].waiting = << >> /\ ds2[l].waiting = Append(ds[l].waiting, there)
  BY <1>3, <1>rows, <1>x, <1>y
<1> QED BY <1>4, <1>6, <1>7, <1>8, <1>9 DEF Coupled, ds2

\* ::connect: the descriptor of the socket and a new one that waits at the
\* listener become the ends of a connection, whether the flag follows or not.
LEMMA Connecting ==
  ASSUME NEW so, NEW ds, Good(so, ds), NEW s \in Sockets, so[s].fd # 0,
         ds[so[s].fd].state = "fresh",
         NEW l \in DOMAIN ds, ds[l].state = "listening",
         NEW so2, NEW ds2, ds2 = Connected(ds, so[s].fd, l),
         so2 = [so EXCEPT ![s].flags = @ \cup {"CONNECTED"}] \/ so2 = so
  PROVE  Good(so2, ds2)
<1>1. Objects(so) /\ Rows(ds) /\ Lives(so, ds) /\ Agree(so, ds) /\ Ends(ds) /\ Queues(so, ds)
  BY DEF Good
<1> DEFINE k == so[s].fd
<1> DEFINE there == Len(ds) + 1
<1>2. k \in DOMAIN ds /\ k # l /\ k \in Nat BY <1>1 DEF Lives, Objects
<1>3. Coupled(ds, k, l, there, ds2)
  <2> HIDE DEF k
  <2>1. Coupled(ds, k, l, Len(ds) + 1, Connected(ds, k, l)) BY <1>1, <1>2, Coupling
  <2> QED BY <2>1 DEF k
<1>4. there \in Nat /\ Len(ds) \in Nat /\ DOMAIN ds = 1 .. Len(ds) BY <1>3 DEF Coupled
<1>6. Rows(ds2) /\ DOMAIN ds2 = 1 .. there BY <1>3 DEF Coupled
<1>rows. l # there /\ k # there /\ k \in 1 .. there /\ l \in 1 .. there /\ there \in 1 .. there
  BY <1>2, <1>4
<1>8. \A d \in 1 .. there :
        /\ d \in {k, there} => ds2[d].state = "connected"
        /\ d \notin {k, there} => ds2[d].state = ds[d].state /\ ds2[d].peer = ds[d].peer
        /\ d \notin {l, there} => ds2[d].waiting = ds[d].waiting
        /\ d # there => ds2[d].shut_out = ds[d].shut_out
  BY <1>3 DEF Coupled
<1>9. /\ ds2[k].peer = there /\ ds2[there].peer = k /\ ~ds2[there].shut_out
      /\ ds2[there].waiting = << >> /\ ds2[l].waiting = Append(ds[l].waiting, there)
  BY <1>3 DEF Coupled
<1>10. /\ Objects(so2)
       /\ so2[s].fd = k
       /\ so2[s].flags = so[s].flags \cup {"CONNECTED"} \/ so2[s].flags = so[s].flags
       /\ \A t \in Sockets \ {s} : so2[t] = so[t]
  BY <1>1 DEF Objects, Flags
<1>11. /\ \A t \in Sockets : so[t].fd # there
       /\ "CREATED" \in so[s].flags /\ "CLOSED" \notin so[s].flags
  BY <1>1, <1>4 DEF Lives, Objects
<1>12. Lives(so2, ds2)
  BY <1>1, <1>4, <1>6, <1>10, <1>11 DEF Lives
<1>13. Agree(so2, ds2)
  <2> SUFFICES ASSUME NEW t \in Sockets, so2[t].fd # 0
               PROVE  /\ "CONNECTED" \in so2[t].flags => ds2[so2[t].fd].state = "connected"
                      /\ "LISTENING" \in so2[t].flags <=> ds2[so2[t].fd].state = "listening"
                      /\ "BINDED" \in so2[t].flags <=> ds2[so2[t].fd].state \in {"bound", "listening"}
                      /\ "SHUTDOWN_OUT" \in so2[t].flags <=> ds2[so2[t].fd].shut_out
    BY DEF Agree
  <2>1. CASE t = s
    <3>1. /\ "LISTENING" \notin so[s].flags /\ "BINDED" \notin so[s].flags
          /\ "SHUTDOWN_OUT" \in so[s].flags <=> ds[k].shut_out
      BY <1>1 DEF Agree
    <3>2. ds2[k].state = "connected" /\ ds2[k].shut_out = ds[k].shut_out
      BY <1>2, <1>4, <1>8
    <3> HIDE DEF k
    <3> QED BY <3>1, <3>2, <2>1, <1>10
  <2>2. CASE t # s
    <3>1. so[t].fd # k /\ so[t].fd \in DOMAIN ds /\ so[t].fd # there
      BY <2>2, <1>1, <1>10, <1>11 DEF Lives
    <3>2. ds2[so[t].fd].state = ds[so[t].fd].state /\ ds2[so[t].fd].shut_out = ds[so[t].fd].shut_out
      BY <3>1, <1>4, <1>8
    <3> QED BY <2>2, <3>2, <1>1, <1>10 DEF Agree
  <2> QED BY <2>1, <2>2
<1>14. Ends(ds2)
  <2> SUFFICES ASSUME NEW d \in 1 .. there, ds2[d].state = "connected"
               PROVE  /\ ds2[d].peer \in 1 .. there
                      /\ ds2[ds2[d].peer].peer = d /\ ds2[ds2[d].peer].state = "connected"
    BY <1>6 DEF Ends
  <2>1. CASE d \in {k, there} BY <2>1, <1>rows, <1>8, <1>9
  <2>2. CASE d \notin {k, there}
    <3>1. d \in DOMAIN ds /\ ds2[d].peer = ds[d].peer /\ ds[d].state = "connected"
      BY <2>2, <1>4, <1>8
    <3>2. /\ ds[d].peer \in DOMAIN ds /\ ds[ds[d].peer].peer = d
          /\ ds[ds[d].peer].state = "connected" /\ ds[d].peer # k
      BY <3>1, <1>1 DEF Ends
    <3>3. ds[d].peer \in 1 .. there /\ ds[d].peer # there BY <3>2, <1>4
    <3> QED BY <3>1, <3>2, <3>3, <1>8
  <2> QED BY <2>1, <2>2
<1>15. /\ ds[l].waiting \in Seq(Nat) /\ Len(ds[l].waiting) \in Nat
       /\ \A p \in DOMAIN ds2[l].waiting :
            IF p = Len(ds[l].waiting) + 1 THEN ds2[l].waiting[p] = there
            ELSE p \in DOMAIN ds[l].waiting /\ ds2[l].waiting[p] = ds[l].waiting[p]
  <2>1. ds[l].waiting \in Seq(Nat) BY <1>1 DEF Rows, Row
  <2> HIDE DEF there
  <2> QED BY <2>1, <1>4, <1>9
<1>16. \A q \in DOMAIN ds2 : \A p \in DOMAIN ds2[q].waiting :
         \/ q = l /\ p = Len(ds[l].waiting) + 1 /\ ds2[q].waiting[p] = there
         \/ /\ q \in DOMAIN ds /\ p \in DOMAIN ds[q].waiting
            /\ ds2[q].waiting[p] = ds[q].waiting[p] /\ ds2[q].waiting[p] \in DOMAIN ds
  <2> SUFFICES ASSUME NEW q \in DOMAIN ds2, NEW p \in DOMAIN ds2[q].waiting
               PROVE  \/ q = l /\ p = Len(ds[l].waiting) + 1 /\ ds2[q].waiting[p] = there
                      \/ /\ q \in DOMAIN ds /\ p \in DOMAIN ds[q].waiting
                         /\ ds2[q].waiting[p] = ds[q].waiting[p] /\ ds2[q].waiting[p] \in DOMAIN ds
    OBVIOUS
  <2>1. q # there BY <1>9
  <2>2. q \in DOMAIN ds BY <2>1, <1>4, <1>6
  <2>3. CASE q = l BY <2>3, <2>2, <1>15, <1>1 DEF Queues
  <2>4. CASE q # l BY <2>4, <2>1, <2>2, <1>1, <1>4, <1>8 DEF Queues
  <2> QED BY <2>3, <2>4
<1>17. \A d \in DOMAIN ds : d # there /\ d \in DOMAIN ds2 BY <1>4, <1>6
<1>18. there \in DOMAIN ds2 BY <1>4, <1>6
<1>19. \A q \in DOMAIN ds : \A p \in DOMAIN ds[q].waiting : ds[q].waiting[p] # k
  BY <1>1 DEF Queues
<1>20. Queues(so2, ds2)
  <2> SUFFICES ASSUME NEW q \in DOMAIN ds2, NEW p \in DOMAIN ds2[q].waiting, NEW d, d = ds2[q].waiting[p]
               PROVE  /\ d \in DOMAIN ds2 /\ ds2[d].state = "connected" /\ ~ds2[d].shut_out
                      /\ \A t \in Sockets : so2[t].fd # d
                      /\ \A r \in DOMAIN ds2 : \A o \in DOMAIN ds2[r].waiting :
                           ds2[r].waiting[o] = d => r = q /\ o = p
    BY DEF Queues
  <2> HIDE DEF there
  <2>1. CASE q = l /\ p = Len(ds[l].waiting) + 1 /\ d = there
    <3>1. ds2[there].state = "connected" /\ ~ds2[there].shut_out /\ there \in DOMAIN ds2
      BY <1>6, <1>8, <1>9, <1>18
    <3>2. \A t \in Sockets : so2[t].fd # there BY <1>10, <1>11, <1>17, <1>6
    <3>3. \A r \in DOMAIN ds2 : \A o \in DOMAIN ds2[r].waiting :
            ds2[r].waiting[o] = there => r = l /\ o = Len(ds[l].waiting) + 1
      BY <1>16, <1>17
    <3> QED BY <2>1, <3>1, <3>2, <3>3
  <2>2. CASE q \in DOMAIN ds /\ p \in DOMAIN ds[q].waiting /\ d = ds[q].waiting[p] /\ d \in DOMAIN ds
    <3>1. /\ ds[d].state = "connected" /\ ~ds[d].shut_out
          /\ \A t \in Sockets : so[t].fd # d
          /\ \A r \in DOMAIN ds : \A o \in DOMAIN ds[r].waiting :
               ds[r].waiting[o] = d => r = q /\ o = p
      BY <2>2, <1>1 DEF Queues
    <3>2. d # there /\ d # k /\ d \in DOMAIN ds2 /\ d \in 1 .. there BY <2>2, <1>6, <1>17, <1>19
    <3>3. ds2[d].state = "connected" /\ ~ds2[d].shut_out BY <3>1, <3>2, <1>8
    <3>4. \A t \in Sockets : so2[t].fd # d BY <3>1, <3>2, <1>10
    <3>5. \A r \in DOMAIN ds2 : \A o \in DOMAIN ds2[r].waiting :
            ds2[r].waiting[o] = d => r = q /\ o = p
      BY <3>1, <3>2, <1>16
    <3> QED BY <3>2, <3>3, <3>4, <3>5
  <2> QED BY <2>1, <2>2, <1>16
<1> QED BY <1>6, <1>10, <1>12, <1>13, <1>14, <1>20 DEF Good

\* A connection made by a call that threw gets its flag.
LEMMA Flagged ==
  ASSUME NEW so, NEW ds, Good(so, ds), NEW s \in Sockets, so[s].fd # 0,
         ds[so[s].fd].state = "connected",
         NEW so2, so2 = [so EXCEPT ![s].flags = @ \cup {"CONNECTED"}]
  PROVE  Good(so2, ds)
<1>1. Objects(so) /\ Rows(ds) /\ Lives(so, ds) /\ Agree(so, ds) /\ Ends(ds) /\ Queues(so, ds)
  BY DEF Good
<1>2. /\ Objects(so2) /\ so2[s].fd = so[s].fd /\ so2[s].flags = so[s].flags \cup {"CONNECTED"}
      /\ \A t \in Sockets \ {s} : so2[t] = so[t]
  BY <1>1 DEF Objects, Flags
<1>3. Lives(so2, ds) BY <1>1, <1>2 DEF Lives
<1>4. Agree(so2, ds) BY <1>1, <1>2 DEF Agree
<1>5. Queues(so2, ds) BY <1>1, <1>2 DEF Queues
<1> QED BY <1>1, <1>2, <1>3, <1>4, <1>5 DEF Good

\* A connection leaves its queue for a new object.
First(so, ds, k, h) ==
  /\ 1 \in DOMAIN ds[k].waiting /\ ds[k].waiting[1] = h
  /\ ds[h].state = "connected" /\ ~ds[h].shut_out
  /\ \A t \in Sockets : so[t].fd # h
  /\ \A q \in DOMAIN ds : \A o \in DOMAIN ds[q].waiting : ds[q].waiting[o] = h => q = k /\ o = 1
SameEnds(ds, ds2) == \A d \in DOMAIN ds :
  /\ ds2[d].state = ds[d].state /\ ds2[d].peer = ds[d].peer
  /\ ds2[d].shut_out = ds[d].shut_out /\ ds2[d].inbox = ds[d].inbox
Popped(ds, ds2, k) == \A q \in DOMAIN ds2 : \A p \in DOMAIN ds2[q].waiting :
  \/ q # k /\ p \in DOMAIN ds[q].waiting /\ ds2[q].waiting[p] = ds[q].waiting[p]
  \/ /\ q = k /\ p + 1 \in DOMAIN ds[q].waiting /\ p + 1 # 1 /\ p \in Nat
     /\ ds2[q].waiting[p] = ds[q].waiting[p + 1]

Handed(so, ds, so2, ds2, c, k, h) ==
  /\ k \in DOMAIN ds /\ h \in DOMAIN ds /\ h # 0 /\ c \in Sockets /\ so[c].fd = 0
  /\ Objects(so2) /\ Rows(ds2) /\ DOMAIN ds2 = DOMAIN ds
  /\ so2[c].fd = h /\ so2[c].flags = {"CREATED", "CONNECTED"}
  /\ \A t \in Sockets \ {c} : so2[t] = so[t]
  /\ First(so, ds, k, h) /\ SameEnds(ds, ds2) /\ Popped(ds, ds2, k)

LEMMA Handing ==
  ASSUME NEW so, NEW ds, Good(so, ds), NEW so2, NEW ds2, NEW c, NEW k, NEW h,
         Handed(so, ds, so2, ds2, c, k, h)
  PROVE  Good(so2, ds2)
<1>1. Lives(so, ds) /\ Agree(so, ds) /\ Ends(ds) /\ Queues(so, ds)
  BY DEF Good
<1> USE DEF Handed, First, SameEnds, Popped
<1>2. Lives(so2, ds2)
  <2> SUFFICES ASSUME NEW t \in Sockets
               PROVE  /\ so2[t].fd # 0 <=> "CREATED" \in so2[t].flags /\ "CLOSED" \notin so2[t].flags
                      /\ so2[t].fd # 0 => so2[t].fd \in DOMAIN ds2
                      /\ "CREATED" \notin so2[t].flags => so2[t].flags \subseteq {"CLOSED"}
                      /\ "CLOSED" \in so2[t].flags => "CONNECTED" \notin so2[t].flags
                      /\ \A u \in Sockets \ {t} : so2[t].fd # 0 => so2[u].fd # so2[t].fd
    BY DEF Lives
  <2>1. CASE t = c BY <2>1
  <2>2. CASE t # c BY <2>2, <1>1 DEF Lives
  <2> QED BY <2>1, <2>2
<1>3. Agree(so2, ds2)
  <2> SUFFICES ASSUME NEW t \in Sockets, so2[t].fd # 0
               PROVE  /\ "CONNECTED" \in so2[t].flags => ds2[so2[t].fd].state = "connected"
                      /\ "LISTENING" \in so2[t].flags <=> ds2[so2[t].fd].state = "listening"
                      /\ "BINDED" \in so2[t].flags <=> ds2[so2[t].fd].state \in {"bound", "listening"}
                      /\ "SHUTDOWN_OUT" \in so2[t].flags <=> ds2[so2[t].fd].shut_out
    BY DEF Agree
  <2>1. CASE t = c
    <3>1. ds2[h].state = "connected" /\ ~ds2[h].shut_out OBVIOUS
    <3> QED BY <3>1, <2>1
  <2>2. CASE t # c
    <3>1. so2[t] = so[t] /\ so[t].fd # 0 /\ so[t].fd \in DOMAIN ds BY <2>2, <1>1 DEF Lives
    <3>2. ds2[so[t].fd].state = ds[so[t].fd].state /\ ds2[so[t].fd].shut_out = ds[so[t].fd].shut_out
      BY <3>1
    <3> QED BY <3>1, <3>2, <1>1 DEF Agree
  <2> QED BY <2>1, <2>2
<1>4. Ends(ds2) BY <1>1 DEF Ends
<1>5. Queues(so2, ds2)
  <2> SUFFICES ASSUME NEW q \in DOMAIN ds2, NEW p \in DOMAIN ds2[q].waiting, NEW d, d = ds2[q].waiting[p]
               PROVE  /\ d \in DOMAIN ds2 /\ ds2[d].state = "connected" /\ ~ds2[d].shut_out
                      /\ \A t \in Sockets : so2[t].fd # d
                      /\ \A o \in DOMAIN ds2 : \A u \in DOMAIN ds2[o].waiting :
                           ds2[o].waiting[u] = d => o = q /\ u = p
    BY DEF Queues
  <2>1. PICK i \in DOMAIN ds[q].waiting :
          /\ d = ds[q].waiting[i] /\ q \in DOMAIN ds
          /\ \/ q # k /\ i = p
             \/ q = k /\ i = p + 1 /\ i # 1 /\ p \in Nat
    OBVIOUS
  <2>2. /\ d \in DOMAIN ds /\ ds[d].state = "connected" /\ ~ds[d].shut_out
        /\ \A t \in Sockets : so[t].fd # d
        /\ \A o \in DOMAIN ds : \A u \in DOMAIN ds[o].waiting :
             ds[o].waiting[u] = d => o = q /\ u = i
    BY <2>1, <1>1 DEF Queues
  <2>3. d # h BY <2>1
  <2>4. \A t \in Sockets : so2[t].fd # d BY <2>2, <2>3
  <2>5. \A o \in DOMAIN ds2 : \A u \in DOMAIN ds2[o].waiting :
          ds2[o].waiting[u] = d => o = q /\ u = p
    <3> SUFFICES ASSUME NEW o \in DOMAIN ds2, NEW u \in DOMAIN ds2[o].waiting,
                        ds2[o].waiting[u] = d
                 PROVE  o = q /\ u = p
      OBVIOUS
    <3>1. CASE o # k
      <4>1. u \in DOMAIN ds[o].waiting /\ ds[o].waiting[u] = d /\ o \in DOMAIN ds BY <3>1
      <4>2. o = q /\ u = i BY <4>1, <2>2
      <4> QED BY <3>1, <4>2, <2>1
    <3>2. CASE o = k
      <4>1. u + 1 \in DOMAIN ds[k].waiting /\ u \in Nat /\ ds[k].waiting[u + 1] = d BY <3>2
      <4>2. k = q /\ u + 1 = i BY <4>1, <2>2
      <4> QED BY <3>2, <4>1, <4>2, <2>1
    <3> QED BY <3>1, <3>2
  <2> QED BY <2>2, <2>4, <2>5
<1> QED BY <1>2, <1>3, <1>4, <1>5 DEF Good

\* What accept does: c takes the first descriptor that waits at the socket s.
Accepted(so, ds, s, c, so2, ds2) ==
  /\ so[s].fd # 0 /\ ds[so[s].fd].waiting # << >> /\ so[c] = Fresh
  /\ ds2 = [ds EXCEPT ![so[s].fd].waiting = Tail(@)]
  /\ so2 = [so EXCEPT ![c].fd = Head(ds[so[s].fd].waiting),
                      ![c].flags = @ \cup {"CREATED", "CONNECTED"}]

\* accept: the connection that has waited longest gets an owner.
LEMMA Accepting ==
  ASSUME NEW so, NEW ds, Good(so, ds), NEW s \in Sockets, NEW c \in Sockets,
         NEW so2, NEW ds2, Accepted(so, ds, s, c, so2, ds2)
  PROVE  Handed(so, ds, so2, ds2, c, so[s].fd, Head(ds[so[s].fd].waiting))
<1> USE DEF Accepted
<1>1. Objects(so) /\ Rows(ds) /\ Lives(so, ds) /\ Agree(so, ds) /\ Ends(ds) /\ Queues(so, ds)
  BY DEF Good
<1> DEFINE k == so[s].fd
<1> DEFINE w == ds[k].waiting
<1> DEFINE h == Head(w)
<1> DEFINE r == [ds[k] EXCEPT !.waiting = Tail(w)]
<1>2. k \in DOMAIN ds /\ Row(ds[k]) /\ w \in Seq(Nat) BY <1>1 DEF Lives, Rows, Row
<1>3. /\ 1 \in DOMAIN w /\ h = w[1] /\ h \in Nat /\ Tail(w) \in Seq(Nat)
      /\ \A p \in DOMAIN Tail(w) : p + 1 \in DOMAIN w /\ p + 1 # 1 /\ Tail(w)[p] = w[p + 1] /\ p \in Nat
  <2> HIDE DEF w
  <2>1. w # << >> BY DEF w
  <2> QED BY <1>2, <2>1
<1>4. Row(r) BY <1>2, <1>3, Rewritten
<1>5. /\ Rows(ds2) /\ DOMAIN ds2 = DOMAIN ds
      /\ \A d \in DOMAIN ds : ds2[d] = IF d = k THEN r ELSE ds[d]
  BY <1>1, <1>2, <1>4, Changed
<1>6. \A d \in DOMAIN ds :
        /\ ds2[d].state = ds[d].state /\ ds2[d].peer = ds[d].peer
        /\ ds2[d].shut_out = ds[d].shut_out /\ ds2[d].inbox = ds[d].inbox
        /\ d # k => ds2[d].waiting = ds[d].waiting
  <2>1. /\ r.state = ds[k].state /\ r.peer = ds[k].peer
        /\ r.shut_out = ds[k].shut_out /\ r.inbox = ds[k].inbox
    BY <1>2 DEF Row
  <2> HIDE DEF r
  <2> QED BY <1>5, <2>1
<1>7. ds2[k].waiting = Tail(w) BY <1>2, <1>5 DEF Row
<1>8. h \in DOMAIN ds /\ h # 0 /\ First(so, ds, k, h)
  <2>1. \A d \in DOMAIN ds : d # 0 BY <1>1 DEF Rows
  <2> QED BY <1>1, <1>2, <1>3, <2>1 DEF Queues, First
<1>9. /\ Objects(so2) /\ so2[c].fd = h /\ so2[c].flags = {"CREATED", "CONNECTED"}
      /\ \A t \in Sockets \ {c} : so2[t] = so[t]
  <2> DEFINE x == [so[c] EXCEPT !.fd = h, !.flags = {"CREATED", "CONNECTED"}]
  <2>1. so[c].flags = {} /\ so[c] \in [flags : SUBSET Flags, fd : Nat, blocking : BOOLEAN]
    BY <1>1 DEF Objects, Fresh
  <2> HIDE DEF h, w, k
  <2>2. /\ x \in [flags : SUBSET Flags, fd : Nat, blocking : BOOLEAN]
        /\ x.fd = h /\ x.flags = {"CREATED", "CONNECTED"}
    BY <1>3, <2>1, Given DEF Flags
  <2>3. so2 = [so EXCEPT ![c] = x]
    <3>1. so[c].flags \cup {"CREATED", "CONNECTED"} = {"CREATED", "CONNECTED"} BY <2>1
    <3>2. so2 = [so EXCEPT ![c].fd = h, ![c].flags = so[c].flags \cup {"CREATED", "CONNECTED"}]
      BY <1>1, <2>1 DEF h, w, k, Objects
    <3>3. so2 = [so EXCEPT ![c].fd = h, ![c].flags = {"CREATED", "CONNECTED"}]
      BY <3>1, <3>2
    <3> QED BY <3>3, <1>1 DEF Objects
  <2> HIDE DEF x
  <2> QED BY <1>1, <2>2, <2>3 DEF Objects
<1>10. Popped(ds, ds2, k)
  <2>1. /\ Tail(w) \in Seq(Nat) /\ Len(Tail(w)) = Len(w) - 1 /\ Len(w) \in Nat
        /\ DOMAIN w = 1 .. Len(w) /\ DOMAIN Tail(w) = 1 .. Len(w) - 1
        /\ \A p \in 1 .. Len(w) - 1 : Tail(w)[p] = w[p + 1]
    BY <1>3
  <2> HIDE DEF w, r, h, k
  <2>2. \A p \in 1 .. Len(w) - 1 : p + 1 \in 1 .. Len(w) /\ p + 1 # 1 /\ p \in Nat BY <2>1
  <2>3. \A p \in DOMAIN ds2[k].waiting : p + 1 \in DOMAIN w /\ p + 1 # 1 /\ p \in Nat
                                        /\ ds2[k].waiting[p] = w[p + 1]
    BY <1>7, <2>1, <2>2
  <2>4. \A q \in DOMAIN ds2 : q # k => ds2[q].waiting = ds[q].waiting BY <1>5, <1>6
  <2>5. w = ds[k].waiting BY DEF w
  <2> SUFFICES ASSUME NEW q \in DOMAIN ds2, NEW p \in DOMAIN ds2[q].waiting
               PROVE  \/ q # k /\ p \in DOMAIN ds[q].waiting /\ ds2[q].waiting[p] = ds[q].waiting[p]
                      \/ /\ q = k /\ p + 1 \in DOMAIN ds[q].waiting /\ p + 1 # 1 /\ p \in Nat
                         /\ ds2[q].waiting[p] = ds[q].waiting[p + 1]
    BY DEF Popped
  <2>6. CASE q = k BY <2>3, <2>5, <2>6
  <2>7. CASE q # k BY <2>4, <2>7
  <2> QED BY <2>6, <2>7
<1>11. so[c].fd = 0 BY DEF Fresh, NULL_SOCKET
<1>12. SameEnds(ds, ds2) BY <1>6 DEF SameEnds
<1> HIDE DEF h, w, r, k
<1>13. Handed(so, ds, so2, ds2, c, k, h)
  BY <1>2, <1>5, <1>8, <1>9, <1>10, <1>11, <1>12 DEF Handed
<1> QED BY <1>13 DEF h, w, k

\* close: the object gives its descriptor up.
LEMMA Closing ==
  ASSUME NEW so, NEW ds, Good(so, ds), NEW s \in Sockets, NEW so2,
         so2 = [so EXCEPT ![s].fd = NULL_SOCKET,
                          ![s].flags = (@ \cup {"CLOSED"}) \ {"CONNECTED", "BINDED"}]
  PROVE  Good(so2, ds)
<1>1. Objects(so) /\ Rows(ds) /\ Lives(so, ds) /\ Agree(so, ds) /\ Ends(ds) /\ Queues(so, ds)
  BY DEF Good
<1> DEFINE f == (so[s].flags \cup {"CLOSED"}) \ {"CONNECTED", "BINDED"}
<1>2. /\ Objects(so2) /\ so2[s].fd = 0 /\ so2[s].flags = f
      /\ \A t \in Sockets \ {s} : so2[t] = so[t]
  <2> DEFINE x == [so[s] EXCEPT !.fd = 0, !.flags = f]
  <2>1. f \in SUBSET Flags /\ so[s] \in [flags : SUBSET Flags, fd : Nat, blocking : BOOLEAN]
    BY <1>1 DEF Objects, Flags
  <2>2. so2 = [so EXCEPT ![s] = x] BY <1>1, <2>1 DEF Objects, NULL_SOCKET
  <2> HIDE DEF f
  <2>3. /\ x \in [flags : SUBSET Flags, fd : Nat, blocking : BOOLEAN]
        /\ x.fd = 0 /\ x.flags = f
    BY <2>1, Given
  <2> HIDE DEF x
  <2> QED BY <1>1, <2>2, <2>3 DEF Objects
<1>3. \A d \in DOMAIN ds : d # 0 BY <1>1 DEF Rows
<1>4. Lives(so2, ds)
  <2> SUFFICES ASSUME NEW t \in Sockets
               PROVE  /\ so2[t].fd # 0 <=> "CREATED" \in so2[t].flags /\ "CLOSED" \notin so2[t].flags
                      /\ so2[t].fd # 0 => so2[t].fd \in DOMAIN ds
                      /\ "CREATED" \notin so2[t].flags => so2[t].flags \subseteq {"CLOSED"}
                      /\ "CLOSED" \in so2[t].flags => "CONNECTED" \notin so2[t].flags
                      /\ \A u \in Sockets \ {t} : so2[t].fd # 0 => so2[u].fd # so2[t].fd
    BY DEF Lives
  <2>1. CASE t = s BY <2>1, <1>1, <1>2 DEF Lives
  <2>2. CASE t # s
    <3>1. /\ so[t].fd # 0 <=> "CREATED" \in so[t].flags /\ "CLOSED" \notin so[t].flags
          /\ so[t].fd # 0 => so[t].fd \in DOMAIN ds
          /\ "CREATED" \notin so[t].flags => so[t].flags \subseteq {"CLOSED"}
          /\ "CLOSED" \in so[t].flags => "CONNECTED" \notin so[t].flags
          /\ \A u \in Sockets \ {t} : so[t].fd # 0 => so[u].fd # so[t].fd
      BY <1>1 DEF Lives
    <3>2. so2[t] = so[t] /\ \A u \in Sockets : so2[u].fd = 0 \/ so2[u].fd = so[u].fd BY <1>2, <2>2
    <3> QED BY <3>1, <3>2
  <2> QED BY <2>1, <2>2
<1>5. Agree(so2, ds) BY <1>1, <1>2 DEF Agree
<1>6. Queues(so2, ds)
  <2>1. \A d \in DOMAIN ds :
          (\A t \in Sockets : so[t].fd # d) => (\A t \in Sockets : so2[t].fd # d)
    BY <1>2, <1>3
  <2> HIDE DEF f
  <2> QED BY <2>1, <1>1 DEF Queues
<1> QED BY <1>1, <1>2, <1>4, <1>5, <1>6 DEF Good

\* shutdown_output and shutdown_input of a connection.
LEMMA Shutting ==
  ASSUME NEW so, NEW ds, Good(so, ds), NEW s \in Sockets, so[s].fd # 0,
         ds[so[s].fd].state = "connected",
         NEW flag \in {"SHUTDOWN_OUT", "SHUTDOWN_IN"}, NEW r,
         r = IF flag = "SHUTDOWN_OUT" THEN [ds[so[s].fd] EXCEPT !.shut_out = TRUE]
             ELSE [ds[so[s].fd] EXCEPT !.shut_in = TRUE],
         NEW so2, NEW ds2, ds2 = [ds EXCEPT ![so[s].fd] = r],
         so2 = [so EXCEPT ![s].flags = @ \cup {flag}]
  PROVE  Good(so2, ds2)
<1>1. Objects(so) /\ Rows(ds) /\ Lives(so, ds) /\ Agree(so, ds) /\ Ends(ds) /\ Queues(so, ds)
  BY DEF Good
<1> DEFINE k == so[s].fd
<1>2. k \in DOMAIN ds /\ Row(ds[k]) BY <1>1 DEF Lives, Rows
<1>3. /\ Row(r) /\ r.state = ds[k].state /\ r.peer = ds[k].peer /\ r.waiting = ds[k].waiting
      /\ r.shut_out = IF flag = "SHUTDOWN_OUT" THEN TRUE ELSE ds[k].shut_out
  BY <1>2, Rewritten DEF Row
<1>4. /\ Rows(ds2) /\ DOMAIN ds2 = DOMAIN ds
      /\ \A d \in DOMAIN ds : ds2[d] = IF d = k THEN r ELSE ds[d]
  BY <1>1, <1>2, <1>3, Changed
<1>5. \A d \in DOMAIN ds :
        /\ ds2[d].state = ds[d].state /\ ds2[d].peer = ds[d].peer /\ ds2[d].waiting = ds[d].waiting
        /\ d # k => ds2[d].shut_out = ds[d].shut_out
  BY <1>3, <1>4
<1>6. /\ Objects(so2)
      /\ so2[s].fd = k /\ so2[s].flags = so[s].flags \cup {flag}
      /\ \A t \in Sockets \ {s} : so2[t] = so[t]
  BY <1>1 DEF Objects, Flags
<1>7. Lives(so2, ds2) BY <1>1, <1>4, <1>6 DEF Lives
<1>8. Agree(so2, ds2)
  <2> SUFFICES ASSUME NEW t \in Sockets, so2[t].fd # 0
               PROVE  /\ "CONNECTED" \in so2[t].flags => ds2[so2[t].fd].state = "connected"
                      /\ "LISTENING" \in so2[t].flags <=> ds2[so2[t].fd].state = "listening"
                      /\ "BINDED" \in so2[t].flags <=> ds2[so2[t].fd].state \in {"bound", "listening"}
                      /\ "SHUTDOWN_OUT" \in so2[t].flags <=> ds2[so2[t].fd].shut_out
    BY DEF Agree
  <2>1. CASE t = s
    <3>1. /\ "CONNECTED" \in so[s].flags => ds[k].state = "connected"
          /\ "LISTENING" \in so[s].flags <=> ds[k].state = "listening"
          /\ "BINDED" \in so[s].flags <=> ds[k].state \in {"bound", "listening"}
          /\ "SHUTDOWN_OUT" \in so[s].flags <=> ds[k].shut_out
      BY <1>1 DEF Agree
    <3>2. /\ ds2[k].state = ds[k].state
          /\ ds2[k].shut_out = IF flag = "SHUTDOWN_OUT" THEN TRUE ELSE ds[k].shut_out
      BY <1>2, <1>3, <1>4
    <3>3. \A f : f \in so2[s].flags <=> f \in so[s].flags \/ f = flag BY <1>6
    <3> HIDE DEF k
    <3>4. CASE flag = "SHUTDOWN_OUT" BY <3>1, <3>2, <3>3, <3>4, <2>1, <1>6
    <3>5. CASE flag = "SHUTDOWN_IN" BY <3>1, <3>2, <3>3, <3>5, <2>1, <1>6
    <3> QED BY <3>4, <3>5
  <2>2. CASE t # s
    <3>1. so[t].fd # k /\ so[t].fd \in DOMAIN ds BY <2>2, <1>1, <1>6 DEF Lives
    <3> QED BY <2>2, <3>1, <1>1, <1>5, <1>6 DEF Agree
  <2> QED BY <2>1, <2>2
<1>9. Ends(ds2)
  <2> HIDE DEF k
  <2>1. Ends(ds) /\ DOMAIN ds2 = DOMAIN ds BY <1>1, <1>4
  <2>2. \A d \in DOMAIN ds : ds2[d].state = ds[d].state /\ ds2[d].peer = ds[d].peer BY <1>5
  <2> QED BY <2>1, <2>2 DEF Ends
<1>10. Queues(so2, ds2)
  <2>1. \A d \in DOMAIN ds : (\A t \in Sockets : so[t].fd # d)
          => d # k /\ \A t \in Sockets : so2[t].fd # d
    BY <1>6
  <2> HIDE DEF k
  <2>2. \A d \in DOMAIN ds : d # k => ds2[d].state = ds[d].state /\ ds2[d].shut_out = ds[d].shut_out
    BY <1>5
  <2>3. \A d \in DOMAIN ds :
          ds[d].state = "connected" /\ ~ds[d].shut_out /\ (\A t \in Sockets : so[t].fd # d)
            => ds2[d].state = "connected" /\ ~ds2[d].shut_out /\ \A t \in Sockets : so2[t].fd # d
    BY <2>1, <2>2
  <2>4. Queues(so, ds) /\ DOMAIN ds2 = DOMAIN ds /\ \A d \in DOMAIN ds : ds2[d].waiting = ds[d].waiting
    BY <1>1, <1>4, <1>5
  <2>5. WaitsOn(so, ds, so2, ds2) BY <2>3, <2>4 DEF WaitsOn
  <2> QED BY <2>4, <2>5, StillWaiting
<1> QED BY <1>4, <1>6, <1>7, <1>8, <1>9, <1>10 DEF Good

LEMMA Blocking ==
  ASSUME NEW so, NEW ds, Good(so, ds), NEW s \in Sockets, NEW b \in BOOLEAN, NEW so2,
         so2 = [so EXCEPT ![s].blocking = b]
  PROVE  Good(so2, ds)
<1>1. Objects(so) /\ Rows(ds) /\ Lives(so, ds) /\ Agree(so, ds) /\ Ends(ds) /\ Queues(so, ds)
  BY DEF Good
<1>2. Objects(so2) /\ \A t \in Sockets : so2[t].fd = so[t].fd /\ so2[t].flags = so[t].flags
  BY <1>1 DEF Objects
<1>3. Lives(so2, ds) BY <1>1, <1>2 DEF Lives
<1>4. Agree(so2, ds) BY <1>1, <1>2 DEF Agree
<1>5. Queues(so2, ds) BY <1>1, <1>2 DEF Queues
<1> QED BY <1>1, <1>2, <1>3, <1>4, <1>5 DEF Good
-----------------------------------------------------------------------------
(* The calls *)

Inv == Good(socks, descriptors)

\* What connect and bind find once the descriptor is there.
LEMMA AfterOpening ==
  ASSUME Inv, NEW s \in Sockets,
         ~Has(s, "CLOSED"), ~Has(s, "CONNECTED"), ~Has(s, "BINDED"),
         NEW so, so = [socks EXCEPT ![s] = Opened(s)]
  PROVE  /\ Good(so, WithOpened(s))
         /\ so[s] = Opened(s) /\ so[s].fd # 0
         /\ WithOpened(s)[so[s].fd].state \in {"fresh", "connected"}
         /\ \A d \in DOMAIN descriptors :
              d \in DOMAIN WithOpened(s) /\ WithOpened(s)[d] = descriptors[d]
<1>1. Objects(socks) /\ Rows(descriptors) /\ Lives(socks, descriptors) /\ Agree(socks, descriptors)
  BY DEF Inv, Good
<1>2. CASE Has(s, "CREATED")
  <2>1. so = socks /\ WithOpened(s) = descriptors /\ Opened(s) = socks[s]
    BY <1>1, <1>2 DEF Opened, WithOpened, Objects
  <2>2. socks[s].fd # 0 /\ socks[s].fd \in DOMAIN descriptors BY <1>1, <1>2 DEF Lives, Has
  <2>3. descriptors[socks[s].fd].state \in States BY <1>1, <2>2 DEF Rows, Row
  <2>4. descriptors[socks[s].fd].state \in {"fresh", "connected"}
    BY <1>1, <2>2, <2>3 DEF Agree, Has, States
  <2> QED BY <2>1, <2>2, <2>4 DEF Inv
<1>3. CASE ~Has(s, "CREATED")
  <2>1. /\ WithOpened(s) = Append(descriptors, Bare)
        /\ Opened(s) = [socks[s] EXCEPT !.fd = Len(descriptors) + 1, !.flags = @ \cup {"CREATED"}]
    BY <1>3 DEF Opened, WithOpened, New
  <2>2. so[s] = Opened(s) BY <1>1 DEF Objects
  <2>3. \A d \in DOMAIN descriptors :
          d \in DOMAIN Append(descriptors, Bare) /\ Append(descriptors, Bare)[d] = descriptors[d]
    BY <1>1, Appended, NewRow
  <2>4. /\ Good(so, WithOpened(s)) /\ so[s].fd # 0
        /\ WithOpened(s)[so[s].fd].state = "fresh"
    <3>1. "CREATED" \notin socks[s].flags /\ "CLOSED" \notin socks[s].flags BY <1>3 DEF Has
    <3>2. so = [socks EXCEPT ![s] = [socks[s] EXCEPT !.fd = Len(descriptors) + 1,
                                                     !.flags = @ \cup {"CREATED"}]]
      BY <2>1
    <3>3. Created(socks, descriptors, s, so, WithOpened(s)) BY <2>1, <3>1, <3>2 DEF Created
    <3>4. Good(socks, descriptors) BY DEF Inv
    <3>5. \A so2, ds2 : Created(socks, descriptors, s, so2, ds2)
             => Good(so2, ds2) /\ so2[s].fd # 0 /\ ds2[so2[s].fd].state = "fresh"
      BY <3>4, Opening
    <3> QED BY <3>3, <3>5
  <2> QED BY <2>1, <2>2, <2>3, <2>4
<1> QED BY <1>2, <1>3

\* What connect does to the objects and the descriptors once there is a
\* descriptor.
Finished(so, ds, so2, ds2, s, threw) ==
  /\ IF threw THEN so2 = so ELSE so2 = [so EXCEPT ![s].flags = @ \cup {"CONNECTED"}]
  /\ \/ ds2 = ds /\ (so2 = so \/ ds[so[s].fd].state = "connected")
     \/ /\ ds[so[s].fd].state = "fresh"
        /\ \E l \in DOMAIN ds : ds[l].state = "listening" /\ ds2 = Connected(ds, so[s].fd, l)

LEMMA ConnectIs ==
  ASSUME Inv, NEW s \in Sockets, connect(s),
         NEW so, so = [socks EXCEPT ![s] = Opened(s)], NEW ds, ds = WithOpened(s)
  PROVE  Finished(so, ds, socks', descriptors', s, ret'[1] = "throws")
<1>1. ~Has(s, "CLOSED") /\ ~Has(s, "CONNECTED") /\ ~Has(s, "BINDED")
  BY DEF connect
<1>2. so[s] = Opened(s) /\ \A d \in DOMAIN descriptors : d \in DOMAIN ds /\ ds[d] = descriptors[d]
  BY <1>1, AfterOpening
<1>3. [so EXCEPT ![s].flags = @ \cup {"CONNECTED"}]
        = [socks EXCEPT ![s] = [Opened(s) EXCEPT !.flags = @ \cup {"CONNECTED"}]]
  BY <1>2 DEF Inv, Good, Objects
<1>4. << "done" >>[1] # "throws" /\ << "throws", "connect_exception" >>[1] = "throws" OBVIOUS
<1>5. \/ ret'[1] = "throws" /\ socks' = so /\ (Made(s) \/ descriptors' = ds)
      \/ ret'[1] # "throws" /\ socks' = [so EXCEPT ![s].flags = @ \cup {"CONNECTED"}] /\ Made(s)
  BY <1>3, <1>4 DEF connect, Done, Throws
<1>6. ASSUME Made(s)
      PROVE  \/ ds[so[s].fd].state = "connected" /\ descriptors' = ds
             \/ /\ ds[so[s].fd].state = "fresh"
                /\ \E l \in DOMAIN ds :
                     ds[l].state = "listening" /\ descriptors' = Connected(ds, so[s].fd, l)
  <2>1. \A l \in Reachable : l \in DOMAIN ds /\ ds[l].state = "listening"
    BY <1>2 DEF Reachable, Listeners
  <2>2. \/ ds[so[s].fd].state = "connected" /\ descriptors' = ds
        \/ /\ ds[so[s].fd].state = "fresh"
           /\ \E l \in Reachable : descriptors' = Connected(ds, so[s].fd, l)
    BY <1>2, <1>6 DEF Made
  <2> QED BY <2>1, <2>2
<1> QED BY <1>5, <1>6 DEF Finished

LEMMA ConnectStep ==
  ASSUME Inv, NEW s \in Sockets, connect(s)
  PROVE  Inv'
<1>0. PICK so, ds : so = [socks EXCEPT ![s] = Opened(s)] /\ ds = WithOpened(s) OBVIOUS
<1>1. Finished(so, ds, socks', descriptors', s, ret'[1] = "throws") BY <1>0, ConnectIs
<1>2. Good(so, ds) /\ so[s].fd # 0 BY <1>0, AfterOpening DEF connect
<1>3. CASE socks' = so /\ descriptors' = ds BY <1>2, <1>3 DEF Inv
<1>4. CASE /\ descriptors' = ds /\ ds[so[s].fd].state = "connected"
           /\ socks' = [so EXCEPT ![s].flags = @ \cup {"CONNECTED"}]
  <2>1. Good(socks', ds) BY <1>2, <1>4, Flagged
  <2> QED BY <2>1, <1>4 DEF Inv
<1>5. CASE /\ ds[so[s].fd].state = "fresh"
           /\ \E l \in DOMAIN ds :
                ds[l].state = "listening" /\ descriptors' = Connected(ds, so[s].fd, l)
  <2>1. PICK l \in DOMAIN ds : ds[l].state = "listening" /\ descriptors' = Connected(ds, so[s].fd, l)
    BY <1>5
  <2>2. socks' = so \/ socks' = [so EXCEPT ![s].flags = @ \cup {"CONNECTED"}] BY <1>1 DEF Finished
  <2>3. Good(socks', descriptors') BY <1>2, <1>5, <2>1, <2>2, Connecting
  <2> QED BY <2>3 DEF Inv
<1> QED BY <1>1, <1>3, <1>4, <1>5 DEF Finished

LEMMA BindStep ==
  ASSUME Inv, NEW s \in Sockets, bind(s)
  PROVE  Inv'
<1> DEFINE so == [socks EXCEPT ![s] = Opened(s)]
<1> DEFINE ds == WithOpened(s)
<1>1. ~Has(s, "CLOSED") /\ ~Has(s, "CONNECTED") /\ ~Has(s, "BINDED")
  BY DEF bind
<1>2. Good(so, ds) /\ so[s] = Opened(s) /\ so[s].fd # 0
  BY <1>1, AfterOpening
<1>3. CASE socks' = so /\ descriptors' = ds
  BY <1>2, <1>3 DEF Inv
<1>4. CASE /\ ds[Opened(s).fd].state = "fresh"
           /\ descriptors' = [ds EXCEPT ![Opened(s).fd].state = "bound"]
           /\ socks' = [socks EXCEPT ![s] = [Opened(s) EXCEPT !.flags = @ \cup {"BINDED"}]]
  <2>1. socks' = [so EXCEPT ![s].flags = @ \cup {"BINDED"}]
    <3>1. Objects(socks) BY DEF Inv, Good
    <3> QED BY <3>1, <1>2, <1>4 DEF Objects
  <2>2. descriptors' = [ds EXCEPT ![so[s].fd].state = "bound"] BY <1>2, <1>4
  <2> HIDE DEF so, ds
  <2>3. Good(socks', descriptors')
    <3>1. ds[so[s].fd].state = "fresh" BY <1>2, <1>4
    <3> QED BY <1>2, <2>1, <2>2, <3>1, Marking
  <2> QED BY <2>3 DEF Inv
<1> QED BY <1>3, <1>4 DEF bind

\* A socket that may be used has its descriptor.
LEMMA UsableHasFd ==
  ASSUME Inv, NEW s \in Sockets, ~Has(s, "CLOSED"),
         \E flag \in Flags \ {"CLOSED"} : Has(s, flag)
  PROVE  socks[s].fd # 0 /\ socks[s].fd \in DOMAIN descriptors
BY DEF Inv, Good, Lives, Has

LEMMA ListenStep ==
  ASSUME Inv, NEW s \in Sockets, listen(s)
  PROVE  Inv'
<1>1. ~Has(s, "CLOSED") /\ Has(s, "BINDED")
      /\ descriptors' = [descriptors EXCEPT ![socks[s].fd].state = "listening"]
      /\ socks' = [socks EXCEPT ![s].flags = @ \cup {"LISTENING"}]
  BY DEF listen, Set
<1>2. socks[s].fd # 0 BY <1>1, UsableHasFd DEF Flags
<1>3. descriptors[socks[s].fd].state \in {"bound", "listening"}
  BY <1>1, <1>2 DEF Inv, Good, Agree, Has
<1>4. Good(socks', descriptors') BY <1>1, <1>2, <1>3, Marking DEF Inv
<1> QED BY <1>4 DEF Inv

LEMMA AcceptStep ==
  ASSUME Inv, NEW s \in Sockets, NEW client \in Sockets, accept(s, client)
  PROVE  Inv'
<1>1. ~Has(s, "CLOSED") /\ Has(s, "BINDED") /\ socks[client] = Fresh BY DEF accept
<1>2. socks[s].fd # 0 BY <1>1, UsableHasFd DEF Flags
<1>3. CASE /\ descriptors[socks[s].fd].waiting # << >>
           /\ socks' = [socks EXCEPT ![client].fd = Head(descriptors[socks[s].fd].waiting),
                                     ![client].flags = @ \cup {"CREATED", "CONNECTED"}]
           /\ descriptors' = [descriptors EXCEPT ![socks[s].fd].waiting = Tail(@)]
  <2>1. Accepted(socks, descriptors, s, client, socks', descriptors')
    BY <1>1, <1>2, <1>3 DEF Accepted
  <2>2. Good(socks, descriptors) BY DEF Inv
  <2> HIDE DEF Inv
  <2>3. \A so2, ds2 : Accepted(socks, descriptors, s, client, so2, ds2) => Good(so2, ds2)
    BY <2>2, Accepting, Handing
  <2>4. Good(socks', descriptors') BY <2>1, <2>3
  <2> QED BY <2>4 DEF Inv
<1>4. CASE UNCHANGED << socks, descriptors >>
  BY <1>4 DEF Inv
<1> QED BY <1>3, <1>4 DEF accept, Descriptor

LEMMA CloseStep ==
  ASSUME Inv, NEW s \in Sockets, close(s)
  PROVE  Inv'
<1>1. Good(socks', descriptors) BY Closing DEF Inv, close
<1> QED BY <1>1 DEF Inv, close

LEMMA ShutdownStep ==
  ASSUME Inv, NEW s \in Sockets, shutdown_output(s) \/ shutdown_input(s)
  PROVE  Inv'
<1>1. ~Has(s, "CLOSED") /\ Has(s, "CREATED")
  BY DEF shutdown_output, shutdown_input, shutdown, Usable
<1>2. socks[s].fd # 0 BY <1>1, UsableHasFd DEF Flags
<1> DEFINE k == socks[s].fd
<1>3. CASE /\ descriptors[k].state = "connected"
           /\ descriptors' = [descriptors EXCEPT ![k] = [descriptors[k] EXCEPT !.shut_out = TRUE]]
           /\ socks' = [socks EXCEPT ![s].flags = @ \cup {"SHUTDOWN_OUT"}]
  <2>1. Good(socks', descriptors') BY <1>2, <1>3, Shutting DEF Inv
  <2> QED BY <2>1 DEF Inv
<1>4. CASE /\ descriptors[k].state = "connected"
           /\ descriptors' = [descriptors EXCEPT ![k] = [descriptors[k] EXCEPT !.shut_in = TRUE]]
           /\ socks' = [socks EXCEPT ![s].flags = @ \cup {"SHUTDOWN_IN"}]
  <2>1. Good(socks', descriptors') BY <1>2, <1>4, Shutting DEF Inv
  <2> QED BY <2>1 DEF Inv
<1>5. CASE UNCHANGED << socks, descriptors >>
  BY <1>5 DEF Inv
<1> QED BY <1>3, <1>4, <1>5 DEF shutdown_output, shutdown_input, shutdown, Descriptor, Set

LEMMA BlockingStep ==
  ASSUME Inv, NEW s \in Sockets, NEW block \in BOOLEAN, set_blocking(s, block)
  PROVE  Inv'
<1>1. Good(socks', descriptors) BY Blocking DEF Inv, set_blocking
<1> QED BY <1>1 DEF Inv, set_blocking

\* write and read: bytes come to, or leave, one inbox.
LEMMA TransferStep ==
  ASSUME Inv, NEW s \in Sockets, NEW b, write(s, b) \/ read(s, b)
  PROVE  Inv'
<1>1. ~Has(s, "CLOSED") /\ Has(s, "CONNECTED") BY DEF write, read
<1>2. socks[s].fd # 0 /\ socks[s].fd \in DOMAIN descriptors BY <1>1, UsableHasFd DEF Flags
<1>3. descriptors[socks[s].fd].state = "connected" BY <1>1, <1>2 DEF Inv, Good, Agree, Has
<1>4. Peer(s) \in DOMAIN descriptors BY <1>2, <1>3 DEF Inv, Good, Ends, Peer, Descriptor
<1>5. CASE UNCHANGED << socks, descriptors >>
  BY <1>5 DEF Inv
<1>6. CASE /\ UNCHANGED socks
           /\ \E k \in DOMAIN descriptors : \E bytes :
                descriptors' = [descriptors EXCEPT ![k].inbox = bytes]
  <2>0. PICK k \in DOMAIN descriptors :
          \E bytes : descriptors' = [descriptors EXCEPT ![k].inbox = bytes]
    BY <1>6
  <2>1. PICK bytes : descriptors' = [descriptors EXCEPT ![k].inbox = bytes] BY <2>0
  <2>2. Good(socks, descriptors') BY <2>1, Moving DEF Inv
  <2> QED BY <2>2, <1>6 DEF Inv
<1> QED BY <1>2, <1>4, <1>5, <1>6 DEF write, read, Peer, Descriptor
-----------------------------------------------------------------------------
LEMMA InitInv == MCInit => Inv
<1> SUFFICES ASSUME MCInit PROVE Inv OBVIOUS
<1>1. socks = [s \in Sockets |-> Fresh] /\ descriptors = << >> BY DEF MCInit, Init
<1>2. Objects(socks) BY <1>1 DEF Objects, Fresh, NULL_SOCKET
<1>3. Rows(descriptors) BY <1>1 DEF Rows
<1>4. Lives(socks, descriptors) BY <1>1 DEF Lives, Fresh, NULL_SOCKET
<1>5. Agree(socks, descriptors) BY <1>1 DEF Agree, Fresh, NULL_SOCKET
<1>6. Ends(descriptors) /\ Queues(socks, descriptors) BY <1>1 DEF Ends, Queues
<1> QED BY <1>2, <1>3, <1>4, <1>5, <1>6 DEF Inv, Good

LEMMA NextInv == Inv /\ [Next]_vars => Inv'
<1> SUFFICES ASSUME Inv, [Next]_vars PROVE Inv' OBVIOUS
<1>1. CASE UNCHANGED << socks, descriptors >>
  BY <1>1 DEF Inv
<1>2. ASSUME NEW s \in Sockets, Setup(s) PROVE Inv'
  BY <1>2, BindStep, ListenStep, ShutdownStep, BlockingStep DEF Setup
<1>3. ASSUME NEW s \in Sockets, Accept(s) PROVE Inv'
  BY <1>3, AcceptStep DEF Accept
<1>4. ASSUME NEW s \in Sockets, Put(s) \/ Flip(s) \/ Compact(s) PROVE Inv'
  BY <1>1, <1>4 DEF Put, Flip, Compact, Quiet
<1>5. ASSUME NEW s \in Sockets, Write(s) \/ Read(s) PROVE Inv'
  BY <1>5, TransferStep DEF Write, Read
<1>6. ASSUME NEW s \in Sockets, Connect(s) \/ Close(s) PROVE Inv'
  BY <1>6, ConnectStep, CloseStep DEF Connect, Close
<1> QED BY <1>1, <1>2, <1>3, <1>4, <1>5, <1>6 DEF Next, vars

-----------------------------------------------------------------------------
(* What the calls leave alone *)

Linked(so, s)  == "CONNECTED" \in so[s].flags
InQueue(ds, d) == \E q \in DOMAIN ds : \E p \in DOMAIN ds[q].waiting : ds[q].waiting[p] = d
\* The end of a connection that nobody sends from or receives at: it waits for
\* an accept, or the connect that made it threw.
Mute(so, ds, d) ==
  /\ d \in DOMAIN ds /\ ds[d].state = "connected"
  /\ InQueue(ds, d) \/ \E u \in Sockets : so[u].fd = d /\ ~Linked(so, u)
Losses(so, ds) ==
  {s \in Sockets : so[s].fd # 0 /\ ds[so[s].fd].state = "connected" /\ ~Linked(so, s)}

\* Nothing is connected, what is may be given up, and only new descriptors
\* get an owner.
Quieter(so, ds, so2) == \A s \in Sockets :
  /\ Linked(so2, s) => Linked(so, s) /\ so2[s].fd = so[s].fd
  /\ so2[s].flags \cap {"CONNECTED", "CLOSED"} = {} => so[s].flags \cap {"CONNECTED", "CLOSED"} = {}
  /\ so2[s].fd \in DOMAIN ds => so2[s].fd = so[s].fd /\ (Linked(so, s) => Linked(so2, s))
\* Descriptors are opened, bound and shut down.
Unconnected(ds, ds2) ==
  /\ DOMAIN ds \subseteq DOMAIN ds2
  /\ \A d \in DOMAIN ds :
       /\ ds2[d].state = "connected" <=> ds[d].state = "connected"
       /\ ds2[d].peer = ds[d].peer /\ ds2[d].inbox = ds[d].inbox /\ ds2[d].waiting = ds[d].waiting
  /\ \A d \in DOMAIN ds2 \ DOMAIN ds :
       ds2[d].state # "connected" /\ ds2[d].inbox = << >> /\ ds2[d].waiting = << >>
Calm(so, ds, so2, ds2) == Quieter(so, ds, so2) /\ Unconnected(ds, ds2)

LEMMA CalmTwice ==
  ASSUME NEW so, NEW ds, NEW so1, NEW ds1, NEW so2, NEW ds2,
         Calm(so, ds, so1, ds1), Calm(so1, ds1, so2, ds2)
  PROVE  Calm(so, ds, so2, ds2)
<1>1. Unconnected(ds, ds2)
  <2>1. Unconnected(ds, ds1) /\ Unconnected(ds1, ds2) BY DEF Calm
  <2>2. DOMAIN ds \subseteq DOMAIN ds1 /\ DOMAIN ds1 \subseteq DOMAIN ds2 BY <2>1 DEF Unconnected
  <2>3. ASSUME NEW d \in DOMAIN ds
        PROVE  /\ ds2[d].state = "connected" <=> ds[d].state = "connected"
               /\ ds2[d].peer = ds[d].peer /\ ds2[d].inbox = ds[d].inbox /\ ds2[d].waiting = ds[d].waiting
    BY <2>1, <2>2 DEF Unconnected
  <2>4. ASSUME NEW d \in DOMAIN ds2 \ DOMAIN ds
        PROVE  ds2[d].state # "connected" /\ ds2[d].inbox = << >> /\ ds2[d].waiting = << >>
    <3>1. CASE d \in DOMAIN ds1 BY <2>1, <3>1 DEF Unconnected
    <3>2. CASE d \notin DOMAIN ds1 BY <2>1, <3>2 DEF Unconnected
    <3> QED BY <3>1, <3>2
  <2> QED BY <2>2, <2>3, <2>4 DEF Unconnected
<1>2. DOMAIN ds \subseteq DOMAIN ds1 BY DEF Calm, Unconnected
<1>3. Quieter(so, ds, so2) BY <1>2 DEF Calm, Quieter
<1> QED BY <1>1, <1>3 DEF Calm

LEMMA CalmStill ==
  ASSUME NEW so, NEW ds PROVE Calm(so, ds, so, ds)
BY DEF Calm, Quieter, Unconnected

LEMMA OpeningCalm ==
  ASSUME Inv, NEW s \in Sockets,
         ~Has(s, "CLOSED"), ~Has(s, "CONNECTED"), ~Has(s, "BINDED"),
         NEW so, so = [socks EXCEPT ![s] = Opened(s)]
  PROVE  /\ Calm(socks, descriptors, so, WithOpened(s))
         /\ so[s].flags \cap {"CONNECTED", "CLOSED"} = {}
<1>1. Objects(socks) /\ Rows(descriptors) BY DEF Inv, Good
<1>2. CASE Has(s, "CREATED")
  <2>1. so = socks /\ WithOpened(s) = descriptors BY <1>1, <1>2 DEF Opened, WithOpened, Objects
  <2> QED BY <2>1, CalmStill DEF Has
<1>3. CASE ~Has(s, "CREATED")
  <2>1. /\ Len(descriptors) \in Nat /\ DOMAIN descriptors = 1 .. Len(descriptors)
        /\ DOMAIN WithOpened(s) = 1 .. (Len(descriptors) + 1)
        /\ \A d \in DOMAIN descriptors : WithOpened(s)[d] = descriptors[d]
        /\ WithOpened(s)[Len(descriptors) + 1] = Bare
    BY <1>1, <1>3, Appended, NewRow DEF WithOpened
  <2>2. /\ so[s].flags = socks[s].flags \cup {"CREATED"} /\ so[s].fd = Len(descriptors) + 1
        /\ \A t \in Sockets \ {s} : so[t] = socks[t]
    <3>1. so[s] = [socks[s] EXCEPT !.fd = Len(descriptors) + 1, !.flags = @ \cup {"CREATED"}]
      BY <1>1, <1>3 DEF Opened, New, Objects
    <3>2. socks[s] \in [flags : SUBSET Flags, fd : Nat, blocking : BOOLEAN] BY <1>1 DEF Objects
    <3>3. so[s].flags = socks[s].flags \cup {"CREATED"} /\ so[s].fd = Len(descriptors) + 1
      BY <3>1, <3>2
    <3> QED BY <3>3, <1>1 DEF Objects
  <2>3. so[s].flags \cap {"CONNECTED", "CLOSED"} = {} BY <2>2 DEF Has
  <2>4. Len(descriptors) + 1 \notin DOMAIN descriptors BY <2>1
  <2>5. Quieter(socks, descriptors, so) BY <2>2, <2>3, <2>4 DEF Quieter, Linked, Has
  <2>6. Unconnected(descriptors, WithOpened(s))
    <3>1. Bare.state # "connected" /\ Bare.inbox = << >> /\ Bare.waiting = << >> BY DEF Bare
    <3>2. \A d \in DOMAIN WithOpened(s) \ DOMAIN descriptors : d = Len(descriptors) + 1 BY <2>1
    <3>3. DOMAIN descriptors \subseteq DOMAIN WithOpened(s) BY <2>1
    <3> QED BY <2>1, <3>1, <3>2, <3>3 DEF Unconnected
  <2> QED BY <2>3, <2>5, <2>6 DEF Calm
<1> QED BY <1>2, <1>3

LEMMA Restated ==
  ASSUME NEW ds, Rows(ds), NEW k \in DOMAIN ds
  PROVE  /\ Unconnected(ds, [ds EXCEPT ![k] = [ds[k] EXCEPT !.shut_in = TRUE]])
         /\ Unconnected(ds, [ds EXCEPT ![k] = [ds[k] EXCEPT !.shut_out = TRUE]])
         /\ \A x : ds[k].state # "connected" /\ x # "connected" =>
              Unconnected(ds, [ds EXCEPT ![k] = [ds[k] EXCEPT !.state = x]])
<1>1. Row(ds[k]) BY DEF Rows
<1>2. ASSUME NEW r, r.state = "connected" <=> ds[k].state = "connected",
             r.peer = ds[k].peer, r.inbox = ds[k].inbox, r.waiting = ds[k].waiting
      PROVE  Unconnected(ds, [ds EXCEPT ![k] = r])
  BY <1>2 DEF Unconnected
<1>3. Unconnected(ds, [ds EXCEPT ![k] = [ds[k] EXCEPT !.shut_in = TRUE]])
  <2> DEFINE r == [ds[k] EXCEPT !.shut_in = TRUE]
  <2>1. /\ r.state = ds[k].state /\ r.peer = ds[k].peer
        /\ r.inbox = ds[k].inbox /\ r.waiting = ds[k].waiting
    BY <1>1 DEF Row
  <2> HIDE DEF r
  <2>2. Unconnected(ds, [ds EXCEPT ![k] = r]) BY <1>2, <2>1
  <2> QED BY <2>2 DEF r
<1>4. Unconnected(ds, [ds EXCEPT ![k] = [ds[k] EXCEPT !.shut_out = TRUE]])
  <2> DEFINE r == [ds[k] EXCEPT !.shut_out = TRUE]
  <2>1. /\ r.state = ds[k].state /\ r.peer = ds[k].peer
        /\ r.inbox = ds[k].inbox /\ r.waiting = ds[k].waiting
    BY <1>1 DEF Row
  <2> HIDE DEF r
  <2>2. Unconnected(ds, [ds EXCEPT ![k] = r]) BY <1>2, <2>1
  <2> QED BY <2>2 DEF r
<1>5. ASSUME NEW x, ds[k].state # "connected", x # "connected"
      PROVE  Unconnected(ds, [ds EXCEPT ![k] = [ds[k] EXCEPT !.state = x]])
  <2> DEFINE r == [ds[k] EXCEPT !.state = x]
  <2>1. /\ r.state = x /\ r.peer = ds[k].peer
        /\ r.inbox = ds[k].inbox /\ r.waiting = ds[k].waiting
    BY <1>1 DEF Row
  <2> HIDE DEF r
  <2>2. Unconnected(ds, [ds EXCEPT ![k] = r]) BY <1>2, <1>5, <2>1
  <2> QED BY <2>2 DEF r
<1> QED BY <1>3, <1>4, <1>5

LEMMA BindCalm ==
  ASSUME Inv, NEW s \in Sockets, bind(s)
  PROVE  Calm(socks, descriptors, socks', descriptors')
<1> DEFINE so == [socks EXCEPT ![s] = Opened(s)]
<1> DEFINE ds == WithOpened(s)
<1>1. ~Has(s, "CLOSED") /\ ~Has(s, "CONNECTED") /\ ~Has(s, "BINDED")
  BY DEF bind
<1>2. Good(so, ds) /\ so[s] = Opened(s) /\ so[s].fd # 0 BY <1>1, AfterOpening
<1>3. Calm(socks, descriptors, so, ds) /\ so[s].flags \cap {"CONNECTED", "CLOSED"} = {}
  BY <1>1, OpeningCalm
<1>4. CASE socks' = so /\ descriptors' = ds
  BY <1>3, <1>4
<1>5. CASE /\ ds[Opened(s).fd].state = "fresh"
           /\ descriptors' = [ds EXCEPT ![Opened(s).fd].state = "bound"]
           /\ socks' = [socks EXCEPT ![s] = [Opened(s) EXCEPT !.flags = @ \cup {"BINDED"}]]
  <2>1. Objects(socks) /\ Objects(so) /\ Rows(ds) /\ Lives(so, ds) BY <1>2 DEF Inv, Good
  <2>2. /\ socks'[s].flags = so[s].flags \cup {"BINDED"} /\ socks'[s].fd = so[s].fd
        /\ \A t \in Sockets \ {s} : socks'[t] = so[t]
    <3>1. so[s] \in [flags : SUBSET Flags, fd : Nat, blocking : BOOLEAN] BY <2>1 DEF Objects
    <3>2. socks'[s] = [so[s] EXCEPT !.flags = @ \cup {"BINDED"}] BY <1>2, <1>5, <2>1 DEF Objects
    <3> HIDE DEF so
    <3>3. socks'[s].flags = so[s].flags \cup {"BINDED"} /\ socks'[s].fd = so[s].fd BY <3>1, <3>2
    <3> QED BY <3>3, <1>5, <2>1 DEF Objects, so
  <2>3. Quieter(so, ds, socks')
    <3> HIDE DEF so, ds
    <3> QED BY <2>2, <1>3 DEF Quieter, Linked
  <2>4. so[s].fd \in DOMAIN ds /\ ds[so[s].fd].state = "fresh" BY <1>2, <1>5, <2>1 DEF Lives
  <2>5. Unconnected(ds, descriptors')
    <3>1. descriptors' = [ds EXCEPT ![so[s].fd] = [ds[so[s].fd] EXCEPT !.state = "bound"]]
      BY <1>2, <1>5
    <3> HIDE DEF so, ds
    <3>2. Unconnected(ds, [ds EXCEPT ![so[s].fd] = [ds[so[s].fd] EXCEPT !.state = "bound"]])
      BY <2>1, <2>4, Restated
    <3> QED BY <3>1, <3>2
  <2> HIDE DEF so, ds
  <2>6. Calm(so, ds, socks', descriptors') BY <2>3, <2>5 DEF Calm
  <2> QED BY <1>3, <2>6, CalmTwice
<1> QED BY <1>4, <1>5 DEF bind

LEMMA ListenCalm ==
  ASSUME Inv, NEW s \in Sockets, listen(s)
  PROVE  Calm(socks, descriptors, socks', descriptors')
<1>1. ~Has(s, "CLOSED") /\ Has(s, "BINDED")
      /\ descriptors' = [descriptors EXCEPT ![socks[s].fd] = [descriptors[socks[s].fd] EXCEPT !.state = "listening"]]
      /\ socks' = [socks EXCEPT ![s] = [socks[s] EXCEPT !.flags = @ \cup {"LISTENING"}]]
  BY DEF listen, Set
<1>2. Objects(socks) /\ Rows(descriptors) /\ Agree(socks, descriptors) BY DEF Inv, Good
<1>3. socks[s].fd # 0 /\ socks[s].fd \in DOMAIN descriptors BY <1>1, UsableHasFd DEF Flags
<1>4. descriptors[socks[s].fd].state # "connected" BY <1>1, <1>2, <1>3 DEF Agree, Has
<1>5. Unconnected(descriptors, descriptors') BY <1>1, <1>2, <1>3, <1>4, Restated
<1>6. Quieter(socks, descriptors, socks') BY <1>1, <1>2 DEF Quieter, Linked, Objects
<1> QED BY <1>5, <1>6 DEF Calm

LEMMA CloseCalm ==
  ASSUME Inv, NEW s \in Sockets, close(s)
  PROVE  /\ Calm(socks, descriptors, socks', descriptors')
         /\ socks'[s].fd = 0 /\ "CLOSED" \in socks'[s].flags /\ ~Linked(socks', s)
<1>1. Objects(socks) /\ Rows(descriptors) BY DEF Inv, Good
<1>2. /\ socks'[s].flags = (socks[s].flags \cup {"CLOSED"}) \ {"CONNECTED", "BINDED"}
      /\ socks'[s].fd = 0
      /\ \A t \in Sockets \ {s} : socks'[t] = socks[t]
  <2>1. /\ socks' = [socks EXCEPT ![s] = [socks[s] EXCEPT !.fd = NULL_SOCKET,
                                           !.flags = (@ \cup {"CLOSED"}) \ {"CONNECTED", "BINDED"}]]
        /\ socks[s] \in [flags : SUBSET Flags, fd : Nat, blocking : BOOLEAN]
    BY <1>1 DEF close, Objects
  <2> QED BY <2>1, <1>1 DEF Objects, NULL_SOCKET
<1>3. 0 \notin DOMAIN descriptors BY <1>1 DEF Rows
<1>4. Quieter(socks, descriptors, socks') BY <1>2, <1>3 DEF Quieter, Linked
<1>5. descriptors' = descriptors BY DEF close
<1>6. Unconnected(descriptors, descriptors') BY <1>5 DEF Unconnected
<1> QED BY <1>2, <1>4, <1>6 DEF Calm, Linked

LEMMA ShutdownCalm ==
  ASSUME Inv, NEW s \in Sockets, shutdown_output(s) \/ shutdown_input(s)
  PROVE  Calm(socks, descriptors, socks', descriptors')
<1> DEFINE k == socks[s].fd
<1>1. ~Has(s, "CLOSED") /\ Has(s, "CREATED")
  BY DEF shutdown_output, shutdown_input, shutdown, Usable
<1>2. Objects(socks) /\ Rows(descriptors) BY DEF Inv, Good
<1>3. k \in DOMAIN descriptors BY <1>1, UsableHasFd DEF Flags
<1>4. CASE UNCHANGED << socks, descriptors >>
  BY <1>4, CalmStill
<1>5. CASE /\ descriptors' = [descriptors EXCEPT ![k] = [descriptors[k] EXCEPT !.shut_out = TRUE]]
           /\ socks' = [socks EXCEPT ![s] = [socks[s] EXCEPT !.flags = @ \cup {"SHUTDOWN_OUT"}]]
  <2>1. Quieter(socks, descriptors, socks') BY <1>2, <1>5 DEF Quieter, Linked, Objects
  <2>2. Unconnected(descriptors, descriptors') BY <1>2, <1>3, <1>5, Restated
  <2> QED BY <2>1, <2>2 DEF Calm
<1>6. CASE /\ descriptors' = [descriptors EXCEPT ![k] = [descriptors[k] EXCEPT !.shut_in = TRUE]]
           /\ socks' = [socks EXCEPT ![s] = [socks[s] EXCEPT !.flags = @ \cup {"SHUTDOWN_IN"}]]
  <2>1. Quieter(socks, descriptors, socks') BY <1>2, <1>6 DEF Quieter, Linked, Objects
  <2>2. Unconnected(descriptors, descriptors') BY <1>2, <1>3, <1>6, Restated
  <2> QED BY <2>1, <2>2 DEF Calm
<1> QED BY <1>4, <1>5, <1>6 DEF shutdown_output, shutdown_input, shutdown, Descriptor, Set

LEMMA SetupCalm ==
  ASSUME Inv, NEW s \in Sockets, Setup(s)
  PROVE  Calm(socks, descriptors, socks', descriptors')
<1>1. CASE \E block \in BOOLEAN : set_blocking(s, block)
  <2>1. PICK block \in BOOLEAN : set_blocking(s, block) BY <1>1
  <2>2. Objects(socks) BY DEF Inv, Good
  <2>3. \A t \in Sockets : socks'[t].fd = socks[t].fd /\ socks'[t].flags = socks[t].flags
    BY <2>1, <2>2 DEF set_blocking, Objects
  <2>4. Quieter(socks, descriptors, socks') BY <2>3 DEF Quieter, Linked
  <2>5. Unconnected(descriptors, descriptors') BY <2>1 DEF set_blocking, Unconnected
  <2> QED BY <2>4, <2>5 DEF Calm
<1> QED BY <1>1, BindCalm, ListenCalm, ShutdownCalm DEF Setup

\* The descriptor k of s and a new one that waits become a connection.
Joined(so, ds, so2, ds2, s, k, there) ==
  /\ so[s].flags \cap {"CONNECTED", "CLOSED"} = {}
  /\ so[s].fd = k /\ so2[s].fd = k /\ k # 0 /\ (Linked(so2, s) \/ so2[s] = so[s])
  /\ \A t \in Sockets \ {s} : so2[t] = so[t]
  /\ k \in DOMAIN ds /\ there \notin DOMAIN ds /\ DOMAIN ds2 = DOMAIN ds \cup {there}
  /\ ds[k].state # "connected" /\ ds2[k].state = "connected" /\ ds2[there].state = "connected"
  /\ ds2[k].peer = there /\ ds2[there].peer = k /\ ds2[there].inbox = << >>
  /\ \A d \in DOMAIN ds : ds2[d].inbox = ds[d].inbox
  /\ \A d \in DOMAIN ds \ {k} : ds2[d].state = ds[d].state /\ ds2[d].peer = ds[d].peer
  /\ \A d : InQueue(ds2, d) => InQueue(ds, d) \/ d = there

\* c is connected with the descriptor h, which leaves its queue or which c has
\* had since a connect threw.
Taken(so, ds, so2, ds2, c, h) ==
  /\ so[c].flags \cap {"CONNECTED", "CLOSED"} = {} /\ so2[c].fd = h /\ Linked(so2, c)
  /\ \A t \in Sockets \ {c} : so2[t] = so[t]
  /\ Mute(so, ds, h) /\ DOMAIN ds2 = DOMAIN ds
  /\ \A d \in DOMAIN ds :
       ds2[d].state = ds[d].state /\ ds2[d].peer = ds[d].peer /\ ds2[d].inbox = ds[d].inbox
  /\ \A d : InQueue(ds2, d) => InQueue(ds, d)

LEMMA CoupledIsJoined ==
  ASSUME NEW so, NEW ds, Good(so, ds), NEW s \in Sockets,
         so[s].flags \cap {"CONNECTED", "CLOSED"} = {}, so[s].fd # 0,
         NEW k, k = so[s].fd, ds[k].state = "fresh",
         NEW l \in DOMAIN ds, ds[l].state = "listening",
         NEW so2, NEW ds2, NEW there, Coupled(ds, k, l, there, ds2),
         Linked(so2, s) \/ so2[s] = so[s], so2[s].fd = k, \A t \in Sockets \ {s} : so2[t] = so[t]
  PROVE  Joined(so, ds, so2, ds2, s, k, there)
<1>1. Objects(so) /\ Rows(ds) /\ Lives(so, ds) BY DEF Good
<1>2. k \in DOMAIN ds /\ k # l BY <1>1 DEF Lives
<1>3. /\ Len(ds) \in Nat /\ there = Len(ds) + 1 /\ DOMAIN ds = 1 .. Len(ds)
      /\ DOMAIN ds2 = 1 .. there
      /\ \A d \in 1 .. there :
           /\ d \in {k, there} => ds2[d].state = "connected"
           /\ d \notin {k, there} => ds2[d].state = ds[d].state /\ ds2[d].peer = ds[d].peer
           /\ d \notin {l, there} => ds2[d].waiting = ds[d].waiting
           /\ d # there => ds2[d].inbox = ds[d].inbox
      /\ ds2[k].peer = there /\ ds2[there].peer = k /\ ds2[there].inbox = << >>
      /\ ds2[there].waiting = << >> /\ ds2[l].waiting = Append(ds[l].waiting, there)
  BY DEF Coupled
<1>4. /\ there \notin DOMAIN ds /\ DOMAIN ds2 = DOMAIN ds \cup {there}
      /\ \A d \in DOMAIN ds : d \in 1 .. there /\ d # there
      /\ there \in 1 .. there
  BY <1>3
<1>5. ds[l].waiting \in Seq(Nat) BY <1>1 DEF Rows, Row
<1>6. \A p \in DOMAIN ds2[l].waiting :
        \/ p \in DOMAIN ds[l].waiting /\ ds2[l].waiting[p] = ds[l].waiting[p]
        \/ ds2[l].waiting[p] = there
  <2> DEFINE w == ds[l].waiting
  <2>1. w \in Seq(Nat) /\ ds2[l].waiting = Append(w, there) BY <1>3, <1>5
  <2> HIDE DEF w
  <2>2. /\ DOMAIN Append(w, there) = 1 .. Len(w) + 1 /\ Len(w) \in Nat /\ DOMAIN w = 1 .. Len(w)
        /\ \A p \in 1 .. Len(w) : Append(w, there)[p] = w[p]
        /\ Append(w, there)[Len(w) + 1] = there
    BY <2>1
  <2> QED BY <2>1, <2>2 DEF w
<1>7. \A d : InQueue(ds2, d) => InQueue(ds, d) \/ d = there
  <2> SUFFICES ASSUME NEW q \in DOMAIN ds2, NEW p \in DOMAIN ds2[q].waiting
               PROVE  InQueue(ds, ds2[q].waiting[p]) \/ ds2[q].waiting[p] = there
    BY DEF InQueue
  <2>1. CASE q = l BY <2>1, <1>6 DEF InQueue
  <2>2. CASE q = there BY <2>2, <1>3
  <2>3. CASE q # l /\ q # there
    <3>1. q \in DOMAIN ds /\ ds2[q].waiting = ds[q].waiting BY <2>3, <1>3, <1>4
    <3> QED BY <3>1 DEF InQueue
  <2> QED BY <2>1, <2>2, <2>3
<1> QED BY <1>2, <1>3, <1>4, <1>7 DEF Joined

\* connect: after the descriptor is there, nothing more, or a connection is
\* made, or one that was made before gets its flag.
Ways(so, ds, so2, ds2, s) ==
  \/ so2 = so /\ ds2 = ds
  \/ \E k, there : Joined(so, ds, so2, ds2, s, k, there)
  \/ \E h : Taken(so, ds, so2, ds2, s, h)

LEMMA ConnectWays ==
  ASSUME Inv, NEW s \in Sockets, connect(s),
         NEW so, so = [socks EXCEPT ![s] = Opened(s)], NEW ds, ds = WithOpened(s)
  PROVE  /\ Good(so, ds) /\ Calm(socks, descriptors, so, ds) /\ Ways(so, ds, socks', descriptors', s)
         /\ ret'[1] = "throws" \/ Linked(socks', s)
<1>1. /\ ~Has(s, "CLOSED") /\ ~Has(s, "CONNECTED") /\ ~Has(s, "BINDED")
      /\ Finished(so, ds, socks', descriptors', s, ret'[1] = "throws")
  BY ConnectIs DEF connect
<1>2. Good(so, ds) /\ so[s].fd # 0 BY <1>1, AfterOpening
<1>3. Calm(socks, descriptors, so, ds) /\ so[s].flags \cap {"CONNECTED", "CLOSED"} = {}
  BY <1>1, OpeningCalm
<1>4. Objects(so) /\ Rows(ds) /\ Lives(so, ds) BY <1>2 DEF Good
<1>5. so[s].fd \in DOMAIN ds /\ so[s].fd \in Nat BY <1>2, <1>4 DEF Lives, Objects
<1>6. /\ \/ ret'[1] = "throws" /\ socks' = so
         \/ ret'[1] # "throws" /\ Linked(socks', s)
      /\ socks'[s].fd = so[s].fd /\ \A t \in Sockets \ {s} : socks'[t] = so[t]
  <2>1. CASE ret'[1] = "throws" /\ socks' = so BY <2>1
  <2>2. CASE ret'[1] # "throws" /\ socks' = [so EXCEPT ![s].flags = @ \cup {"CONNECTED"}]
    BY <2>2, <1>4 DEF Linked, Objects
  <2> QED BY <2>1, <2>2, <1>1 DEF Finished
<1>7. Ways(so, ds, socks', descriptors', s)
  <2>1. CASE descriptors' = ds /\ socks' = so BY <2>1 DEF Ways
  <2>2. CASE descriptors' = ds /\ Linked(socks', s) /\ ds[so[s].fd].state = "connected"
    <3>1. Mute(so, ds, so[s].fd) BY <1>3, <1>5, <2>2 DEF Mute, Linked
    <3>2. Taken(so, ds, socks', descriptors', s, so[s].fd) BY <3>1, <1>3, <1>6, <2>2 DEF Taken
    <3> QED BY <3>2 DEF Ways
  <2>3. CASE /\ ds[so[s].fd].state = "fresh"
             /\ \E l \in DOMAIN ds :
                  ds[l].state = "listening" /\ descriptors' = Connected(ds, so[s].fd, l)
    <3>1. PICK l \in DOMAIN ds : ds[l].state = "listening" /\ descriptors' = Connected(ds, so[s].fd, l)
      BY <2>3
    <3>2. PICK k, there, so2, ds2 :
            k = so[s].fd /\ there = Len(ds) + 1 /\ so2 = socks' /\ ds2 = descriptors'
      OBVIOUS
    <3>3. k # l /\ k \in DOMAIN ds /\ k \in Nat BY <3>1, <3>2, <1>5, <2>3
    <3>4. Coupled(ds, k, l, there, ds2)
      <4>1. Coupled(ds, k, l, Len(ds) + 1, Connected(ds, k, l)) BY <1>4, <3>3, Coupling
      <4> QED BY <4>1, <3>1, <3>2
    <3>5. /\ Linked(so2, s) \/ so2[s] = so[s]
          /\ so2[s].fd = k /\ \A t \in Sockets \ {s} : so2[t] = so[t]
      BY <1>6, <3>2
    <3>6. Joined(so, ds, so2, ds2, s, k, there)
      <4>1. ds[k].state = "fresh" /\ ds[l].state = "listening" BY <2>3, <3>1, <3>2
      <4> QED BY <1>2, <1>3, <3>2, <3>4, <3>5, <4>1, CoupledIsJoined
    <3> QED BY <3>2, <3>6 DEF Ways
  <2> QED BY <1>1, <1>6, <2>1, <2>2, <2>3 DEF Finished
<1> QED BY <1>2, <1>3, <1>6, <1>7

\* accept: the new object is connected with what waited longest.
LEMMA AcceptWays ==
  ASSUME Inv, NEW s \in Sockets, NEW client \in Sockets, accept(s, client)
  PROVE  \/ UNCHANGED << socks, descriptors >>
         \/ \E h : Taken(socks, descriptors, socks', descriptors', client, h)
<1>1. ~Has(s, "CLOSED") /\ Has(s, "BINDED") /\ socks[client] = Fresh BY DEF accept
<1>2. socks[s].fd # 0 BY <1>1, UsableHasFd DEF Flags
<1>3. CASE /\ descriptors[socks[s].fd].waiting # << >>
           /\ socks' = [socks EXCEPT ![client].fd = Head(descriptors[socks[s].fd].waiting),
                                     ![client].flags = @ \cup {"CREATED", "CONNECTED"}]
           /\ descriptors' = [descriptors EXCEPT ![socks[s].fd].waiting = Tail(@)]
  <2>1. Accepted(socks, descriptors, s, client, socks', descriptors')
    BY <1>1, <1>2, <1>3 DEF Accepted
  <2>2. \A so2, ds2 : Accepted(socks, descriptors, s, client, so2, ds2) =>
          Handed(socks, descriptors, so2, ds2, client, socks[s].fd, Head(descriptors[socks[s].fd].waiting))
    BY Accepting DEF Inv
  <2>3. PICK k, h : Handed(socks, descriptors, socks', descriptors', client, k, h) BY <2>1, <2>2
  <2>4. socks[client].flags = {} BY <1>1 DEF Fresh
  <2>5. Mute(socks, descriptors, h) BY <2>3 DEF Handed, First, Mute, InQueue
  <2>6. \A d : InQueue(descriptors', d) => InQueue(descriptors, d)
    BY <2>3 DEF Handed, Popped, InQueue
  <2>7. Taken(socks, descriptors, socks', descriptors', client, h)
    BY <2>3, <2>4, <2>5, <2>6 DEF Taken, Handed, SameEnds, Linked
  <2> QED BY <2>7
<1> QED BY <1>3 DEF accept, Descriptor
-----------------------------------------------------------------------------
(* What the flags leave out *)

LEMMA LossesCalm ==
  ASSUME NEW so, NEW ds, NEW so2, NEW ds2, Lives(so2, ds2), Calm(so, ds, so2, ds2)
  PROVE  Losses(so2, ds2) \subseteq Losses(so, ds)
<1> SUFFICES ASSUME NEW t \in Losses(so2, ds2) PROVE t \in Losses(so, ds) OBVIOUS
<1>1. t \in Sockets /\ so2[t].fd # 0 /\ ds2[so2[t].fd].state = "connected" /\ ~Linked(so2, t)
  BY DEF Losses
<1>2. so2[t].fd \in DOMAIN ds2 BY <1>1 DEF Lives
<1>3. so2[t].fd \in DOMAIN ds BY <1>1, <1>2 DEF Calm, Unconnected
<1>4. so2[t].fd = so[t].fd /\ ~Linked(so, t) BY <1>1, <1>3 DEF Calm, Quieter
<1>5. ds[so[t].fd].state = "connected" BY <1>1, <1>3, <1>4 DEF Calm, Unconnected
<1> QED BY <1>1, <1>4, <1>5 DEF Losses

LEMMA LossesWays ==
  ASSUME NEW so, NEW ds, NEW so2, NEW ds2, NEW s \in Sockets, Lives(so, ds), Ways(so, ds, so2, ds2, s)
  PROVE  Losses(so2, ds2) \subseteq Losses(so, ds) \cup {s}
<1> SUFFICES ASSUME NEW t \in Losses(so2, ds2), t # s PROVE t \in Losses(so, ds) OBVIOUS
<1>1. t \in Sockets /\ so2[t].fd # 0 /\ ds2[so2[t].fd].state = "connected" /\ ~Linked(so2, t)
  BY DEF Losses
<1>2. CASE so2 = so /\ ds2 = ds BY <1>2
<1>3. ASSUME so2[t] = so[t], so[t].fd \in DOMAIN ds => ds2[so[t].fd].state = ds[so[t].fd].state
      PROVE  t \in Losses(so, ds)
  BY <1>1, <1>3 DEF Losses, Linked, Lives
<1>4. ASSUME NEW k, NEW there, Joined(so, ds, so2, ds2, s, k, there) PROVE t \in Losses(so, ds)
  <2>1. so2[t] = so[t] /\ so[s].fd = k /\ k # 0 BY <1>1, <1>4 DEF Joined
  <2>2. so[t].fd # k BY <1>1, <2>1 DEF Lives
  <2> QED BY <1>3, <1>4, <2>1, <2>2 DEF Joined
<1>5. ASSUME NEW h, Taken(so, ds, so2, ds2, s, h) PROVE t \in Losses(so, ds)
  BY <1>1, <1>3, <1>5 DEF Taken
<1> QED BY <1>2, <1>4, <1>5 DEF Ways

Told == Losses(socks, descriptors) \subseteq refused

LEMMA ConnectTold ==
  ASSUME Inv, Told, NEW s \in Sockets, Connect(s)
  PROVE  Told'
<1>1. PICK so, ds : so = [socks EXCEPT ![s] = Opened(s)] /\ ds = WithOpened(s) OBVIOUS
<1>2. /\ Good(so, ds) /\ Calm(socks, descriptors, so, ds) /\ Ways(so, ds, socks', descriptors', s)
      /\ ret'[1] = "throws" \/ Linked(socks', s)
  BY <1>1, ConnectWays DEF Connect
<1>3. Lives(so, ds) BY <1>2 DEF Good
<1>4. Losses(so, ds) \subseteq refused BY <1>2, <1>3, LossesCalm DEF Told
<1>5. Losses(socks', descriptors') \subseteq Losses(so, ds) \cup {s} BY <1>2, <1>3, LossesWays
<1>6. Linked(socks', s) => s \notin Losses(socks', descriptors') BY DEF Losses
<1>7. refused' = IF ret'[1] = "throws" THEN refused \cup {s} ELSE refused \ {s} BY DEF Connect
<1>8. Losses(socks', descriptors') \subseteq refused' BY <1>2, <1>4, <1>5, <1>6, <1>7
<1> QED BY <1>8 DEF Told

LEMMA CalmTold ==
  ASSUME Inv', Told, Calm(socks, descriptors, socks', descriptors')
  PROVE  Losses(socks', descriptors') \subseteq refused
<1>1. Lives(socks', descriptors') BY DEF Inv, Good
<1> QED BY <1>1, LossesCalm DEF Told

LEMMA TransferTold ==
  ASSUME Inv, Told, NEW s \in Sockets, NEW b, write(s, b) \/ read(s, b), UNCHANGED refused
  PROVE  Told'
<1>1. \A d \in DOMAIN descriptors : descriptors'[d].state = descriptors[d].state
  <2>1. CASE UNCHANGED descriptors BY <2>1
  <2>2. ASSUME NEW k, NEW bytes,
               descriptors' = [descriptors EXCEPT ![k] = [descriptors[k] EXCEPT !.inbox = bytes]]
        PROVE  \A d \in DOMAIN descriptors : descriptors'[d].state = descriptors[d].state
    <3>1. \A d \in DOMAIN descriptors : Row(descriptors[d]) BY DEF Inv, Good, Rows
    <3>2. \A d \in DOMAIN descriptors : [descriptors[d] EXCEPT !.inbox = bytes].state = descriptors[d].state
      BY <3>1 DEF Row
    <3> QED BY <2>2, <3>2
  <2>3. \/ UNCHANGED descriptors
        \/ \E k, bytes : descriptors' = [descriptors EXCEPT ![k] = [descriptors[k] EXCEPT !.inbox = bytes]]
    BY DEF write, read
  <2> QED BY <2>1, <2>2, <2>3
<1>2. Lives(socks, descriptors) /\ UNCHANGED socks BY DEF Inv, Good, write, read
<1>3. Losses(socks', descriptors') \subseteq Losses(socks, descriptors)
  BY <1>1, <1>2 DEF Losses, Lives, Linked
<1> QED BY <1>3 DEF Told

LEMMA NextTold == Inv /\ Told /\ [Next]_vars => Told'
<1> SUFFICES ASSUME Inv, Told, [Next]_vars PROVE Told' OBVIOUS
<1>0. Inv' BY NextInv
<1>1. CASE UNCHANGED << socks, descriptors, refused >>
  BY <1>1 DEF Told
<1>2. ASSUME NEW s \in Sockets, Setup(s), UNCHANGED refused PROVE Told'
  BY <1>0, <1>2, SetupCalm, CalmTold DEF Told
<1>3. ASSUME NEW s \in Sockets, Close(s) PROVE Told'
  <2>1. close(s) /\ refused' = refused \ {s} BY <1>3 DEF Close
  <2>2. Calm(socks, descriptors, socks', descriptors') /\ socks'[s].fd = 0 BY <2>1, CloseCalm
  <2>3. Losses(socks', descriptors') \subseteq refused /\ s \notin Losses(socks', descriptors')
    BY <1>0, <2>2, CalmTold DEF Losses
  <2> QED BY <2>1, <2>3 DEF Told
<1>4. ASSUME NEW s \in Sockets, Accept(s), UNCHANGED refused PROVE Told'
  <2>1. PICK client \in Sockets : accept(s, client) BY <1>4 DEF Accept
  <2>2. CASE UNCHANGED << socks, descriptors >> BY <1>1, <1>4, <2>2
  <2>3. CASE \E h : Taken(socks, descriptors, socks', descriptors', client, h)
    <3>1. Lives(socks, descriptors) /\ Ways(socks, descriptors, socks', descriptors', client)
      BY <2>3 DEF Ways, Inv, Good
    <3>2. Losses(socks', descriptors') \subseteq Losses(socks, descriptors) \cup {client}
      BY <3>1, LossesWays
    <3>3. client \notin Losses(socks', descriptors') BY <2>3 DEF Taken, Losses
    <3> QED BY <1>4, <3>2, <3>3 DEF Told
  <2> QED BY <2>1, <2>2, <2>3, AcceptWays
<1>5. ASSUME NEW s \in Sockets, Put(s) \/ Flip(s) \/ Compact(s), UNCHANGED refused PROVE Told'
  BY <1>1, <1>5 DEF Put, Flip, Compact, Quiet
<1>6. ASSUME NEW s \in Sockets, Write(s) \/ Read(s), UNCHANGED refused PROVE Told'
  BY <1>6, TransferTold DEF Write, Read
<1> QED BY <1>1, <1>2, <1>3, <1>4, <1>5, <1>6, ConnectTold DEF Next, vars

LEMMA InitTold == MCInit => Told
BY DEF MCInit, Init, Told, Losses, Fresh, NULL_SOCKET

LEMMA InvFlagsMatch == Inv /\ Told => FlagsMatch
<1> SUFFICES ASSUME Inv, Told, NEW s \in Sockets PROVE FlagsAgree(s) /\ (Lost(s) => s \in refused)
  BY DEF FlagsMatch
<1>1. Lives(socks, descriptors) /\ Agree(socks, descriptors) /\ Ends(descriptors) BY DEF Inv, Good
<1>2. Usable(s) <=> socks[s].fd # NULL_SOCKET BY <1>1 DEF Usable, Has, Lives, NULL_SOCKET
<1>3. ASSUME socks[s].fd # NULL_SOCKET
      PROVE  /\ Has(s, "CONNECTED") => Descriptor(s).state = "connected"
             /\ Has(s, "LISTENING") <=> Descriptor(s).state = "listening"
             /\ Has(s, "BINDED") <=> Descriptor(s).state \in {"bound", "listening"}
             /\ Has(s, "SHUTDOWN_OUT") <=> Descriptor(s).shut_out
             /\ \A t \in Sockets \ {s} : socks[t].fd # socks[s].fd
  BY <1>1, <1>3 DEF Has, Descriptor, NULL_SOCKET, Agree, Lives
<1>4. ASSUME Has(s, "CONNECTED") PROVE descriptors[Peer(s)].peer = socks[s].fd
  <2>1. socks[s].fd # 0 /\ socks[s].fd \in DOMAIN descriptors BY <1>1, <1>4 DEF Lives, Has
  <2>2. descriptors[socks[s].fd].state = "connected" BY <1>1, <1>4, <2>1 DEF Agree, Has
  <2> QED BY <1>1, <2>1, <2>2 DEF Ends, Peer, Descriptor
<1>5. Lost(s) => s \in refused
  BY DEF Lost, Told, Losses, Linked, Has, Descriptor, NULL_SOCKET
<1> QED BY <1>2, <1>3, <1>4, <1>5 DEF FlagsAgree

\* However many sockets connect, listen, accept, shut down and close, and
\* whichever of their calls throw, the flags of each say no more than its
\* descriptor is, no descriptor has two owners, a connected socket is the peer
\* of its peer, and a connection without its flag is the work of a connect that
\* threw, the last of its socket (socket.hpp:1060-1185).
THEOREM FlagsAlwaysMatch == Spec => []FlagsMatch
<1>1. MCInit => Inv /\ Told BY InitInv, InitTold
<1>2. (Inv /\ Told) /\ [Next]_vars => (Inv /\ Told)'
  <2>1. Inv /\ [Next]_vars => Inv' BY NextInv
  <2>2. Inv /\ Told /\ [Next]_vars => Told' BY NextTold
  <2> QED BY <2>1, <2>2
<1>3. Inv /\ Told => FlagsMatch BY InvFlagsMatch
<1> QED BY <1>1, <1>2, <1>3, PTL DEF Spec
-----------------------------------------------------------------------------
(* The bytes between two connected sockets, for buffers of any size: none   *)
(* is lost, doubled or overtaken, whatever part of a buffer each call moves. *)

Areas  == [1 .. Capacity -> Nat]
Places == 0 .. Capacity
Buffers == [data : Areas, position : Places, limit : Places]
Buffer(b) == b \in Buffers /\ b.position <= b.limit
Empty(b) == Buffer(b) /\ b.position = 0 /\ b.limit = Capacity

\* What a client has put into its buffer and the system has not taken.
Waits(a) == IF a.draining THEN Unread(a.out) ELSE SubSeq(a.out.data, 1, a.out.position)
UpTo(n)  == [i \in 1 .. n |-> i]
-----------------------------------------------------------------------------
(* Buffers *)

LEMMA CapacityIs ==
  ASSUME NEW b, Buffer(b)
  PROVE  /\ Capacity \in Nat /\ b.data \in Seq(Nat) /\ Len(b.data) = Capacity
         /\ capacity(b) = Capacity /\ remaining(b) = b.limit - b.position
         /\ b.position \in 0 .. Capacity /\ b.limit \in b.position .. Capacity
<1>1. Capacity \in Nat BY BufferAssumption
<1>2. b.data \in [1 .. Capacity -> Nat] /\ b.position \in 0 .. Capacity /\ b.limit \in 0 .. Capacity
      /\ b.position <= b.limit
  BY DEF Buffer, Buffers, Areas, Places
<1>3. b.data \in Seq(Nat) /\ Len(b.data) = Capacity BY <1>1, <1>2, IsSequence
<1>4. remaining(b) = b.limit - b.position BY <1>1, <1>2 DEF remaining
<1>5. b.limit \in b.position .. Capacity BY <1>1, <1>2
<1> QED BY <1>1, <1>2, <1>3, <1>4, <1>5 DEF capacity

\* A part of a buffer's area.
LEMMA Part ==
  ASSUME NEW n \in Nat, NEW data \in [1 .. n -> Nat], NEW i \in 0 .. n, NEW j \in i .. n
  PROVE  /\ SubSeq(data, i + 1, j) \in Seq(Nat) /\ Len(SubSeq(data, i + 1, j)) = j - i
         /\ \A k \in 1 .. j - i : SubSeq(data, i + 1, j)[k] = data[i + k]
<1>1. \A k \in i + 1 .. j : data[k] \in Nat OBVIOUS
<1>2. i + 1 \in Int /\ j \in Int OBVIOUS
<1>3. /\ SubSeq(data, i + 1, j) \in Seq(Nat)
      /\ Len(SubSeq(data, i + 1, j)) = IF i + 1 <= j THEN j - (i + 1) + 1 ELSE 0
      /\ \A k \in 1 .. j - (i + 1) + 1 : SubSeq(data, i + 1, j)[k] = data[i + 1 + k - 1]
  BY <1>1, <1>2, SubSeqProperties
<1>4. j - (i + 1) + 1 = j - i OBVIOUS
<1>5. \A k \in 1 .. j - i : i + 1 + k - 1 = i + k OBVIOUS
<1>6. Len(SubSeq(data, i + 1, j)) = j - i BY <1>3
<1> QED BY <1>3, <1>4, <1>5, <1>6

LEMMA UnreadIs ==
  ASSUME NEW b, Buffer(b)
  PROVE  /\ Unread(b) \in Seq(Nat) /\ Len(Unread(b)) = b.limit - b.position
         /\ \A k \in 1 .. b.limit - b.position : Unread(b)[k] = b.data[b.position + k]
<1>1. Capacity \in Nat /\ b.position \in 0 .. Capacity /\ b.limit \in b.position .. Capacity
  BY CapacityIs
<1>2. b.data \in [1 .. Capacity -> Nat] BY DEF Buffer, Buffers, Areas
<1> QED BY <1>1, <1>2, Part DEF Unread

LEMMA FrontIs ==
  ASSUME NEW b, Buffer(b)
  PROVE  /\ SubSeq(b.data, 1, b.position) \in Seq(Nat)
         /\ Len(SubSeq(b.data, 1, b.position)) = b.position
         /\ \A k \in 1 .. b.position : SubSeq(b.data, 1, b.position)[k] = b.data[k]
<1>1. Capacity \in Nat /\ b.position \in 0 .. Capacity BY CapacityIs
<1>2. b.data \in [1 .. Capacity -> Nat] BY DEF Buffer, Buffers, Areas
<1>3. 0 \in 0 .. Capacity /\ 0 + 1 = 1 BY <1>1
<1>4. /\ SubSeq(b.data, 0 + 1, b.position) \in Seq(Nat)
      /\ Len(SubSeq(b.data, 0 + 1, b.position)) = b.position - 0
      /\ \A k \in 1 .. b.position - 0 : SubSeq(b.data, 0 + 1, b.position)[k] = b.data[0 + k]
  BY <1>1, <1>2, <1>3, Part
<1>5. b.position - 0 = b.position /\ \A k \in 1 .. b.position : 0 + k = k BY <1>1
<1> QED BY <1>3, <1>4, <1>5

\* c is b with bytes stored behind the place `from'.
Stored(b, from, bytes, c) ==
  /\ c \in [data : Areas, position : Places, limit : Places]
  /\ c.position = b.position /\ c.limit = b.limit
  /\ \A i \in 1 .. Capacity :
       c.data[i] = IF i - from \in 1 .. Len(bytes) THEN bytes[i - from] ELSE b.data[i]

LEMMA Filled ==
  ASSUME NEW b, Buffer(b), NEW from \in Nat, NEW bytes \in Seq(Nat)
  PROVE  Stored(b, from, bytes, Fill(b, from, bytes))
<1> DEFINE d == [i \in 1 .. Capacity |-> IF i - from \in 1 .. Len(bytes) THEN bytes[i - from] ELSE b.data[i]]
<1>1. /\ b.data \in [1 .. Capacity -> Nat] /\ DOMAIN bytes = 1 .. Len(bytes)
      /\ DOMAIN b.data = 1 .. Capacity
  BY DEF Buffer, Buffers, Areas
<1>2. Fill(b, from, bytes) = [b EXCEPT !.data = d] BY <1>1 DEF Fill
<1>3. d \in Areas
  <2>1. \A j \in 1 .. Len(bytes) : bytes[j] \in Nat BY ElementOfSeq
  <2>2. \A i \in 1 .. Capacity :
          (IF i - from \in 1 .. Len(bytes) THEN bytes[i - from] ELSE b.data[i]) \in Nat
    BY <1>1, <2>1
  <2> QED BY <2>2 DEF Areas
<1>4. \A i \in 1 .. Capacity : d[i] = IF i - from \in 1 .. Len(bytes) THEN bytes[i - from] ELSE b.data[i]
  OBVIOUS
<1> HIDE DEF d
<1> QED BY <1>2, <1>3, <1>4 DEF Buffer, Buffers, Stored

LEMMA Moved ==
  ASSUME NEW D, NEW P, NEW b \in [data : D, position : P, limit : P], NEW i \in P, NEW j \in P
  PROVE  /\ [b EXCEPT !.position = i, !.limit = j] \in [data : D, position : P, limit : P]
         /\ [b EXCEPT !.position = i, !.limit = j].data = b.data
         /\ [b EXCEPT !.position = i, !.limit = j].position = i
         /\ [b EXCEPT !.position = i, !.limit = j].limit = j
OBVIOUS

LEMMA MovedTo ==
  ASSUME NEW D, NEW P, NEW b \in [data : D, position : P, limit : P], NEW i \in P
  PROVE  /\ [b EXCEPT !.position = i] \in [data : D, position : P, limit : P]
         /\ [b EXCEPT !.position = i].data = b.data
         /\ [b EXCEPT !.position = i].position = i
         /\ [b EXCEPT !.position = i].limit = b.limit
OBVIOUS

LEMMA Clearing ==
  ASSUME NEW b, Buffer(b)
  PROVE  Empty(clear(b))
<1>1. capacity(b) = Capacity /\ Capacity \in Nat BY CapacityIs
<1>2. b \in [data : Areas, position : Places, limit : Places]
  BY DEF Buffer, Buffers
<1> DEFINE c == [b EXCEPT !.position = 0, !.limit = Capacity]
<1>3. clear(b) = c BY <1>1 DEF clear
<1>4. 0 \in Places /\ Capacity \in Places /\ 0 <= Capacity BY <1>1 DEF Places
<1>5. c \in [data : Areas, position : Places, limit : Places] /\ c.position = 0 /\ c.limit = Capacity
  BY <1>2, <1>4, Moved
<1> HIDE DEF c
<1> QED BY <1>3, <1>4, <1>5 DEF Empty, Buffer, Buffers

LEMMA Flipping ==
  ASSUME NEW b, Buffer(b)
  PROVE  Buffer(flip(b)) /\ Unread(flip(b)) = SubSeq(b.data, 1, b.position)
<1>1. Capacity \in Nat /\ b.position \in 0 .. Capacity BY CapacityIs
<1>2. b \in [data : Areas, position : Places, limit : Places]
  BY DEF Buffer, Buffers
<1> DEFINE c == [b EXCEPT !.position = 0, !.limit = b.position]
<1>3. flip(b) = c BY <1>2 DEF flip
<1>4. 0 \in Places /\ b.position \in Places /\ 0 <= b.position BY <1>1 DEF Places
<1>5. /\ c \in [data : Areas, position : Places, limit : Places]
      /\ c.data = b.data /\ c.position = 0 /\ c.limit = b.position
  BY <1>2, <1>4, Moved
<1> HIDE DEF c
<1>6. 0 + 1 = 1 OBVIOUS
<1> QED BY <1>3, <1>4, <1>5, <1>6 DEF Unread, Buffer, Buffers

LEMMA Putting ==
  ASSUME NEW b, Buffer(b), b.limit = Capacity, remaining(b) > 0, NEW byte \in Nat
  PROVE  /\ Buffer(put(b, byte)) /\ put(b, byte).limit = Capacity
         /\ put(b, byte).position = b.position + 1
         /\ SubSeq(put(b, byte).data, 1, b.position + 1) = SubSeq(b.data, 1, b.position) \o << byte >>
<1> DEFINE f == Fill(b, b.position, << byte >>)
<1> DEFINE c == put(b, byte)
<1> DEFINE s == SubSeq(b.data, 1, b.position)
<1>1. /\ Capacity \in Nat /\ b.position \in 0 .. Capacity /\ b.position + 1 \in 0 .. Capacity
      /\ << byte >> \in Seq(Nat) /\ Len(<< byte >>) = 1 /\ << byte >>[1] = byte
  BY CapacityIs
<1>2. Stored(b, b.position, << byte >>, f)
  <2>1. b.position \in Nat BY <1>1
  <2> QED BY <1>1, <2>1, Filled
<1> HIDE DEF f
<1>3. /\ f \in [data : Areas, position : Places, limit : Places]
      /\ f.position = b.position /\ f.limit = b.limit
      /\ \A i \in 1 .. Capacity : f.data[i] =
           IF i - b.position \in 1 .. Len(<< byte >>) THEN << byte >>[i - b.position] ELSE b.data[i]
  BY <1>2 DEF Stored
<1>4. Buffer(c) /\ c.limit = Capacity /\ c.position = b.position + 1 /\ c.data = f.data
  <2>1. c = [f EXCEPT !.position = b.position + 1] BY <1>3 DEF put, f
  <2>2. b.position + 1 \in Places /\ b.position + 1 <= Capacity BY <1>1 DEF Places
  <2>3. /\ c \in [data : Areas, position : Places, limit : Places]
        /\ c.data = f.data /\ c.position = b.position + 1 /\ c.limit = f.limit
    BY <1>3, <2>1, <2>2, MovedTo
  <2> QED BY <1>3, <2>2, <2>3 DEF Buffer, Buffers
<1> HIDE DEF c
<1>5. /\ SubSeq(c.data, 1, c.position) \in Seq(Nat)
      /\ Len(SubSeq(c.data, 1, c.position)) = c.position
      /\ \A k \in 1 .. c.position : SubSeq(c.data, 1, c.position)[k] = c.data[k]
  BY <1>4, FrontIs
<1>6. s \in Seq(Nat) /\ Len(s) = b.position /\ \A k \in 1 .. b.position : s[k] = b.data[k]
  BY FrontIs
<1> HIDE DEF s
<1>7. /\ s \o << byte >> \in Seq(Nat) /\ Len(s \o << byte >>) = b.position + 1
      /\ \A k \in 1 .. b.position + 1 :
           (s \o << byte >>)[k] = IF k <= b.position THEN s[k] ELSE byte
  <2>1. /\ s \o << byte >> \in Seq(Nat) /\ Len(s \o << byte >>) = Len(s) + 1
        /\ \A k \in 1 .. Len(s) + 1 :
             (s \o << byte >>)[k] = IF k <= Len(s) THEN s[k] ELSE << byte >>[k - Len(s)]
    BY <1>1, <1>6, ConcatProperties
  <2>2. \A k \in 1 .. b.position + 1 : k <= b.position \/ k - b.position = 1 BY <1>1
  <2> QED BY <1>1, <1>6, <2>1, <2>2
<1>8. \A k \in 1 .. b.position + 1 : f.data[k] = IF k <= b.position THEN b.data[k] ELSE byte
  <2> TAKE k \in 1 .. b.position + 1
  <2>1. k \in 1 .. Capacity BY <1>1
  <2>2. f.data[k] = IF k - b.position \in 1 .. 1 THEN << byte >>[k - b.position] ELSE b.data[k]
    BY <1>1, <1>3, <2>1
  <2>3. CASE k <= b.position
    <3>1. k - b.position \notin 1 .. 1 BY <1>1, <2>3
    <3> QED BY <2>2, <2>3, <3>1
  <2>4. CASE k = b.position + 1
    <3>1. k - b.position = 1 /\ ~(k <= b.position) BY <1>1, <2>4
    <3> QED BY <1>1, <2>2, <3>1
  <2> QED BY <1>1, <2>3, <2>4
<1>9. \A k \in 1 .. b.position + 1 : SubSeq(c.data, 1, c.position)[k] = (s \o << byte >>)[k]
  <2> TAKE k \in 1 .. b.position + 1
  <2>1. k <= b.position => k \in 1 .. b.position BY <1>1
  <2>2. SubSeq(c.data, 1, c.position)[k] = f.data[k] BY <1>4, <1>5
  <2>3. (s \o << byte >>)[k] = IF k <= b.position THEN s[k] ELSE byte BY <1>7
  <2>4. k <= b.position => s[k] = b.data[k] BY <1>6, <2>1
  <2> QED BY <1>8, <2>2, <2>3, <2>4
<1>10. SubSeq(c.data, 1, c.position) = s \o << byte >>
  <2> DEFINE v == SubSeq(c.data, 1, c.position)
  <2> DEFINE w == s \o << byte >>
  <2>1. v \in Seq(Nat) /\ w \in Seq(Nat) /\ Len(v) = Len(w) BY <1>4, <1>5, <1>7
  <2>2. Len(v) = b.position + 1 BY <1>4, <1>5
  <2>3. \A k \in 1 .. Len(v) : v[k] = w[k] BY <1>9, <2>2
  <2> HIDE DEF v, w
  <2>4. v = w BY <2>1, <2>3, SeqEqual
  <2> QED BY <2>4 DEF v, w
<1> QED BY <1>4, <1>10 DEF c, s

\* The system takes k bytes.
LEMMA Taking ==
  ASSUME NEW b, Buffer(b), NEW k \in 1 .. remaining(b)
  PROVE  /\ Buffer(Written(b, k)) /\ Written(b, k).limit = b.limit
         /\ Unread(b) = SubSeq(Unread(b), 1, k) \o Unread(Written(b, k))
<1> DEFINE u == Unread(b)
<1> DEFINE c == Written(b, k)
<1>1. /\ Capacity \in Nat /\ b.position \in 0 .. Capacity /\ b.limit \in b.position .. Capacity
      /\ k \in 1 .. b.limit - b.position /\ k \in Nat /\ k > 0
  BY CapacityIs
<1>2. c = [b EXCEPT !.position = b.position + k] BY <1>1 DEF Written, position
<1>3. /\ Buffer(c) /\ c.limit = b.limit /\ c.position = b.position + k /\ c.data = b.data
  <2>1. b.position + k \in Places /\ b.position + k <= b.limit BY <1>1 DEF Places
  <2>2. b \in [data : Areas, position : Places, limit : Places] BY DEF Buffer, Buffers
  <2>3. /\ c \in [data : Areas, position : Places, limit : Places]
        /\ c.data = b.data /\ c.position = b.position + k /\ c.limit = b.limit
    BY <1>2, <2>1, <2>2, MovedTo
  <2> QED BY <2>1, <2>3 DEF Buffer, Buffers
<1> HIDE DEF c
<1>4. /\ u \in Seq(Nat) /\ Len(u) = b.limit - b.position
      /\ \A i \in 1 .. b.limit - b.position : u[i] = b.data[b.position + i]
  BY UnreadIs
<1>5. /\ Unread(c) \in Seq(Nat) /\ Len(Unread(c)) = c.limit - c.position
      /\ \A i \in 1 .. c.limit - c.position : Unread(c)[i] = c.data[c.position + i]
  BY <1>3, UnreadIs
<1> HIDE DEF u
<1>6. /\ SubSeq(u, k + 1, Len(u)) \in Seq(Nat) /\ Len(SubSeq(u, k + 1, Len(u))) = Len(u) - k
      /\ \A i \in 1 .. Len(u) - k : SubSeq(u, k + 1, Len(u))[i] = u[k + i]
  <2>1. u \in [1 .. Len(u) -> Nat] /\ Len(u) \in Nat /\ k \in 0 .. Len(u) /\ Len(u) \in k .. Len(u)
    BY <1>1, <1>4
  <2> QED BY <2>1, Part
<1>7. Len(Unread(c)) = Len(u) - k
  <2> DEFINE p == b.position
  <2> DEFINE l == b.limit
  <2>1. p \in Nat /\ l \in Nat /\ k \in Nat BY <1>1
  <2>2. Len(u) = l - p /\ Len(Unread(c)) = l - (p + k) BY <1>3, <1>4, <1>5
  <2> HIDE DEF p, l
  <2> QED BY <2>1, <2>2
<1>8. \A i \in 1 .. Len(u) - k : SubSeq(u, k + 1, Len(u))[i] = Unread(c)[i]
  <2> TAKE i \in 1 .. Len(u) - k
  <2> DEFINE p == b.position
  <2> DEFINE l == b.limit
  <2>5. p \in Nat /\ l \in Nat /\ k \in Nat BY <1>1
  <2>0. /\ p \in Nat /\ l \in Nat /\ k \in Nat
        /\ Len(u) = l - p /\ c.position = p + k /\ c.limit = l
    BY <2>5, <1>3, <1>4
  <2>1. k + i \in 1 .. l - p /\ i \in 1 .. c.limit - c.position /\ p + (k + i) = c.position + i
    <3> HIDE DEF p, l
    <3> QED BY <2>0
  <2>2. u[k + i] = b.data[b.position + (k + i)] BY <1>4, <2>1
  <2>3. Unread(c)[i] = c.data[c.position + i] BY <1>5, <2>1
  <2> QED BY <1>3, <1>6, <2>1, <2>2, <2>3
<1>9. SubSeq(u, k + 1, Len(u)) = Unread(c) BY <1>5, <1>6, <1>7, <1>8, SeqEqual
<1>10. SubSeq(u, 1, k) \o SubSeq(u, k + 1, Len(u)) = SubSeq(u, 1, Len(u))
  <2>1. 1 \in 1 .. Len(u) + 1 /\ k \in 1 - 1 .. Len(u) /\ Len(u) \in k .. Len(u)
    BY <1>1, <1>4
  <2> QED BY <1>4, <2>1, ConcatAdjacentSubSeq
<1>11. SubSeq(u, 1, Len(u)) = u BY <1>4, SubSeqFull
<1> QED BY <1>3, <1>9, <1>10, <1>11 DEF c, u

\* An area that starts with the numbers e.
LEMMA StartsWith ==
  ASSUME NEW c, Buffer(c), NEW e \in Seq(Nat), Len(e) = c.position,
         \A i \in 1 .. c.position : c.data[i] = e[i]
  PROVE  SubSeq(c.data, 1, c.position) = e
<1>1. /\ SubSeq(c.data, 1, c.position) \in Seq(Nat)
      /\ Len(SubSeq(c.data, 1, c.position)) = c.position
      /\ \A k \in 1 .. c.position : SubSeq(c.data, 1, c.position)[k] = c.data[k]
  BY FrontIs
<1> QED BY <1>1, SeqEqual

LEMMA Storing ==
  ASSUME NEW b, Buffer(b), NEW e \in Seq(Nat), Len(e) <= Capacity, NEW c, Buffer(c),
         c.data = Fill(b, 0, e).data, c.position = Len(e)
  PROVE  SubSeq(c.data, 1, c.position) = e
<1>1. Stored(b, 0, e, Fill(b, 0, e)) BY Filled
<1>2. \A i \in 1 .. Capacity :
        c.data[i] = IF i - 0 \in 1 .. Len(e) THEN e[i - 0] ELSE b.data[i]
  BY <1>1 DEF Stored
<1>3. \A i \in 1 .. c.position : c.data[i] = e[i]
  <2> TAKE i \in 1 .. c.position
  <2>1. Len(e) \in Nat /\ Capacity \in Nat BY CapacityIs
  <2>2. i \in 1 .. Capacity /\ i - 0 = i /\ i \in 1 .. Len(e) BY <2>1
  <2> QED BY <1>2, <2>2
<1> QED BY <1>3, StartsWith

LEMMA Compacting ==
  ASSUME NEW b, Buffer(b), NEW c, c = IF remaining(b) > 0 THEN compact(b) ELSE clear(b)
  PROVE  Buffer(c) /\ c.limit = Capacity /\ SubSeq(c.data, 1, c.position) = Unread(b)
<1>1. Capacity \in Nat /\ capacity(b) = Capacity /\ remaining(b) = b.limit - b.position
      /\ b.position \in 0 .. Capacity /\ b.limit \in b.position .. Capacity
  BY CapacityIs
<1>2. Unread(b) \in Seq(Nat) /\ Len(Unread(b)) = b.limit - b.position BY UnreadIs
<1>3. CASE remaining(b) > 0
  <2> DEFINE f == Fill(b, 0, Unread(b))
  <2>1. f \in [data : Areas, position : Places, limit : Places]
    BY <1>2, Filled DEF Stored
  <2> DEFINE x == [f EXCEPT !.position = remaining(b), !.limit = Capacity]
  <2>2. c = x BY <1>1, <1>3 DEF compact
  <2>3. remaining(b) \in Places /\ Capacity \in Places /\ remaining(b) <= Capacity
    BY <1>1 DEF Places
  <2>4. /\ x \in [data : Areas, position : Places, limit : Places]
        /\ x.data = f.data /\ x.position = remaining(b) /\ x.limit = Capacity
    <3> HIDE DEF f
    <3> QED BY <2>1, <2>3, Moved
  <2> HIDE DEF x
  <2>5. Buffer(c) BY <2>2, <2>3, <2>4 DEF Buffer, Buffers
  <2>6. c.data = Fill(b, 0, Unread(b)).data /\ c.position = Len(Unread(b)) /\ Len(Unread(b)) <= Capacity
    BY <1>1, <1>2, <2>2, <2>3, <2>4
  <2>7. SubSeq(c.data, 1, c.position) = Unread(b) BY <1>2, <2>5, <2>6, Storing
  <2> QED BY <2>2, <2>4, <2>5, <2>7
<1>4. CASE ~(remaining(b) > 0)
  <2>1. Buffer(c) /\ c.position = 0 /\ c.limit = Capacity BY <1>4, Clearing DEF Empty
  <2>2. Len(Unread(b)) = c.position BY <1>1, <1>2, <1>4, <2>1
  <2>3. \A i \in 1 .. c.position : c.data[i] = Unread(b)[i] BY <2>1
  <2> QED BY <1>2, <2>1, <2>2, <2>3, StartsWith
<1> QED BY <1>3, <1>4

\* What was received into an empty buffer is what it holds.
LEMMA Receiving ==
  ASSUME NEW b, Empty(b), NEW bytes \in Seq(Nat), Len(bytes) \in 1 .. remaining(b)
  PROVE  /\ Buffer(flip(Received(b, Len(bytes), bytes)))
         /\ Unread(flip(Received(b, Len(bytes), bytes))) = bytes
<1> DEFINE f == Fill(b, 0, bytes)
<1> DEFINE c == Received(b, Len(bytes), bytes)
<1>1. Buffer(b) /\ b.position = 0 /\ b.limit = Capacity BY DEF Empty
<1>2. Capacity \in Nat /\ remaining(b) = Capacity BY <1>1, CapacityIs
<1>3. Len(bytes) \in Nat /\ Len(bytes) > 0 /\ Len(bytes) <= Capacity BY <1>2
<1>4. f \in [data : Areas, position : Places, limit : Places] /\ f.position = 0 /\ f.limit = Capacity
  BY <1>1, Filled DEF Stored
<1>5. c = [f EXCEPT !.position = Len(bytes)]
  BY <1>3, <1>4 DEF Received
<1>6. Len(bytes) \in Places BY <1>2, <1>3 DEF Places
<1>7. /\ c \in [data : Areas, position : Places, limit : Places]
      /\ c.data = f.data /\ c.position = Len(bytes) /\ c.limit = f.limit
  <2> HIDE DEF f, c
  <2> QED BY <1>4, <1>5, <1>6, MovedTo
<1>8. Buffer(c) BY <1>3, <1>4, <1>7 DEF Buffer, Buffers
<1> HIDE DEF c
<1>9. SubSeq(c.data, 1, c.position) = bytes BY <1>1, <1>3, <1>7, <1>8, Storing
<1>10. Buffer(flip(c)) /\ Unread(flip(c)) = SubSeq(c.data, 1, c.position) BY <1>8, Flipping
<1> QED BY <1>9, <1>10 DEF c
-----------------------------------------------------------------------------
(* The invariant, of any sockets, descriptors and clients. *)

App(a) ==
  /\ a \in [out : Buffers, draining : BOOLEAN, sent : Nat, in : Buffers, got : Seq(Nat)]
  /\ Buffer(a.out) /\ Empty(a.in)
  /\ ~a.draining => a.out.limit = Capacity
Apps(ap) == ap = [s \in Sockets |-> ap[s]] /\ \A s \in Sockets : App(ap[s])

Other(so, ds, s) == ds[so[s].fd].peer

\* Nothing has happened to the buffers of a socket before it is connected.
Idle(a) == a.sent = 0 /\ a.got = << >> /\ ~a.draining /\ a.out.position = 0
Still(so, ap) == \A s \in Sockets : so[s].flags \cap {"CONNECTED", "CLOSED"} = {} => Idle(ap[s])
Silent(ds) == \A d \in DOMAIN ds :
  ds[d].inbox \in Seq(Nat) /\ (ds[d].state # "connected" => ds[d].inbox = << >>)

\* Nothing comes from an end that nobody sends from,
Hushed(so, ds) == \A d : Mute(so, ds, d) => ds[ds[d].peer].inbox = << >>

\* what was sent is what was received, is on the way or waits in a buffer,
Streamed(so, ds, ap) == \A s, t \in Sockets :
  Linked(so, s) /\ Linked(so, t) /\ Other(so, ds, s) = so[t].fd =>
    ap[t].got \o ds[so[t].fd].inbox \o Waits(ap[s]) = UpTo(ap[s].sent)
\* and so it is while nobody receives at the other end yet.
Early(so, ds, ap) == \A s \in Sockets :
  Linked(so, s) /\ Mute(so, ds, Other(so, ds, s)) =>
    /\ ap[s].got = << >> /\ ds[so[s].fd].inbox = << >>
    /\ ds[Other(so, ds, s)].inbox \o Waits(ap[s]) = UpTo(ap[s].sent)

Ordered(so, ds, ap) ==
  Apps(ap) /\ Still(so, ap) /\ Silent(ds) /\ Hushed(so, ds) /\ Streamed(so, ds, ap) /\ Early(so, ds, ap)

LEMMA WaitsIs ==
  ASSUME NEW a, App(a)
  PROVE  Waits(a) \in Seq(Nat) /\ (Idle(a) => Waits(a) = << >>)
<1>1. Buffer(a.out) BY DEF App
<1>2. Unread(a.out) \in Seq(Nat) /\ SubSeq(a.out.data, 1, a.out.position) \in Seq(Nat)
      /\ Len(SubSeq(a.out.data, 1, a.out.position)) = a.out.position
  BY <1>1, UnreadIs, FrontIs
<1>3. Len(SubSeq(a.out.data, 1, a.out.position)) = 0 => SubSeq(a.out.data, 1, a.out.position) = << >>
  BY <1>2, EmptySeq
<1> QED BY <1>2, <1>3 DEF Waits, Idle

\* A connected object owns its descriptor, which is the peer of its peer.
LEMMA LinkedIs ==
  ASSUME NEW so, NEW ds, Good(so, ds), NEW s \in Sockets, Linked(so, s)
  PROVE  /\ so[s].fd \in DOMAIN ds /\ so[s].fd # 0 /\ ds[so[s].fd].state = "connected"
         /\ Other(so, ds, s) \in DOMAIN ds /\ ds[Other(so, ds, s)].state = "connected"
         /\ ds[Other(so, ds, s)].peer = so[s].fd
         /\ \A t \in Sockets : so[t].fd = so[s].fd => t = s
         /\ ~Mute(so, ds, so[s].fd)
<1>1. Lives(so, ds) /\ Agree(so, ds) /\ Ends(ds) /\ Queues(so, ds) BY DEF Good
<1>2. so[s].fd # 0 /\ so[s].fd \in DOMAIN ds /\ \A t \in Sockets : so[t].fd = so[s].fd => t = s
  BY <1>1 DEF Lives, Linked
<1>3. ds[so[s].fd].state = "connected" BY <1>1, <1>2 DEF Agree, Linked
<1>4. ~Mute(so, ds, so[s].fd) BY <1>1, <1>2 DEF Queues, InQueue, Mute
<1> QED BY <1>1, <1>2, <1>3, <1>4 DEF Ends, Other

LEMMA MuteIs ==
  ASSUME NEW so, NEW ds, Good(so, ds), NEW d, Mute(so, ds, d)
  PROVE  /\ d \in DOMAIN ds /\ ds[d].state = "connected"
         /\ ds[d].peer \in DOMAIN ds /\ ds[ds[d].peer].state = "connected"
         /\ ds[ds[d].peer].peer = d
         /\ \A t \in Sockets : Linked(so, t) => so[t].fd # d
<1>1. Ends(ds) BY DEF Good
<1>2. d \in DOMAIN ds /\ ds[d].state = "connected" BY DEF Mute
<1>3. \A t \in Sockets : Linked(so, t) => so[t].fd # d BY LinkedIs
<1> QED BY <1>1, <1>2, <1>3 DEF Ends
-----------------------------------------------------------------------------
(* Calls that move no byte *)

LEMMA Framed ==
  ASSUME NEW so, NEW ds, NEW ap, Good(so, ds), Ordered(so, ds, ap),
         NEW so2, NEW ds2, Calm(so, ds, so2, ds2)
  PROVE  Ordered(so2, ds2, ap)
<1>1. /\ Apps(ap) /\ Still(so, ap) /\ Silent(ds) /\ Hushed(so, ds)
      /\ Streamed(so, ds, ap) /\ Early(so, ds, ap)
  BY DEF Ordered
<1>2. Quieter(so, ds, so2) /\ Unconnected(ds, ds2) BY DEF Calm
<1>3. Still(so2, ap) BY <1>1, <1>2 DEF Still, Quieter
<1>4. Silent(ds2)
  <2>1. << >> \in Seq(Nat) OBVIOUS
  <2> QED BY <2>1, <1>1, <1>2 DEF Silent, Unconnected
<1>5. ASSUME NEW d, Mute(so2, ds2, d) PROVE Mute(so, ds, d)
  <2>1. d \in DOMAIN ds2 /\ ds2[d].state = "connected" BY <1>5 DEF Mute
  <2>2. d \in DOMAIN ds /\ ds[d].state = "connected" BY <2>1, <1>2 DEF Unconnected
  <2>3. CASE InQueue(ds2, d)
    <3>1. InQueue(ds, d) BY <2>3, <1>2 DEF InQueue, Unconnected
    <3> QED BY <2>2, <3>1 DEF Mute
  <2>4. ASSUME NEW u \in Sockets, so2[u].fd = d, ~Linked(so2, u) PROVE Mute(so, ds, d)
    <3>1. so[u].fd = d /\ ~Linked(so, u) BY <2>2, <2>4, <1>2 DEF Quieter
    <3> QED BY <2>2, <3>1 DEF Mute
  <2> QED BY <1>5, <2>3, <2>4 DEF Mute
<1>6. ASSUME NEW s \in Sockets, Linked(so2, s)
      PROVE  /\ Linked(so, s) /\ so2[s].fd = so[s].fd /\ Other(so2, ds2, s) = Other(so, ds, s)
             /\ ds2[so2[s].fd].inbox = ds[so[s].fd].inbox
             /\ ds2[Other(so2, ds2, s)].inbox = ds[Other(so, ds, s)].inbox
  <2>1. Linked(so, s) /\ so2[s].fd = so[s].fd BY <1>2, <1>6 DEF Quieter
  <2>2. so[s].fd \in DOMAIN ds /\ Other(so, ds, s) \in DOMAIN ds BY <2>1, LinkedIs
  <2>3. Other(so2, ds2, s) = Other(so, ds, s) BY <2>1, <2>2, <1>2 DEF Other, Unconnected
  <2> QED BY <2>1, <2>2, <2>3, <1>2 DEF Unconnected
<1>7. Streamed(so2, ds2, ap) BY <1>1, <1>6 DEF Streamed
<1>8. Early(so2, ds2, ap) BY <1>1, <1>5, <1>6 DEF Early
<1>9. Hushed(so2, ds2)
  <2> SUFFICES ASSUME NEW d, Mute(so2, ds2, d) PROVE ds2[ds2[d].peer].inbox = << >>
    BY DEF Hushed
  <2>1. Mute(so, ds, d) BY <1>5
  <2>2. d \in DOMAIN ds /\ ds[d].peer \in DOMAIN ds BY <2>1, MuteIs
  <2> QED BY <2>1, <2>2, <1>1, <1>2 DEF Hushed, Unconnected
<1> QED BY <1>1, <1>3, <1>4, <1>7, <1>8, <1>9 DEF Ordered

\* A client that is not connected gives its buffers up.
LEMMA Emptied ==
  ASSUME NEW so, NEW ds, NEW ap, Ordered(so, ds, ap), NEW s \in Sockets,
         ~Linked(so, s), "CLOSED" \in so[s].flags,
         NEW a, App(a), NEW ap2, ap2 = [ap EXCEPT ![s] = a]
  PROVE  Ordered(so, ds, ap2)
<1>1. /\ Apps(ap) /\ Still(so, ap) /\ Silent(ds) /\ Hushed(so, ds)
      /\ Streamed(so, ds, ap) /\ Early(so, ds, ap)
  BY DEF Ordered
<1>2. ap2[s] = a /\ \A t \in Sockets \ {s} : ap2[t] = ap[t] BY <1>1 DEF Apps
<1>3. Apps(ap2) BY <1>1, <1>2 DEF Apps
<1>4. Still(so, ap2) BY <1>1, <1>2 DEF Still
<1>5. Streamed(so, ds, ap2) /\ Early(so, ds, ap2) BY <1>1, <1>2 DEF Streamed, Early
<1> QED BY <1>1, <1>3, <1>4, <1>5 DEF Ordered
-----------------------------------------------------------------------------
(* connect and accept *)

LEMMA Joining ==
  ASSUME NEW so, NEW ds, NEW ap, Good(so, ds), Ordered(so, ds, ap), NEW s \in Sockets,
         NEW so2, NEW ds2, NEW k, NEW there, Joined(so, ds, so2, ds2, s, k, there)
  PROVE  Ordered(so2, ds2, ap)
<1>1. /\ Apps(ap) /\ Still(so, ap) /\ Silent(ds) /\ Hushed(so, ds)
      /\ Streamed(so, ds, ap) /\ Early(so, ds, ap)
  BY DEF Ordered
<1> USE DEF Joined
<1>2. Idle(ap[s]) /\ App(ap[s]) BY <1>1 DEF Still, Apps
<1>3. /\ ap[s].got = << >> /\ Waits(ap[s]) = << >> /\ ap[s].sent = 0
      /\ << >> \o << >> = << >> /\ UpTo(0) = << >>
  BY <1>2, WaitsIs DEF Idle, UpTo
<1>4. Still(so2, ap) BY <1>1 DEF Still, Linked
<1>5. Silent(ds2)
  <2>1. << >> \in Seq(Nat) OBVIOUS
  <2> QED BY <2>1, <1>1 DEF Silent
<1>6. ASSUME NEW d, Mute(so2, ds2, d), d # k, d # there PROVE Mute(so, ds, d)
  <2>1. d \in DOMAIN ds /\ ds[d].state = "connected" BY <1>6 DEF Mute
  <2>2. InQueue(ds2, d) => InQueue(ds, d) BY <1>6
  <2>3. \A u \in Sockets : so2[u].fd = d => so2[u] = so[u] BY <1>6
  <2> HIDE DEF Joined
  <2> QED BY <1>6, <2>1, <2>2, <2>3 DEF Mute, Linked
<1>7. Hushed(so2, ds2)
  <2> SUFFICES ASSUME NEW d, Mute(so2, ds2, d) PROVE ds2[ds2[d].peer].inbox = << >>
    BY DEF Hushed
  <2>1. CASE d = k \/ d = there
    <3>1. ds2[k].inbox = << >> /\ ds2[there].inbox = << >> BY <1>1 DEF Silent
    <3> QED BY <2>1, <3>1
  <2>2. CASE d # k /\ d # there
    <3>1. Mute(so, ds, d) BY <1>6, <2>2
    <3>2. d \in DOMAIN ds \ {k} /\ ds[d].peer \in DOMAIN ds BY <3>1, <2>2, MuteIs
    <3>3. ds[ds[d].peer].inbox = << >> BY <3>1, <1>1 DEF Hushed
    <3> QED BY <3>2, <3>3
  <2> QED BY <2>1, <2>2
<1>8. ASSUME NEW t \in Sockets \ {s}, Linked(so2, t)
      PROVE  /\ Linked(so, t) /\ so2[t].fd = so[t].fd /\ so[t].fd # k /\ so[t].fd # there
             /\ Other(so2, ds2, t) = Other(so, ds, t) /\ Other(so, ds, t) \in DOMAIN ds \ {k}
             /\ Other(so, ds, t) # there
             /\ ds2[so[t].fd].inbox = ds[so[t].fd].inbox
             /\ ds2[Other(so, ds, t)].inbox = ds[Other(so, ds, t)].inbox
  <2>1. Linked(so, t) /\ so2[t] = so[t] BY <1>8 DEF Linked
  <2>2. /\ so[t].fd \in DOMAIN ds /\ Other(so, ds, t) \in DOMAIN ds
        /\ ds[so[t].fd].state = "connected" /\ ds[Other(so, ds, t)].state = "connected"
    BY <2>1, LinkedIs
  <2>3. so[t].fd \in DOMAIN ds \ {k} BY <2>2
  <2>4. Other(so2, ds2, t) = Other(so, ds, t) BY <2>1, <2>3 DEF Other
  <2> QED BY <2>1, <2>2, <2>3, <2>4
<1>9. Other(so2, ds2, s) = there BY DEF Other
<1>10. Streamed(so2, ds2, ap)
  <2> SUFFICES ASSUME NEW t \in Sockets, NEW u \in Sockets,
                      Linked(so2, t), Linked(so2, u), Other(so2, ds2, t) = so2[u].fd
               PROVE  ap[u].got \o ds2[so2[u].fd].inbox \o Waits(ap[t]) = UpTo(ap[t].sent)
    BY DEF Streamed
  <2>1. t # s
    <3>1. t = s => so2[u].fd = there /\ there # k BY <1>9
    <3> QED BY <3>1, <1>8
  <2>2. u # s BY <1>8, <2>1
  <2> HIDE DEF Joined
  <2> QED BY <1>1, <1>8, <2>1, <2>2 DEF Streamed
<1>11. Early(so2, ds2, ap)
  <2> SUFFICES ASSUME NEW t \in Sockets, Linked(so2, t), Mute(so2, ds2, Other(so2, ds2, t))
               PROVE  /\ ap[t].got = << >> /\ ds2[so2[t].fd].inbox = << >>
                      /\ ds2[Other(so2, ds2, t)].inbox \o Waits(ap[t]) = UpTo(ap[t].sent)
    BY DEF Early
  <2>1. CASE t = s
    <3>1. ds2[k].inbox = << >> BY <1>1 DEF Silent
    <3> QED BY <2>1, <3>1, <1>3, <1>9
  <2>2. CASE t # s
    <3>1. Mute(so, ds, Other(so, ds, t)) BY <1>6, <1>8, <2>2
    <3> HIDE DEF Joined
    <3> QED BY <1>1, <1>8, <2>2, <3>1 DEF Early
  <2> QED BY <2>1, <2>2
<1> QED BY <1>1, <1>4, <1>5, <1>7, <1>10, <1>11 DEF Ordered

LEMMA GettingOut ==
  ASSUME NEW so, NEW ds, NEW ap, Good(so, ds), Ordered(so, ds, ap), NEW c \in Sockets,
         NEW so2, NEW ds2, NEW h, Taken(so, ds, so2, ds2, c, h)
  PROVE  Ordered(so2, ds2, ap)
<1>1. /\ Apps(ap) /\ Still(so, ap) /\ Silent(ds) /\ Hushed(so, ds)
      /\ Streamed(so, ds, ap) /\ Early(so, ds, ap)
  BY DEF Ordered
<1> USE DEF Taken
<1>2. Idle(ap[c]) /\ App(ap[c]) BY <1>1 DEF Still, Apps
<1>3. /\ ap[c].got = << >> /\ Waits(ap[c]) = << >> /\ ap[c].sent = 0
      /\ << >> \o << >> = << >> /\ UpTo(0) = << >>
  BY <1>2, WaitsIs DEF Idle, UpTo
<1>4. Still(so2, ap) BY <1>1 DEF Still, Linked
<1>5. Silent(ds2) BY <1>1 DEF Silent
<1>6. h \in DOMAIN ds /\ ds[h].peer \in DOMAIN ds /\ ds[ds[h].peer].peer = h BY MuteIs
<1>7. ASSUME NEW d, Mute(so2, ds2, d) PROVE Mute(so, ds, d)
  <2>1. d \in DOMAIN ds /\ ds[d].state = "connected" BY <1>7 DEF Mute
  <2>2. InQueue(ds2, d) => InQueue(ds, d) OBVIOUS
  <2>3. \A u \in Sockets : ~Linked(so2, u) => so2[u] = so[u] OBVIOUS
  <2> HIDE DEF Taken
  <2> QED BY <1>7, <2>1, <2>2, <2>3 DEF Mute, Linked
<1>8. Hushed(so2, ds2)
  <2> SUFFICES ASSUME NEW d, Mute(so2, ds2, d) PROVE ds2[ds2[d].peer].inbox = << >>
    BY DEF Hushed
  <2>1. Mute(so, ds, d) BY <1>7
  <2>2. d \in DOMAIN ds /\ ds[d].peer \in DOMAIN ds BY <2>1, MuteIs
  <2> QED BY <2>1, <2>2, <1>1 DEF Hushed
<1>9. ASSUME NEW t \in Sockets \ {c}, Linked(so2, t)
      PROVE  /\ Linked(so, t) /\ so2[t].fd = so[t].fd
             /\ Other(so2, ds2, t) = Other(so, ds, t)
             /\ ds2[so[t].fd].inbox = ds[so[t].fd].inbox
             /\ ds2[Other(so, ds, t)].inbox = ds[Other(so, ds, t)].inbox
             /\ ds[Other(so, ds, t)].peer = so[t].fd
  <2>1. Linked(so, t) /\ so2[t] = so[t] BY <1>9 DEF Linked
  <2>2. /\ so[t].fd \in DOMAIN ds /\ Other(so, ds, t) \in DOMAIN ds
        /\ ds[Other(so, ds, t)].peer = so[t].fd
    BY <2>1, LinkedIs
  <2>3. Other(so2, ds2, t) = Other(so, ds, t) BY <2>1, <2>2 DEF Other
  <2> QED BY <2>1, <2>2, <2>3
<1>10. Other(so2, ds2, c) = ds[h].peer BY <1>6 DEF Other
<1>11. Streamed(so2, ds2, ap)
  <2> SUFFICES ASSUME NEW t \in Sockets, NEW u \in Sockets,
                      Linked(so2, t), Linked(so2, u), Other(so2, ds2, t) = so2[u].fd
               PROVE  ap[u].got \o ds2[so2[u].fd].inbox \o Waits(ap[t]) = UpTo(ap[t].sent)
    BY DEF Streamed
  <2>1. CASE t = c /\ u # c
    <3>1. Linked(so, u) /\ so[u].fd = ds[h].peer BY <1>9, <1>10, <2>1
    <3>2. Other(so, ds, u) = h BY <1>6, <3>1 DEF Other
    <3>3. ap[u].got = << >> /\ ds[so[u].fd].inbox = << >> BY <1>1, <3>1, <3>2 DEF Early
    <3>4. ds2[so2[u].fd].inbox = << >> BY <1>9, <2>1, <3>3
    <3> QED BY <2>1, <3>3, <3>4, <1>3
  <2>2. CASE t = c /\ u = c
    <3>1. ds[h].peer = h BY <2>2, <1>10
    <3>2. ds2[so2[u].fd].inbox = << >> BY <2>2, <3>1, <1>1, <1>6 DEF Hushed
    <3> QED BY <2>2, <3>2, <1>3
  <2>3. CASE t # c /\ u = c
    <3>1. Linked(so, t) /\ Other(so, ds, t) = h BY <1>9, <2>3
    <3>2. ds[h].inbox \o Waits(ap[t]) = UpTo(ap[t].sent) BY <1>1, <3>1 DEF Early
    <3>3. << >> \o ds[h].inbox = ds[h].inbox BY <1>1, <1>6, ConcatEmptySeq DEF Silent
    <3>4. ds2[so2[u].fd].inbox = ds[h].inbox /\ ap[u].got = << >> BY <2>3, <1>3, <1>6
    <3> QED BY <3>2, <3>3, <3>4
  <2>4. CASE t # c /\ u # c
    <3> HIDE DEF Taken
    <3> QED BY <1>1, <1>9, <2>4 DEF Streamed
  <2> QED BY <2>1, <2>2, <2>3, <2>4
<1>12. Early(so2, ds2, ap)
  <2> SUFFICES ASSUME NEW t \in Sockets, Linked(so2, t), Mute(so2, ds2, Other(so2, ds2, t))
               PROVE  /\ ap[t].got = << >> /\ ds2[so2[t].fd].inbox = << >>
                      /\ ds2[Other(so2, ds2, t)].inbox \o Waits(ap[t]) = UpTo(ap[t].sent)
    BY DEF Early
  <2>1. Mute(so, ds, Other(so2, ds2, t)) BY <1>7
  <2>2. CASE t = c
    <3>1. Mute(so, ds, ds[h].peer) BY <2>1, <2>2, <1>10
    <3>2. ds[h].inbox = << >> /\ ds[ds[h].peer].inbox = << >>
      BY <3>1, <1>1, <1>6 DEF Hushed
    <3> QED BY <2>2, <3>2, <1>3, <1>6, <1>10
  <2>3. CASE t # c
    <3>1. Mute(so, ds, Other(so, ds, t)) BY <1>9, <2>1, <2>3
    <3> HIDE DEF Taken
    <3> QED BY <1>1, <1>9, <2>3, <3>1 DEF Early
  <2> QED BY <2>2, <2>3
<1> QED BY <1>1, <1>4, <1>5, <1>8, <1>11, <1>12 DEF Ordered
-----------------------------------------------------------------------------
(* The bytes *)

LEMMA Regrouped ==
  \A e, f, g \in Seq(Nat) : (e \o f) \o g = e \o (f \o g)
<1> DEFINE S == Nat
<1>1. \A e, f, g \in Seq(S) : (e \o f) \o g = e \o (f \o g)
  <2> HIDE DEF S
  <2> TAKE e, f, g \in Seq(S)
  <2> QED BY ConcatAssociative
<1> QED BY <1>1

OnlyOf(ap, ap2, s) ==
  /\ ap2 = [t \in Sockets |-> ap2[t]] /\ App(ap2[s])
  /\ \A t \in Sockets \ {s} : ap2[t] = ap[t]

\* The client adds x to what it sends.
Grown(a, a2, x) ==
  /\ x \in Seq(Nat) /\ a2.got = a.got
  /\ Waits(a2) = Waits(a) \o x /\ UpTo(a2.sent) = UpTo(a.sent) \o x

LEMMA Growing ==
  ASSUME NEW so, NEW ds, NEW ap, Ordered(so, ds, ap), NEW s \in Sockets,
         so[s].flags \cap {"CONNECTED", "CLOSED"} # {} \/ ~Idle(ap[s]),
         Good(so, ds), NEW ap2, OnlyOf(ap, ap2, s), NEW x, Grown(ap[s], ap2[s], x)
  PROVE  Ordered(so, ds, ap2)
<1>1. /\ Apps(ap) /\ Still(so, ap) /\ Silent(ds) /\ Hushed(so, ds)
      /\ Streamed(so, ds, ap) /\ Early(so, ds, ap)
  BY DEF Ordered
<1>2. Apps(ap2) BY <1>1 DEF Apps, OnlyOf
<1>3. Still(so, ap2) BY <1>1 DEF Still, OnlyOf
<1>4. \A t \in Sockets : ap2[t].got = ap[t].got BY DEF OnlyOf, Grown
<1>5. /\ x \in Seq(Nat) /\ Waits(ap[s]) \in Seq(Nat)
      /\ Waits(ap2[s]) = Waits(ap[s]) \o x /\ UpTo(ap2[s].sent) = UpTo(ap[s].sent) \o x
  BY <1>1, WaitsIs DEF Apps, Grown
<1>6. ASSUME NEW y \in Seq(Nat), y \o Waits(ap[s]) = UpTo(ap[s].sent)
      PROVE  y \o Waits(ap2[s]) = UpTo(ap2[s].sent)
  <2>1. (y \o Waits(ap[s])) \o x = y \o (Waits(ap[s]) \o x)
    BY <1>5, Regrouped
  <2> QED BY <1>5, <1>6, <2>1
<1>7. Streamed(so, ds, ap2)
  <2> SUFFICES ASSUME NEW t \in Sockets, NEW u \in Sockets,
                      Linked(so, t), Linked(so, u), Other(so, ds, t) = so[u].fd
               PROVE  ap2[u].got \o ds[so[u].fd].inbox \o Waits(ap2[t]) = UpTo(ap2[t].sent)
    BY DEF Streamed
  <2>1. ap[u].got \o ds[so[u].fd].inbox \o Waits(ap[t]) = UpTo(ap[t].sent) BY <1>1 DEF Streamed
  <2>2. CASE t = s
    <3>1. so[u].fd \in DOMAIN ds BY LinkedIs
    <3>2. ap[u].got \in Seq(Nat) /\ ds[so[u].fd].inbox \in Seq(Nat)
      BY <3>1, <1>1 DEF Apps, App, Silent
    <3>3. ap[u].got \o ds[so[u].fd].inbox \in Seq(Nat) BY <3>2, ConcatProperties
    <3> QED BY <2>1, <2>2, <3>3, <1>4, <1>6
  <2>3. CASE t # s BY <2>1, <2>3, <1>4 DEF OnlyOf
  <2> QED BY <2>2, <2>3
<1>8. Early(so, ds, ap2)
  <2> SUFFICES ASSUME NEW t \in Sockets, Linked(so, t), Mute(so, ds, Other(so, ds, t))
               PROVE  /\ ap2[t].got = << >> /\ ds[so[t].fd].inbox = << >>
                      /\ ds[Other(so, ds, t)].inbox \o Waits(ap2[t]) = UpTo(ap2[t].sent)
    BY DEF Early
  <2>1. /\ ap[t].got = << >> /\ ds[so[t].fd].inbox = << >>
        /\ ds[Other(so, ds, t)].inbox \o Waits(ap[t]) = UpTo(ap[t].sent)
    BY <1>1 DEF Early
  <2>2. ds[Other(so, ds, t)].inbox \in Seq(Nat) BY <1>1, LinkedIs DEF Silent
  <2> QED BY <2>1, <2>2, <1>4, <1>6 DEF OnlyOf
<1> QED BY <1>1, <1>2, <1>3, <1>7, <1>8 DEF Ordered

\* Only the bytes at d change.
SameWiring(ds, ds2, d) ==
  /\ DOMAIN ds2 = DOMAIN ds
  /\ \A e \in DOMAIN ds :
       /\ ds2[e].state = ds[e].state /\ ds2[e].peer = ds[e].peer /\ ds2[e].waiting = ds[e].waiting
       /\ e # d => ds2[e].inbox = ds[e].inbox

LEMMA Wiring ==
  ASSUME NEW so, NEW ds, Good(so, ds), NEW d, NEW ds2, SameWiring(ds, ds2, d)
  PROVE  /\ \A e : Mute(so, ds2, e) <=> Mute(so, ds, e)
         /\ \A t \in Sockets : Linked(so, t) => Other(so, ds2, t) = Other(so, ds, t)
<1>1. \A e : InQueue(ds2, e) <=> InQueue(ds, e) BY DEF InQueue, SameWiring
<1>2. \A e : Mute(so, ds2, e) <=> Mute(so, ds, e) BY <1>1 DEF Mute, SameWiring
<1>3. \A t \in Sockets : Linked(so, t) => Other(so, ds2, t) = Other(so, ds, t)
  BY LinkedIs DEF Other, SameWiring
<1> QED BY <1>2, <1>3

\* Bytes that stay or go leave no more behind a mute end, nor do those that
\* come from an end which is not.
LEMMA StillHushed ==
  ASSUME NEW so, NEW ds, Good(so, ds), Hushed(so, ds), NEW d, NEW ds2, SameWiring(ds, ds2, d),
         \A e : Mute(so, ds, e) => ds[e].peer # d
  PROVE  Hushed(so, ds2)
<1> SUFFICES ASSUME NEW e, Mute(so, ds, e) PROVE ds2[ds2[e].peer].inbox = << >>
  BY Wiring DEF Hushed
<1>1. e \in DOMAIN ds /\ ds[e].peer \in DOMAIN ds BY MuteIs
<1> QED BY <1>1 DEF Hushed, SameWiring

\* The system takes x from the buffer of s to the descriptor d of its peer.
Sent(so, ds, ap, ds2, ap2, s, d, x) ==
  /\ Linked(so, s) /\ d = Other(so, ds, s) /\ SameWiring(ds, ds2, d) /\ OnlyOf(ap, ap2, s)
  /\ x \in Seq(Nat) /\ ds2[d].inbox = ds[d].inbox \o x /\ Waits(ap[s]) = x \o Waits(ap2[s])
  /\ ap2[s].got = ap[s].got /\ ap2[s].sent = ap[s].sent

LEMMA Sending ==
  ASSUME NEW so, NEW ds, NEW ap, Good(so, ds), Ordered(so, ds, ap), NEW s \in Sockets,
         NEW ds2, NEW ap2, NEW d, NEW x, Sent(so, ds, ap, ds2, ap2, s, d, x)
  PROVE  Ordered(so, ds2, ap2)
<1>1. /\ Apps(ap) /\ Still(so, ap) /\ Silent(ds) /\ Hushed(so, ds)
      /\ Streamed(so, ds, ap) /\ Early(so, ds, ap)
  BY DEF Ordered
<1>2. /\ Linked(so, s) /\ d = Other(so, ds, s) /\ SameWiring(ds, ds2, d) /\ OnlyOf(ap, ap2, s)
      /\ x \in Seq(Nat) /\ ds2[d].inbox = ds[d].inbox \o x /\ Waits(ap[s]) = x \o Waits(ap2[s])
      /\ \A t \in Sockets : ap2[t].got = ap[t].got /\ ap2[t].sent = ap[t].sent
  BY DEF Sent, OnlyOf
<1>3. /\ d \in DOMAIN ds /\ ds[d].state = "connected" /\ ds[d].peer = so[s].fd
      /\ ~Mute(so, ds, so[s].fd) /\ ds[d].inbox \in Seq(Nat)
      /\ \A t \in Sockets : so[t].fd = so[s].fd => t = s
  BY <1>1, <1>2, LinkedIs DEF Silent
<1>4. /\ \A e : Mute(so, ds2, e) <=> Mute(so, ds, e)
      /\ \A t \in Sockets : Linked(so, t) => Other(so, ds2, t) = Other(so, ds, t)
  BY <1>1, <1>2, Wiring
<1>5. Hushed(so, ds2)
  <2>1. \A e : Mute(so, ds, e) => ds[e].peer # d BY <1>3, MuteIs
  <2> QED BY <2>1, <1>1, <1>2, StillHushed
<1>6. Apps(ap2) BY <1>1, <1>2 DEF Apps, OnlyOf
<1>7. Still(so, ap2) BY <1>1, <1>2 DEF Still, OnlyOf, Linked
<1>8. Silent(ds2)
  <2>1. ds2[d].inbox \in Seq(Nat) BY <1>2, <1>3, ConcatProperties
  <2> QED BY <2>1, <1>1, <1>2, <1>3 DEF Silent, SameWiring
<1>9. Waits(ap2[s]) \in Seq(Nat) BY <1>6, WaitsIs DEF Apps
<1>10. ASSUME NEW t \in Sockets \ {s}, Linked(so, t) PROVE Other(so, ds, t) # d /\ Other(so, ds, t) \in DOMAIN ds
  BY <1>3, <1>10, LinkedIs
<1>11. Streamed(so, ds2, ap2)
  <2> SUFFICES ASSUME NEW t \in Sockets, NEW u \in Sockets,
                      Linked(so, t), Linked(so, u), Other(so, ds, t) = so[u].fd
               PROVE  ap[u].got \o ds2[so[u].fd].inbox \o Waits(ap2[t]) = UpTo(ap[t].sent)
    BY <1>2, <1>4 DEF Streamed
  <2>1. ap[u].got \o ds[so[u].fd].inbox \o Waits(ap[t]) = UpTo(ap[t].sent) BY <1>1 DEF Streamed
  <2>2. CASE t = s
    <3>1. so[u].fd = d /\ ap[u].got \in Seq(Nat) BY <2>2, <1>1, <1>2 DEF Apps, App
    <3>2. ap[u].got \o (ds[d].inbox \o x) = (ap[u].got \o ds[d].inbox) \o x
      <4>1. x \in Seq(Nat) /\ ap[u].got \in Seq(Nat) /\ ds[d].inbox \in Seq(Nat) BY <3>1, <1>2, <1>3
      <4> QED BY <4>1, Regrouped
    <3>3. ap[u].got \o ds[d].inbox \in Seq(Nat) BY <3>1, <1>3, ConcatProperties
    <3>4. ((ap[u].got \o ds[d].inbox) \o x) \o Waits(ap2[s])
            = (ap[u].got \o ds[d].inbox) \o (x \o Waits(ap2[s]))
      <4>1. x \in Seq(Nat) BY <1>2
      <4> QED BY <4>1, <3>3, <1>9, Regrouped
    <3> QED BY <2>1, <2>2, <3>1, <3>2, <3>4, <1>2
  <2>3. CASE t # s
    <3>1. ds2[so[u].fd].inbox = ds[so[u].fd].inbox /\ ap2[t] = ap[t]
      BY <2>3, <1>2, <1>10 DEF SameWiring, OnlyOf
    <3> QED BY <2>1, <3>1
  <2> QED BY <2>2, <2>3
<1>12. Early(so, ds2, ap2)
  <2> SUFFICES ASSUME NEW t \in Sockets, Linked(so, t), Mute(so, ds, Other(so, ds, t))
               PROVE  /\ ap[t].got = << >> /\ ds2[so[t].fd].inbox = << >>
                      /\ ds2[Other(so, ds, t)].inbox \o Waits(ap2[t]) = UpTo(ap[t].sent)
    BY <1>2, <1>4 DEF Early
  <2>1. /\ ap[t].got = << >> /\ ds[so[t].fd].inbox = << >>
        /\ ds[Other(so, ds, t)].inbox \o Waits(ap[t]) = UpTo(ap[t].sent)
    BY <1>1 DEF Early
  <2>2. so[t].fd # d
    <3>1. so[t].fd = d => Other(so, ds, t) = so[s].fd BY <1>3 DEF Other
    <3> QED BY <3>1, <1>3
  <2>3. ds2[so[t].fd].inbox = << >> BY <2>1, <2>2, <1>2, LinkedIs DEF SameWiring
  <2>4. CASE t = s
    <3>1. (ds[d].inbox \o x) \o Waits(ap2[s]) = ds[d].inbox \o (x \o Waits(ap2[s]))
      <4>1. x \in Seq(Nat) /\ ds[d].inbox \in Seq(Nat) BY <1>2, <1>3
      <4> QED BY <4>1, <1>9, Regrouped
    <3> QED BY <2>1, <2>3, <2>4, <3>1, <1>2
  <2>5. CASE t # s
    <3>1. ds2[Other(so, ds, t)].inbox = ds[Other(so, ds, t)].inbox /\ ap2[t] = ap[t]
      BY <2>5, <1>2, <1>10 DEF SameWiring, OnlyOf
    <3> QED BY <2>1, <2>3, <3>1
  <2> QED BY <2>4, <2>5
<1> QED BY <1>5, <1>6, <1>7, <1>8, <1>11, <1>12 DEF Ordered

\* s takes x from what has come to its descriptor, and y stays.
Came(so, ds, ap, ds2, ap2, s, x, y) ==
  /\ Linked(so, s) /\ SameWiring(ds, ds2, so[s].fd) /\ OnlyOf(ap, ap2, s)
  /\ x \in Seq(Nat) /\ y \in Seq(Nat) /\ ds[so[s].fd].inbox # << >>
  /\ ds[so[s].fd].inbox = x \o y /\ ds2[so[s].fd].inbox = y
  /\ ap2[s].got = ap[s].got \o x
  /\ ap2[s].sent = ap[s].sent /\ Waits(ap2[s]) = Waits(ap[s])

LEMMA Coming ==
  ASSUME NEW so, NEW ds, NEW ap, Good(so, ds), Ordered(so, ds, ap), NEW s \in Sockets,
         NEW ds2, NEW ap2, NEW x, NEW y, Came(so, ds, ap, ds2, ap2, s, x, y)
  PROVE  Ordered(so, ds2, ap2)
<1> DEFINE k == so[s].fd
<1>1. /\ Apps(ap) /\ Still(so, ap) /\ Silent(ds) /\ Hushed(so, ds)
      /\ Streamed(so, ds, ap) /\ Early(so, ds, ap)
  BY DEF Ordered
<1>2. /\ Linked(so, s) /\ SameWiring(ds, ds2, k) /\ OnlyOf(ap, ap2, s)
      /\ x \in Seq(Nat) /\ y \in Seq(Nat) /\ ds[k].inbox # << >>
      /\ ds[k].inbox = x \o y /\ ds2[k].inbox = y /\ ap2[s].got = ap[s].got \o x
      /\ \A t \in Sockets : ap2[t].sent = ap[t].sent /\ Waits(ap2[t]) = Waits(ap[t])
      /\ \A t \in Sockets \ {s} : ap2[t].got = ap[t].got
  BY DEF Came, OnlyOf
<1>3. /\ k \in DOMAIN ds /\ ds[k].state = "connected" /\ ~Mute(so, ds, k)
      /\ \A t \in Sockets \ {s} : so[t].fd # k
  BY <1>1, <1>2, LinkedIs
<1>4. /\ \A e : Mute(so, ds2, e) <=> Mute(so, ds, e)
      /\ \A t \in Sockets : Linked(so, t) => Other(so, ds2, t) = Other(so, ds, t)
  BY <1>1, <1>2, Wiring
<1>5. Hushed(so, ds2)
  <2>1. \A e : Mute(so, ds, e) => ds[e].peer # k BY <1>1, <1>2 DEF Hushed
  <2> QED BY <2>1, <1>1, <1>2, StillHushed
<1>6. Apps(ap2) BY <1>1, <1>2 DEF Apps, OnlyOf
<1>7. Still(so, ap2) BY <1>1, <1>2 DEF Still, OnlyOf, Linked
<1>8. Silent(ds2) BY <1>1, <1>2, <1>3 DEF Silent, SameWiring
<1> HIDE DEF k
<1>9. Streamed(so, ds2, ap2)
  <2> SUFFICES ASSUME NEW t \in Sockets, NEW u \in Sockets,
                      Linked(so, t), Linked(so, u), Other(so, ds, t) = so[u].fd
               PROVE  ap2[u].got \o ds2[so[u].fd].inbox \o Waits(ap[t]) = UpTo(ap[t].sent)
    BY <1>2, <1>4 DEF Streamed
  <2>1. ap[u].got \o ds[so[u].fd].inbox \o Waits(ap[t]) = UpTo(ap[t].sent) BY <1>1 DEF Streamed
  <2>2. CASE u = s
    <3>1. so[u].fd = k /\ ap[s].got \in Seq(Nat) BY <2>2, <1>1 DEF Apps, App, k
    <3>2. (ap[s].got \o x) \o y = ap[s].got \o (x \o y)
      <4>1. x \in Seq(Nat) /\ y \in Seq(Nat) BY <1>2
      <4> QED BY <4>1, <3>1, Regrouped
    <3> QED BY <2>1, <2>2, <3>1, <3>2, <1>2
  <2>3. CASE u # s
    <3>1. so[u].fd \in DOMAIN ds /\ so[u].fd # k BY <2>3, <1>3, LinkedIs
    <3>2. ds2[so[u].fd].inbox = ds[so[u].fd].inbox BY <3>1, <1>2 DEF SameWiring
    <3> QED BY <2>1, <2>3, <3>2, <1>2
  <2> QED BY <2>2, <2>3
<1>10. Early(so, ds2, ap2)
  <2> SUFFICES ASSUME NEW t \in Sockets, Linked(so, t), Mute(so, ds, Other(so, ds, t))
               PROVE  /\ ap2[t].got = << >> /\ ds2[so[t].fd].inbox = << >>
                      /\ ds2[Other(so, ds, t)].inbox \o Waits(ap[t]) = UpTo(ap[t].sent)
    BY <1>2, <1>4 DEF Early
  <2>1. /\ ap[t].got = << >> /\ ds[so[t].fd].inbox = << >>
        /\ ds[Other(so, ds, t)].inbox \o Waits(ap[t]) = UpTo(ap[t].sent)
    BY <1>1 DEF Early
  <2>2. t # s BY <2>1, <1>2 DEF k
  <2>3. so[t].fd # k /\ Other(so, ds, t) # k BY <2>2, <1>3
  <2>4. so[t].fd \in DOMAIN ds /\ Other(so, ds, t) \in DOMAIN ds BY LinkedIs
  <2>5. /\ ds2[so[t].fd].inbox = ds[so[t].fd].inbox
        /\ ds2[Other(so, ds, t)].inbox = ds[Other(so, ds, t)].inbox
    BY <2>3, <2>4, <1>2 DEF SameWiring
  <2> QED BY <2>1, <2>2, <2>5, <1>2
<1> QED BY <1>5, <1>6, <1>7, <1>8, <1>9, <1>10 DEF Ordered
-----------------------------------------------------------------------------
(* The calls *)

OrderInv == Inv /\ Ordered(socks, descriptors, apps)

LEMMA ConnectOrder ==
  ASSUME OrderInv, NEW s \in Sockets, connect(s)
  PROVE  Ordered(socks', descriptors', apps)
<1>1. PICK so, ds : so = [socks EXCEPT ![s] = Opened(s)] /\ ds = WithOpened(s) OBVIOUS
<1>2. Inv /\ Good(socks, descriptors) /\ Ordered(socks, descriptors, apps) BY DEF OrderInv, Inv
<1>3. Good(so, ds) /\ Calm(socks, descriptors, so, ds) /\ Ways(so, ds, socks', descriptors', s)
  BY <1>1, <1>2, ConnectWays
<1>4. Ordered(so, ds, apps) BY <1>2, <1>3, Framed
<1>5. \A so2, ds2 : Ways(so, ds, so2, ds2, s) => Ordered(so2, ds2, apps)
  BY <1>3, <1>4, Joining, GettingOut DEF Ways
<1> QED BY <1>3, <1>5

LEMMA AcceptOrder ==
  ASSUME OrderInv, NEW s \in Sockets, NEW client \in Sockets, accept(s, client)
  PROVE  Ordered(socks', descriptors', apps)
<1>1. Inv /\ Good(socks, descriptors) /\ Ordered(socks, descriptors, apps) BY DEF OrderInv, Inv
<1>2. CASE UNCHANGED << socks, descriptors >> BY <1>1, <1>2
<1>3. \A so2, ds2, h : Taken(socks, descriptors, so2, ds2, client, h) => Ordered(so2, ds2, apps)
  BY <1>1, GettingOut
<1> QED BY <1>1, <1>2, <1>3, AcceptWays

LEMMA CalmOrder ==
  ASSUME OrderInv, Calm(socks, descriptors, socks', descriptors')
  PROVE  Ordered(socks', descriptors', apps)
<1>1. Good(socks, descriptors) /\ Ordered(socks, descriptors, apps) BY DEF OrderInv, Inv
<1>2. \A so2, ds2 : Calm(socks, descriptors, so2, ds2) => Ordered(so2, ds2, apps)
  BY <1>1, Framed
<1> QED BY <1>2

LEMMA NewClient == App(NewApp) /\ Idle(NewApp)
<1>1. Empty(NewBuffer(Capacity))
  <2>1. Capacity \in Nat BY BufferAssumption
  <2>2. [i \in 1 .. Capacity |-> 0] \in Areas BY DEF Areas
  <2>3. 0 \in Places /\ Capacity \in Places BY <2>1 DEF Places
  <2> QED BY <2>1, <2>2, <2>3 DEF NewBuffer, Empty, Buffer, Buffers
<1>2. NewBuffer(Capacity) \in Buffers /\ << >> \in Seq(Nat) BY <1>1 DEF Empty, Buffer
<1> QED BY <1>1, <1>2 DEF App, NewApp, Idle, Empty

LEMMA CloseOrder ==
  ASSUME OrderInv, NEW s \in Sockets, Close(s)
  PROVE  Ordered(socks', descriptors', apps')
<1>1. Inv /\ close(s) /\ apps' = [apps EXCEPT ![s] = NewApp] BY DEF OrderInv, Close
<1>2. Ordered(socks', descriptors', apps) BY <1>1, CloseCalm, CalmOrder
<1>3. ~Linked(socks', s) /\ "CLOSED" \in socks'[s].flags BY <1>1, CloseCalm
<1>4. App(NewApp) BY NewClient
<1>5. PICK so2, ds2, ap2, a : so2 = socks' /\ ds2 = descriptors' /\ ap2 = apps' /\ a = NewApp OBVIOUS
<1>6. Ordered(so2, ds2, ap2) BY <1>1, <1>2, <1>3, <1>4, <1>5, Emptied
<1> QED BY <1>5, <1>6
-----------------------------------------------------------------------------
(* The clients *)

AppOf(a, out, draining, sent, in, got) ==
  /\ a \in [out : Buffers, draining : BOOLEAN, sent : Nat, in : Buffers, got : Seq(Nat)]
  /\ a.out = out /\ a.draining = draining /\ a.sent = sent /\ a.in = in /\ a.got = got

LEMMA AppIs ==
  ASSUME NEW a, NEW out, Buffer(out), NEW draining, ~draining => out.limit = Capacity,
         NEW sent, NEW in, Empty(in), NEW got, AppOf(a, out, draining, sent, in, got)
  PROVE  App(a)
BY DEF App, AppOf

LEMMA Altered ==
  ASSUME NEW a, App(a), NEW b \in Buffers, NEW n \in Nat, NEW g \in Seq(Nat)
  PROVE  /\ AppOf([a EXCEPT !.out = b, !.sent = n], b, a.draining, n, a.in, a.got)
         /\ AppOf([a EXCEPT !.out = b, !.draining = TRUE], b, TRUE, a.sent, a.in, a.got)
         /\ AppOf([a EXCEPT !.draining = FALSE, !.out = b], b, FALSE, a.sent, a.in, a.got)
         /\ AppOf([a EXCEPT !.out = b], b, a.draining, a.sent, a.in, a.got)
         /\ AppOf([a EXCEPT !.got = g, !.in = b], a.out, a.draining, a.sent, b, g)
<1>0. a \in [out : Buffers, draining : BOOLEAN, sent : Nat, in : Buffers, got : Seq(Nat)] BY DEF App
<1>1. AppOf([a EXCEPT !.out = b, !.sent = n], b, a.draining, n, a.in, a.got) BY <1>0 DEF AppOf
<1>2. AppOf([a EXCEPT !.out = b, !.draining = TRUE], b, TRUE, a.sent, a.in, a.got) BY <1>0 DEF AppOf
<1>3. AppOf([a EXCEPT !.draining = FALSE, !.out = b], b, FALSE, a.sent, a.in, a.got) BY <1>0 DEF AppOf
<1>4. AppOf([a EXCEPT !.out = b], b, a.draining, a.sent, a.in, a.got) BY <1>0 DEF AppOf
<1>5. AppOf([a EXCEPT !.got = g, !.in = b], a.out, a.draining, a.sent, b, g) BY <1>0 DEF AppOf
<1> QED BY <1>1, <1>2, <1>3, <1>4, <1>5

LEMMA Counted ==
  ASSUME NEW n \in Nat
  PROVE  UpTo(n + 1) = UpTo(n) \o << n + 1 >>
<1>1. /\ UpTo(n) \in Seq(Nat) /\ Len(UpTo(n)) = n /\ \A i \in 1 .. n : UpTo(n)[i] = i
  <2>1. UpTo(n) \in [1 .. n -> Nat] BY DEF UpTo
  <2> QED BY <2>1, IsSequence DEF UpTo
<1>2. /\ UpTo(n + 1) \in Seq(Nat) /\ Len(UpTo(n + 1)) = n + 1
      /\ \A i \in 1 .. n + 1 : UpTo(n + 1)[i] = i
  <2>1. UpTo(n + 1) \in [1 .. n + 1 -> Nat] /\ n + 1 \in Nat BY DEF UpTo
  <2> QED BY <2>1, IsSequence DEF UpTo
<1> DEFINE u == UpTo(n)
<1>3. /\ u \o << n + 1 >> \in Seq(Nat) /\ Len(u \o << n + 1 >>) = n + 1
      /\ \A i \in 1 .. n + 1 : (u \o << n + 1 >>)[i] = i
  <2> HIDE DEF u
  <2>1. u \in Seq(Nat) /\ Len(u) = n /\ \A i \in 1 .. n : u[i] = i BY <1>1 DEF u
  <2>2. << n + 1 >> \in Seq(Nat) /\ Len(<< n + 1 >>) = 1 /\ << n + 1 >>[1] = n + 1 OBVIOUS
  <2>3. /\ u \o << n + 1 >> \in Seq(Nat) /\ Len(u \o << n + 1 >>) = Len(u) + 1
        /\ \A i \in 1 .. Len(u) + 1 :
             (u \o << n + 1 >>)[i] = IF i <= Len(u) THEN u[i] ELSE << n + 1 >>[i - Len(u)]
    BY <2>1, <2>2, ConcatProperties
  <2>4. \A i \in 1 .. n + 1 : (i <= n /\ i \in 1 .. n) \/ (i - n = 1 /\ i = n + 1 /\ ~(i <= n)) OBVIOUS
  <2> QED BY <2>1, <2>2, <2>3, <2>4
<1>4. \A i \in 1 .. n + 1 : UpTo(n + 1)[i] = (u \o << n + 1 >>)[i] BY <1>2, <1>3
<1> HIDE DEF u
<1>5. UpTo(n + 1) = u \o << n + 1 >> BY <1>2, <1>3, <1>4, SeqEqual
<1> QED BY <1>5 DEF u

\* A client that does not wait for an idle socket changes its own buffers.
LEMMA ClientOrder ==
  ASSUME OrderInv, NEW s \in Sockets, UNCHANGED << socks, descriptors >>,
         Has(s, "CONNECTED") \/ ~Idle(apps[s]),
         NEW a, App(a), apps' = [apps EXCEPT ![s] = a], NEW x, Grown(apps[s], a, x)
  PROVE  Ordered(socks', descriptors', apps')
<1>1. /\ Good(socks, descriptors) /\ Ordered(socks, descriptors, apps)
      /\ apps = [t \in Sockets |-> apps[t]]
  BY DEF OrderInv, Inv, Ordered, Apps
<1>2. apps'[s] = a /\ OnlyOf(apps, apps', s) BY <1>1 DEF OnlyOf
<1>3. socks[s].flags \cap {"CONNECTED", "CLOSED"} # {} \/ ~Idle(apps[s]) BY DEF Has
<1>4. Ordered(socks, descriptors, apps')
  <2>1. \A ap2 : OnlyOf(apps, ap2, s) /\ Grown(apps[s], ap2[s], x) => Ordered(socks, descriptors, ap2)
    BY <1>1, <1>3, Growing
  <2> QED BY <2>1, <1>2
<1> QED BY <1>4

LEMMA PutOrder ==
  ASSUME OrderInv, NEW s \in Sockets, Put(s)
  PROVE  Ordered(socks', descriptors', apps')
<1> DEFINE a == apps[s]
<1> DEFINE b == put(a.out, a.sent + 1)
<1> DEFINE a2 == [a EXCEPT !.out = b, !.sent = a.sent + 1]
<1>1. /\ App(a) /\ apps = [t \in Sockets |-> apps[t]]
  BY DEF OrderInv, Ordered, Apps
<1>2. /\ Has(s, "CONNECTED") /\ ~a.draining /\ remaining(a.out) > 0
      /\ UNCHANGED << socks, descriptors >>
      /\ apps' = [apps EXCEPT ![s] = [a EXCEPT !.out = b, !.sent = a.sent + 1]]
  BY DEF Put, Quiet
<1>3. /\ a \in [out : Buffers, draining : BOOLEAN, sent : Nat, in : Buffers, got : Seq(Nat)]
      /\ Buffer(a.out) /\ Empty(a.in) /\ a.out.limit = Capacity /\ a.draining = FALSE
      /\ a.sent \in Nat /\ a.sent + 1 \in Nat /\ a.got \in Seq(Nat)
  BY <1>1, <1>2 DEF App
<1>5. /\ Buffer(b) /\ b.limit = Capacity /\ b.position = a.out.position + 1
      /\ SubSeq(b.data, 1, a.out.position + 1) = SubSeq(a.out.data, 1, a.out.position) \o << a.sent + 1 >>
  BY <1>2, <1>3, Putting
<1>6. App(a2) /\ a2.out = b /\ a2.draining = FALSE /\ a2.sent = a.sent + 1 /\ a2.got = a.got
  <2> HIDE DEF b, a
  <2>1. b \in Buffers BY <1>5 DEF Buffer
  <2>2. AppOf(a2, b, a.draining, a.sent + 1, a.in, a.got) BY <1>1, <1>3, <2>1, Altered
  <2> HIDE DEF a2
  <2>3. App(a2) BY <2>2, <1>3, <1>5, AppIs
  <2> QED BY <2>2, <2>3, <1>3 DEF AppOf
<1> HIDE DEF a2, b
<1>7. Waits(a2) = Waits(a) \o << a.sent + 1 >>
  BY <1>3, <1>5, <1>6 DEF Waits
<1>8. << a.sent + 1 >> \in Seq(Nat) BY <1>3
<1>9. Grown(a, a2, << a.sent + 1 >>)
  <2>1. UpTo(a.sent + 1) = UpTo(a.sent) \o << a.sent + 1 >> BY <1>3, Counted
  <2> QED BY <2>1, <1>6, <1>7, <1>8 DEF Grown
<1>10. apps' = [apps EXCEPT ![s] = a2] BY <1>2 DEF a2, b
<1> QED BY <1>2, <1>6, <1>9, <1>10, ClientOrder

\* The bytes that wait stay the same.
LEMMA Kept ==
  ASSUME NEW a, App(a), NEW b, Buffer(b), NEW draining \in BOOLEAN, ~draining => b.limit = Capacity,
         Waits(a) = IF draining THEN Unread(b) ELSE SubSeq(b.data, 1, b.position),
         NEW a2, AppOf(a2, b, draining, a.sent, a.in, a.got)
  PROVE  App(a2) /\ Grown(a, a2, << >>)
<1>1. a.sent \in Nat /\ Empty(a.in) /\ a.got \in Seq(Nat) BY DEF App
<1>2. App(a2) /\ a2.out = b /\ a2.draining = draining /\ a2.sent = a.sent /\ a2.got = a.got
  BY <1>1, AppIs DEF AppOf
<1>3. Waits(a2) = Waits(a) BY <1>2 DEF Waits
<1>4. Waits(a) \o << >> = Waits(a) /\ << >> \in Seq(Nat) BY WaitsIs, ConcatEmptySeq
<1>5. UpTo(a.sent) \o << >> = UpTo(a.sent)
  <2>1. UpTo(a.sent) \in [1 .. a.sent -> Nat] BY <1>1 DEF UpTo
  <2>2. UpTo(a.sent) \in Seq(Nat) BY <1>1, <2>1, IsSequence
  <2> QED BY <2>2, ConcatEmptySeq
<1> QED BY <1>2, <1>3, <1>4, <1>5 DEF Grown

LEMMA FlipOrder ==
  ASSUME OrderInv, NEW s \in Sockets, Flip(s)
  PROVE  Ordered(socks', descriptors', apps')
<1> DEFINE a == apps[s]
<1> DEFINE b == flip(a.out)
<1> DEFINE a2 == [a EXCEPT !.out = b, !.draining = TRUE]
<1>1. /\ App(a) /\ apps = [t \in Sockets |-> apps[t]]
  BY DEF OrderInv, Ordered, Apps
<1>2. /\ ~a.draining /\ a.out.position > 0
      /\ UNCHANGED << socks, descriptors >>
      /\ apps' = [apps EXCEPT ![s] = [a EXCEPT !.out = b, !.draining = TRUE]]
  BY DEF Flip, Quiet
<1>3. a \in [out : Buffers, draining : BOOLEAN, sent : Nat, in : Buffers, got : Seq(Nat)] /\ Buffer(a.out)
  BY <1>1 DEF App
<1>5. Buffer(b) /\ Waits(a) = Unread(b) BY <1>2, <1>3, Flipping DEF Waits
<1>6. App(a2) /\ Grown(a, a2, << >>)
  <2> HIDE DEF b, a
  <2>1. b \in Buffers BY <1>5 DEF Buffer
  <2>2. AppOf(a2, b, TRUE, a.sent, a.in, a.got)
    <3>1. a.sent \in Nat /\ a.got \in Seq(Nat) BY <1>3
    <3> QED BY <1>1, <2>1, <3>1, Altered
  <2> HIDE DEF a2
  <2> QED BY <1>1, <1>5, <2>2, Kept
<1>7. ~Idle(a) BY <1>2, <1>3 DEF Idle, Buffers, Places
<1> HIDE DEF a2, b
<1>8. apps' = [apps EXCEPT ![s] = a2] BY <1>2 DEF a2, b
<1> QED BY <1>2, <1>6, <1>7, <1>8, ClientOrder

LEMMA CompactOrder ==
  ASSUME OrderInv, NEW s \in Sockets, Compact(s)
  PROVE  Ordered(socks', descriptors', apps')
<1> DEFINE a == apps[s]
<1> DEFINE b == IF remaining(a.out) > 0 THEN compact(a.out) ELSE clear(a.out)
<1> DEFINE a2 == [a EXCEPT !.draining = FALSE, !.out = b]
<1>1. /\ App(a) /\ apps = [t \in Sockets |-> apps[t]]
  BY DEF OrderInv, Ordered, Apps
<1>2. /\ a.draining /\ UNCHANGED << socks, descriptors >>
      /\ apps' = [apps EXCEPT ![s] = [a EXCEPT !.draining = FALSE, !.out = b]]
  BY DEF Compact, Quiet
<1>3. a \in [out : Buffers, draining : BOOLEAN, sent : Nat, in : Buffers, got : Seq(Nat)] /\ Buffer(a.out)
  BY <1>1 DEF App
<1>5. Buffer(b) /\ b.limit = Capacity /\ Waits(a) = SubSeq(b.data, 1, b.position)
  BY <1>2, <1>3, Compacting DEF Waits
<1>6. App(a2) /\ Grown(a, a2, << >>)
  <2> HIDE DEF b, a
  <2>1. b \in Buffers BY <1>5 DEF Buffer
  <2>2. AppOf(a2, b, FALSE, a.sent, a.in, a.got)
    <3>1. a.sent \in Nat /\ a.got \in Seq(Nat) BY <1>3
    <3> QED BY <1>1, <2>1, <3>1, Altered
  <2> HIDE DEF a2
  <2> QED BY <1>1, <1>5, <2>2, Kept
<1>7. ~Idle(a) BY <1>2 DEF Idle
<1> HIDE DEF a2, b
<1>8. apps' = [apps EXCEPT ![s] = a2] BY <1>2 DEF a2, b
<1> QED BY <1>2, <1>6, <1>7, <1>8, ClientOrder

LEMMA Splitting ==
  ASSUME NEW e \in Seq(Nat), NEW k \in 1 .. Len(e)
  PROVE  /\ SubSeq(e, 1, k) \in Seq(Nat) /\ Len(SubSeq(e, 1, k)) = k
         /\ SubSeq(e, k + 1, Len(e)) \in Seq(Nat)
         /\ e = SubSeq(e, 1, k) \o SubSeq(e, k + 1, Len(e)) /\ e # << >>
<1>1. /\ Len(e) \in Nat /\ e \in [1 .. Len(e) -> Nat] /\ k \in Nat /\ k <= Len(e)
      /\ 0 + 1 = 1 /\ k - 0 = k /\ k \in 0 .. Len(e) /\ Len(e) \in k .. Len(e) /\ 0 \in 0 .. Len(e)
      /\ 1 \in 1 .. Len(e) + 1 /\ k \in 1 - 1 .. Len(e) /\ e # << >>
  OBVIOUS
<1>2. SubSeq(e, 0 + 1, k) \in Seq(Nat) /\ Len(SubSeq(e, 0 + 1, k)) = k - 0 BY <1>1, Part
<1>3. SubSeq(e, k + 1, Len(e)) \in Seq(Nat) BY <1>1, Part
<1>4. SubSeq(e, 1, k) \o SubSeq(e, k + 1, Len(e)) = SubSeq(e, 1, Len(e))
  BY <1>1, ConcatAdjacentSubSeq
<1>5. SubSeq(e, 1, Len(e)) = e BY SubSeqFull
<1> QED BY <1>1, <1>2, <1>3, <1>4, <1>5

LEMMA Routed ==
  ASSUME NEW ds, Rows(ds), NEW k \in DOMAIN ds, NEW bytes
  PROVE  /\ SameWiring(ds, [ds EXCEPT ![k] = [ds[k] EXCEPT !.inbox = bytes]], k)
         /\ [ds EXCEPT ![k] = [ds[k] EXCEPT !.inbox = bytes]][k].inbox = bytes
<1> DEFINE r == [ds[k] EXCEPT !.inbox = bytes]
<1>1. Row(ds[k]) BY DEF Rows
<1>2. /\ r.state = ds[k].state /\ r.peer = ds[k].peer /\ r.waiting = ds[k].waiting
      /\ r.inbox = bytes
  BY <1>1 DEF Row
<1> HIDE DEF r
<1>3. SameWiring(ds, [ds EXCEPT ![k] = r], k) /\ [ds EXCEPT ![k] = r][k].inbox = bytes
  BY <1>2 DEF SameWiring
<1> QED BY <1>3 DEF r

\* What a write or a read finds.
LEMMA TransferIs ==
  ASSUME OrderInv, NEW s \in Sockets, NEW b, write(s, b) \/ read(s, b)
  PROVE  /\ Good(socks, descriptors) /\ Rows(descriptors) /\ Ordered(socks, descriptors, apps)
         /\ apps = [t \in Sockets |-> apps[t]] /\ App(apps[s])
         /\ Linked(socks, s) /\ Peer(s) = Other(socks, descriptors, s)
         /\ Peer(s) \in DOMAIN descriptors /\ socks[s].fd \in DOMAIN descriptors
         /\ descriptors[socks[s].fd].inbox \in Seq(Nat)
<1>1. Good(socks, descriptors) /\ Rows(descriptors) /\ Ordered(socks, descriptors, apps)
  BY DEF OrderInv, Inv, Good
<1>2. Linked(socks, s) BY DEF write, read, Has, Linked
<1>3. Peer(s) = Other(socks, descriptors, s) BY DEF Peer, Descriptor, Other
<1>4. Other(socks, descriptors, s) \in DOMAIN descriptors /\ socks[s].fd \in DOMAIN descriptors
  BY <1>1, <1>2, LinkedIs
<1>5. apps = [t \in Sockets |-> apps[t]] /\ App(apps[s]) BY <1>1 DEF Ordered, Apps
<1> QED BY <1>1, <1>2, <1>3, <1>4, <1>5 DEF Ordered, Silent

LEMMA WriteOrder ==
  ASSUME OrderInv, NEW s \in Sockets, Write(s)
  PROVE  Ordered(socks', descriptors', apps')
<1> DEFINE a == apps[s]
<1> DEFINE d == Peer(s)
<1>1. /\ a.draining /\ write(s, a.out) /\ UNCHANGED socks
      /\ apps' = [apps EXCEPT ![s].out = IF ret'[1] = "moved" THEN Written(@, ret'[2]) ELSE @]
  BY DEF Write, write
<1>2. /\ Good(socks, descriptors) /\ Rows(descriptors) /\ Ordered(socks, descriptors, apps)
      /\ apps = [t \in Sockets |-> apps[t]] /\ App(a)
      /\ Linked(socks, s) /\ d = Other(socks, descriptors, s) /\ d \in DOMAIN descriptors
  BY <1>1, TransferIs
<1>3. /\ a \in [out : Buffers, draining : BOOLEAN, sent : Nat, in : Buffers, got : Seq(Nat)]
      /\ Buffer(a.out) /\ Empty(a.in) /\ a.draining = TRUE /\ a.sent \in Nat /\ a.got \in Seq(Nat)
  BY <1>1, <1>2 DEF App
<1>4. CASE (WouldBlock(s) /\ UNCHANGED descriptors)
  <2> DEFINE a2 == [a EXCEPT !.out = a.out]
  <2>1. apps' = [apps EXCEPT ![s] = a2]
    <3>1. ret' = << "throws", "socket_timeout_exception" >> \/ ret' = << "moved", 0 >>
      BY <1>4 DEF WouldBlock, Throws
    <3>2. (IF ret'[1] = "moved" THEN Written(a.out, ret'[2]) ELSE a.out) = a.out
      BY <3>1 DEF Written
    <3> QED BY <3>2, <1>1
  <2>2. AppOf(a2, a.out, a.draining, a.sent, a.in, a.got)
    <3> HIDE DEF a
    <3>1. a.out \in Buffers BY <1>3
    <3> QED BY <3>1, <1>2, <1>3, Altered
  <2>3. App(a2) /\ Grown(a, a2, << >>)
    <3>1. Waits(a) = IF a.draining THEN Unread(a.out) ELSE SubSeq(a.out.data, 1, a.out.position)
      BY DEF Waits
    <3> HIDE DEF a2, a
    <3> QED BY <1>2, <1>3, <2>2, <3>1, Kept
  <2> HIDE DEF a2
  <2>4. UNCHANGED << socks, descriptors >> BY <1>1, <1>4
  <2>5. Has(s, "CONNECTED") BY <1>2 DEF Linked, Has
  <2> QED BY <2>1, <2>3, <2>4, <2>5, ClientOrder
<1>5. ASSUME NEW k \in Int, k > 0, k <= remaining(a.out),
             descriptors' = [descriptors EXCEPT ![d].inbox = @ \o SubSeq(Unread(a.out), 1, k)],
             ret' = << "moved", k >>
      PROVE  Ordered(socks', descriptors', apps')
  <2> DEFINE b == Written(a.out, k)
  <2> DEFINE a2 == [a EXCEPT !.out = b]
  <2> DEFINE x == SubSeq(Unread(a.out), 1, k)
  <2>1. k \in 1 .. remaining(a.out)
    <3>1. remaining(a.out) \in Int BY <1>3, CapacityIs
    <3> QED BY <3>1, <1>5
  <2>2. Buffer(b) /\ Unread(a.out) = x \o Unread(b) BY <2>1, <1>3, Taking
  <2>3. x \in Seq(Nat)
    <3>1. Unread(a.out) \in Seq(Nat) /\ k \in 1 .. Len(Unread(a.out)) BY <2>1, <1>3, UnreadIs, CapacityIs
    <3> QED BY <3>1, Splitting
  <2>4. AppOf(a2, b, TRUE, a.sent, a.in, a.got)
    <3> HIDE DEF a, b
    <3>1. b \in Buffers BY <2>2 DEF Buffer
    <3>2. AppOf(a2, b, a.draining, a.sent, a.in, a.got) BY <3>1, <1>2, <1>3, Altered
    <3> QED BY <3>2, <1>3
  <2>5. apps' = [apps EXCEPT ![s] = a2] BY <1>1, <1>5
  <2>6. /\ App(a2) /\ Waits(a) = x \o Waits(a2) /\ a2.got = a.got /\ a2.sent = a.sent
    <3> HIDE DEF a2, b, x
    <3>1. App(a2) /\ a2.out = b /\ a2.draining = TRUE BY <2>2, <2>4, <1>3, AppIs DEF AppOf
    <3> QED BY <3>1, <2>2, <2>4, <1>3 DEF AppOf, Waits
  <2>7. PICK ap2 : ap2 = apps' OBVIOUS
  <2>8. PICK ds2 : ds2 = descriptors' OBVIOUS
  <2>9. ds2 = [descriptors EXCEPT ![d] = [descriptors[d] EXCEPT !.inbox = descriptors[d].inbox \o x]]
    BY <2>8, <1>5
  <2>10. SameWiring(descriptors, ds2, d) /\ ds2[d].inbox = descriptors[d].inbox \o x
    <3> DEFINE z == descriptors[d].inbox \o x
    <3>1. ds2 = [descriptors EXCEPT ![d] = [descriptors[d] EXCEPT !.inbox = z]] BY <2>9
    <3> HIDE DEF x, d, z
    <3>2. SameWiring(descriptors, ds2, d) /\ ds2[d].inbox = z BY <3>1, <1>2, Routed
    <3> QED BY <3>2 DEF z
  <2>11. ap2[s] = a2 /\ OnlyOf(apps, ap2, s)
    <3> HIDE DEF a2
    <3> QED BY <2>5, <2>6, <2>7, <1>2 DEF OnlyOf
  <2> HIDE DEF a2, x, d
  <2>12. Sent(socks, descriptors, apps, ds2, ap2, s, d, x)
    BY <1>2, <2>3, <2>6, <2>10, <2>11 DEF Sent
  <2>13. Ordered(socks, ds2, ap2) BY <2>12, <1>2, Sending
  <2> QED BY <2>13, <2>7, <2>8, <1>1
<1>6. \/ WouldBlock(s) /\ UNCHANGED descriptors
      \/ \E k \in 1 .. Window - Len(descriptors[d].inbox) :
           /\ k <= remaining(a.out)
           /\ descriptors' = [descriptors EXCEPT ![d].inbox = @ \o SubSeq(Unread(a.out), 1, k)]
           /\ ret' = << "moved", k >>
  BY <1>1 DEF write
<1>7. CASE \E k \in 1 .. Window - Len(descriptors[d].inbox) :
             /\ k <= remaining(a.out)
             /\ descriptors' = [descriptors EXCEPT ![d].inbox = @ \o SubSeq(Unread(a.out), 1, k)]
             /\ ret' = << "moved", k >>
  <2>1. PICK k \in 1 .. Window - Len(descriptors[d].inbox) :
          /\ k <= remaining(a.out)
          /\ descriptors' = [descriptors EXCEPT ![d].inbox = @ \o SubSeq(Unread(a.out), 1, k)]
          /\ ret' = << "moved", k >>
    BY <1>7
  <2>2. k \in Int /\ k > 0 OBVIOUS
  <2> HIDE DEF a, d
  <2> QED BY <2>1, <2>2, <1>5
<1> QED BY <1>4, <1>6, <1>7

LEMMA ReadOrder ==
  ASSUME OrderInv, NEW s \in Sockets, Read(s)
  PROVE  Ordered(socks', descriptors', apps')
<1> DEFINE a == apps[s]
<1> DEFINE k == socks[s].fd
<1> DEFINE e == descriptors[k].inbox
<1> DEFINE filled(n, bytes) == flip(Received(a.in, n, bytes))
<1>1. /\ read(s, a.in) /\ UNCHANGED socks
      /\ apps' = IF ret'[1] = "moved" /\ ret'[2] > 0
                 THEN [apps EXCEPT ![s].got = @ \o Unread(filled(ret'[2], ret'[3])),
                                   ![s].in = clear(filled(ret'[2], ret'[3]))]
                 ELSE apps
  BY DEF Read, read
<1>2. /\ Good(socks, descriptors) /\ Rows(descriptors) /\ Ordered(socks, descriptors, apps)
      /\ apps = [t \in Sockets |-> apps[t]] /\ App(a)
      /\ Linked(socks, s) /\ k \in DOMAIN descriptors /\ e \in Seq(Nat)
  BY <1>1, TransferIs
<1>3. /\ a \in [out : Buffers, draining : BOOLEAN, sent : Nat, in : Buffers, got : Seq(Nat)]
      /\ Buffer(a.out) /\ Empty(a.in) /\ a.sent \in Nat /\ a.got \in Seq(Nat)
      /\ ~a.draining => a.out.limit = Capacity
  BY <1>2 DEF App
<1>4. CASE UNCHANGED descriptors /\ (WouldBlock(s) \/ Throws("connect_exception"))
  <2>1. \/ ret' = << "throws", "socket_timeout_exception" >> \/ ret' = << "moved", 0 >>
        \/ ret' = << "throws", "connect_exception" >>
    BY <1>4 DEF WouldBlock, Throws
  <2>2. ~(ret'[1] = "moved" /\ ret'[2] > 0) BY <2>1
  <2>3. apps' = apps BY <1>1, <2>2
  <2> QED BY <2>3, <1>1, <1>2, <1>4
<1>5. ASSUME NEW n \in 1 .. Len(e), n <= remaining(a.in),
             descriptors' = [descriptors EXCEPT ![k].inbox = SubSeq(@, n + 1, Len(@))],
             ret' = << "moved", n, SubSeq(e, 1, n) >>
      PROVE  Ordered(socks', descriptors', apps')
  <2> DEFINE x == SubSeq(e, 1, n)
  <2> DEFINE y == SubSeq(e, n + 1, Len(e))
  <2> DEFINE f == filled(n, x)
  <2> DEFINE a2 == [a EXCEPT !.got = a.got \o Unread(f), !.in = clear(f)]
  <2>1. x \in Seq(Nat) /\ Len(x) = n /\ y \in Seq(Nat) /\ e = x \o y /\ e # << >>
    <3> HIDE DEF e
    <3> QED BY <1>2, <1>5, Splitting
  <2>2. Buffer(f) /\ Unread(f) = x
    <3> HIDE DEF a, e, x
    <3>1. n \in 1 .. remaining(a.in)
      <4>1. Len(e) \in Nat /\ remaining(a.in) \in Int BY <1>2, <1>3, CapacityIs DEF Empty
      <4> QED BY <4>1, <1>5
    <3>2. /\ Buffer(flip(Received(a.in, Len(x), x)))
          /\ Unread(flip(Received(a.in, Len(x), x))) = x
      BY <3>1, <2>1, <1>3, Receiving
    <3> QED BY <3>2, <2>1
  <2>3. apps' = [apps EXCEPT ![s] = a2]
    <3>1. ret'[1] = "moved" /\ ret'[2] = n /\ ret'[3] = x /\ n > 0 BY <1>5
    <3>2. apps' = [apps EXCEPT ![s].got = @ \o Unread(f), ![s].in = clear(f)] BY <1>1, <3>1
    <3> QED BY <3>2
  <2>4. Empty(clear(f)) BY <2>2, Clearing
  <2>5. a.got \o x \in Seq(Nat)
    <3> HIDE DEF a, x, e
    <3> QED BY <1>3, <2>1, ConcatProperties
  <2>6. AppOf(a2, a.out, a.draining, a.sent, clear(f), a.got \o x)
    <3> DEFINE c == clear(f)
    <3> DEFINE g == a.got \o x
    <3>1. c \in Buffers BY <2>4 DEF Empty, Buffer
    <3>2. a2 = [a EXCEPT !.got = g, !.in = c] BY <2>2
    <3> HIDE DEF a, c, g, a2
    <3>3. g \in Seq(Nat) BY <2>5 DEF g
    <3>4. AppOf([a EXCEPT !.got = g, !.in = c], a.out, a.draining, a.sent, c, g)
      BY <3>1, <3>3, <1>2, <1>3, Altered
    <3> QED BY <3>2, <3>4 DEF c, g
  <2> HIDE DEF a2, f
  <2>7. /\ App(a2) /\ a2.out = a.out /\ a2.draining = a.draining /\ a2.sent = a.sent
        /\ a2.got = a.got \o x
    <3> HIDE DEF a, x, e
    <3> QED BY <2>4, <2>6, <1>3, AppIs DEF AppOf
  <2>8. Waits(a2) = Waits(a) BY <2>7 DEF Waits
  <2>9. PICK ap2 : ap2 = apps' OBVIOUS
  <2>10. PICK ds2 : ds2 = descriptors' OBVIOUS
  <2>11. ds2 = [descriptors EXCEPT ![k] = [descriptors[k] EXCEPT !.inbox = y]]
    BY <2>10, <1>5
  <2>12. SameWiring(descriptors, ds2, k) /\ ds2[k].inbox = y
    <3> HIDE DEF y, k
    <3> QED BY <2>11, <1>2, Routed
  <2>13. ap2[s] = a2 /\ OnlyOf(apps, ap2, s)
    BY <2>3, <2>7, <2>9, <1>2 DEF OnlyOf
  <2> HIDE DEF x, y
  <2>14. Came(socks, descriptors, apps, ds2, ap2, s, x, y)
    BY <1>2, <2>1, <2>7, <2>8, <2>12, <2>13 DEF Came
  <2>15. Ordered(socks, ds2, ap2) BY <2>14, <1>2, Coming
  <2> QED BY <2>15, <2>9, <2>10, <1>1
<1>6. \/ UNCHANGED descriptors /\ (WouldBlock(s) \/ Throws("connect_exception"))
      \/ \E n \in 1 .. Len(e) :
           /\ n <= remaining(a.in)
           /\ descriptors' = [descriptors EXCEPT ![k].inbox = SubSeq(@, n + 1, Len(@))]
           /\ ret' = << "moved", n, SubSeq(e, 1, n) >>
  BY <1>1 DEF read, Descriptor
<1> QED BY <1>4, <1>5, <1>6
-----------------------------------------------------------------------------
LEMMA InitOrder == MCInit => OrderInv
<1> SUFFICES ASSUME MCInit PROVE OrderInv OBVIOUS
<1>1. Inv BY InitInv
<1>2. /\ socks = [s \in Sockets |-> Fresh] /\ descriptors = << >>
      /\ apps = [s \in Sockets |-> NewApp]
  BY DEF MCInit, Init
<1>3. Apps(apps) /\ Still(socks, apps) BY <1>2, NewClient DEF Apps, Still
<1>4. Silent(descriptors) /\ Hushed(socks, descriptors) BY <1>2 DEF Silent, Hushed, Mute
<1>5. Streamed(socks, descriptors, apps) /\ Early(socks, descriptors, apps)
  BY <1>2 DEF Streamed, Early, Linked, Fresh
<1> QED BY <1>1, <1>3, <1>4, <1>5 DEF OrderInv, Ordered

LEMMA NextOrder == OrderInv /\ [Next]_vars => OrderInv'
<1> SUFFICES ASSUME OrderInv, [Next]_vars PROVE Ordered(socks', descriptors', apps')
  BY NextInv DEF OrderInv
<1>1. CASE UNCHANGED vars BY <1>1 DEF vars, OrderInv
<1>2. ASSUME NEW s \in Sockets, Connect(s) PROVE Ordered(socks', descriptors', apps')
  BY <1>2, ConnectOrder DEF Connect
<1>3. ASSUME NEW s \in Sockets, Setup(s) PROVE Ordered(socks', descriptors', apps')
  <2>1. apps' = apps BY <1>3 DEF Setup
  <2>2. Ordered(socks', descriptors', apps) BY <1>3, SetupCalm, CalmOrder DEF OrderInv
  <2> QED BY <2>1, <2>2
<1>4. ASSUME NEW s \in Sockets, Accept(s) PROVE Ordered(socks', descriptors', apps')
  <2>1. PICK client \in Sockets : accept(s, client) /\ apps' = apps BY <1>4 DEF Accept
  <2>2. Ordered(socks', descriptors', apps) BY <2>1, AcceptOrder
  <2> QED BY <2>1, <2>2
<1> QED
  BY <1>1, <1>2, <1>3, <1>4, CloseOrder, PutOrder, FlipOrder, CompactOrder, WriteOrder, ReadOrder
  DEF Next

LEMMA OrderedInOrder == OrderInv => InOrder
<1> SUFFICES ASSUME OrderInv, NEW s \in Sockets, NEW t \in Sockets,
                    Has(s, "CONNECTED"), Has(t, "CONNECTED"), Peer(s) = socks[t].fd
             PROVE  apps[t].got \o Descriptor(t).inbox \o Unsent(s) = [i \in 1 .. apps[s].sent |-> i]
  BY DEF InOrder
<1>1. Streamed(socks, descriptors, apps) BY DEF OrderInv, Ordered
<1>2. apps[t].got \o descriptors[socks[t].fd].inbox \o Waits(apps[s]) = UpTo(apps[s].sent)
  BY <1>1 DEF Streamed, Linked, Other, Has, Peer, Descriptor
<1> QED BY <1>2 DEF Waits, UpTo, Unsent, Descriptor

\* Whatever part of a buffer each write takes and each read finds, and
\* whichever connect threw before, between two connected sockets no byte is
\* lost, doubled or overtaken: compact keeps what was not sent, and accept
\* hands over what came before it (socket.hpp:1128-1165, basebuf.hpp:69-279).
THEOREM BytesInOrder == Spec => []InOrder
<1>1. MCInit => OrderInv BY InitOrder
<1>2. OrderInv /\ [Next]_vars => OrderInv' BY NextOrder
<1>3. OrderInv => InOrder BY OrderedInOrder
<1> QED BY <1>1, <1>2, <1>3, PTL DEF Spec
=============================================================================
