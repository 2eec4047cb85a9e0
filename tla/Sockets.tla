------------------------------ MODULE Sockets ------------------------------
(***************************************************************************)
(* tsocket over socket_impl and the BSD calls.  A socket object keeps a    *)
(* set of flags next to a descriptor; every method checks the flags, makes *)
(* the call and updates the flags.  The system below (descriptors, their   *)
(* connections and the bytes on the way) is external; it may fail a        *)
(* connect or a bind, take or give fewer bytes than asked for, and run     *)
(* into a timeout.  One address is all there is to bind or connect to.     *)
(***************************************************************************)
EXTENDS BaseBuf, FiniteSets, FiniteSetsExt

CONSTANTS
  Sockets,
  MaxDescriptors,   \* bound
  Backlog,          \* connections waiting for accept
  Window            \* bytes on the way in one direction

VARIABLES
  socks,        \* socket -> its flags, descriptor and blocking mode
  descriptors,  \* what the system knows of each descriptor it gave out
  ret           \* how the last call ended

ASSUME SocketsAssumption == {MaxDescriptors, Backlog, Window} \subseteq Nat

NULL_SOCKET == 0

Has(s, flag) == flag \in socks[s].flags
Descriptor(s) == descriptors[socks[s].fd]
Usable(s) == Has(s, "CREATED") /\ ~Has(s, "CLOSED")   \* check_state_or_except
-----------------------------------------------------------------------------
(* The system.                                                             *)
Bare == [state |-> "fresh", peer |-> NULL_SOCKET, inbox |-> << >>, waiting |-> << >>,
         shut_in |-> FALSE, shut_out |-> FALSE]
New == Len(descriptors) + 1
Listeners == {d \in DOMAIN descriptors : descriptors[d].state = "listening"}
Reachable == {d \in Listeners : Len(descriptors[d].waiting) < Backlog}
Peer(s) == Descriptor(s).peer

\* socket() and ::connect: the peer's end waits at the listener.
Connected(ds, d, listener) ==
  LET there == Len(ds) + 1
  IN [Append(ds, [Bare EXCEPT !.state = "connected", !.peer = d])
        EXCEPT ![d].state = "connected", ![d].peer = there,
               ![listener].waiting = Append(@, there)]
-----------------------------------------------------------------------------
Fresh == [flags |-> {}, fd |-> NULL_SOCKET, blocking |-> TRUE]
Set(s, flags) == [socks EXCEPT ![s].flags = @ \cup flags]

Init ==
  /\ socks = [s \in Sockets |-> Fresh]
  /\ descriptors = << >>
  /\ ret = << "done" >>

Done == ret' = << "done" >>
Throws(why) == ret' = << "throws", why >>

\* create opens a descriptor before the first connect or bind: the object and
\* the descriptors with it.
Opened(s) == IF Has(s, "CREATED") THEN socks[s] ELSE [socks[s] EXCEPT !.fd = New, !.flags = @ \cup {"CREATED"}]
WithOpened(s) == IF Has(s, "CREATED") THEN descriptors ELSE Append(descriptors, Bare)

\* The descriptor of s becomes one end of a connection, or has been one since
\* a call that threw.  A handshake that goes on after the call ends at once.
Made(s) ==
  LET d == Opened(s).fd
      ds == WithOpened(s)
  IN \/ ds[d].state = "connected" /\ descriptors' = ds
     \/ /\ ds[d].state = "fresh" /\ Len(ds) < MaxDescriptors
        /\ \E listener \in Reachable : descriptors' = Connected(ds, d, listener)

\* The call throws when the system refuses, and may throw when the connection
\* is made all the same: ::connect was interrupted, timed out or did not block
\* (bsd_socket.cpp:363), or get_sock_name failed after it
\* (bsd_socket_class.cpp:88).  Mutant: the flag is set although the call threw.
ConnectFlagsFirst(s) ==
  /\ ~Has(s, "CLOSED") /\ ~Has(s, "CONNECTED") /\ ~Has(s, "BINDED")
  /\ Len(WithOpened(s)) <= MaxDescriptors
  /\ socks' = [socks EXCEPT ![s] = [Opened(s) EXCEPT !.flags = @ \cup {"CONNECTED"}]]
  /\ \/ Made(s) /\ Done
     \/ descriptors' = WithOpened(s) /\ Throws("connect_exception")
connect(s) ==
  /\ ~Has(s, "CLOSED") /\ ~Has(s, "CONNECTED") /\ ~Has(s, "BINDED")
  /\ Len(WithOpened(s)) <= MaxDescriptors
  /\ \/ /\ Made(s) /\ Done
        /\ socks' = [socks EXCEPT ![s] = [Opened(s) EXCEPT !.flags = @ \cup {"CONNECTED"}]]
     \/ /\ Made(s) \/ descriptors' = WithOpened(s)
        /\ socks' = [socks EXCEPT ![s] = Opened(s)]
        /\ Throws("connect_exception")

\* The address is free unless a descriptor is bound to it; the system binds no
\* end of a connection.
bind(s) ==
  /\ ~Has(s, "CLOSED") /\ ~Has(s, "BINDED") /\ ~Has(s, "CONNECTED")
  /\ Len(WithOpened(s)) <= MaxDescriptors
  /\ IF /\ WithOpened(s)[Opened(s).fd].state = "fresh"
        /\ \A d \in DOMAIN descriptors : descriptors[d].state \notin {"bound", "listening"}
     THEN /\ descriptors' = [WithOpened(s) EXCEPT ![Opened(s).fd].state = "bound"]
          /\ socks' = [socks EXCEPT ![s] = [Opened(s) EXCEPT !.flags = @ \cup {"BINDED"}]]
          /\ Done
     ELSE /\ descriptors' = WithOpened(s)
          /\ socks' = [socks EXCEPT ![s] = Opened(s)]
          /\ Throws("bind_exception")

listen(s) ==
  /\ ~Has(s, "CLOSED") /\ ~Has(s, "CONNECTED") /\ Has(s, "BINDED")
  /\ descriptors' = [descriptors EXCEPT ![socks[s].fd].state = "listening"]
  /\ socks' = Set(s, {"LISTENING"})
  /\ Done

\* The client is a new object: accept sets two of its flags and clears none.
\* Without a connection a blocking call waits or times out.
accept(s, client) ==
  /\ ~Has(s, "CLOSED") /\ Has(s, "BINDED") /\ Has(s, "LISTENING")
  /\ socks[client] = Fresh
  /\ IF Descriptor(s).waiting # << >>
     THEN /\ socks' = [socks EXCEPT ![client].fd = Head(Descriptor(s).waiting),
                                    ![client].flags = @ \cup {"CREATED", "CONNECTED"}]
          /\ descriptors' = [descriptors EXCEPT ![socks[s].fd].waiting = Tail(@)]
          /\ ret' = << "accepted" >>
     ELSE /\ ret' = << "none" >>
          /\ UNCHANGED << socks, descriptors >>

\* close gives up the descriptor without closing it (bsd_socket_class.cpp:132-134).
close(s) ==
  /\ ~Has(s, "CLOSED")
  /\ socks' = [socks EXCEPT ![s].fd = NULL_SOCKET,
                            ![s].flags = (@ \cup {"CLOSED"}) \ {"CONNECTED", "BINDED"}]
  /\ Done
  /\ UNCHANGED descriptors

\* The system refuses to shut down what is not connected.
shutdown(s, flag, field) ==
  /\ Usable(s) /\ ~Has(s, flag) /\ ~Has(s, "LISTENING")
  /\ IF Descriptor(s).state = "connected"
     THEN /\ descriptors' = [descriptors EXCEPT ![socks[s].fd][field] = TRUE]
          /\ socks' = Set(s, {flag})
          /\ Done
     ELSE /\ Throws("socket_exception")
          /\ UNCHANGED << socks, descriptors >>
shutdown_output(s) == shutdown(s, "SHUTDOWN_OUT", "shut_out")
shutdown_input(s)  == shutdown(s, "SHUTDOWN_IN", "shut_in")

set_blocking(s, block) ==
  /\ Usable(s)
  /\ socks' = [socks EXCEPT ![s].blocking = block]
  /\ Done
  /\ UNCHANGED descriptors

\* An empty window, or nothing to receive: a blocking call times out unless
\* it waits, a non-blocking one returns 0.
WouldBlock(s) == IF socks[s].blocking THEN Throws("socket_timeout_exception") ELSE ret' = << "moved", 0 >>

\* write of the unread bytes of a buffer: as many as the system takes, and the
\* position moves by as many.  Mutant: it moves to the limit.
WriteAll(s, b) ==
  /\ ~Has(s, "CLOSED") /\ Has(s, "CONNECTED") /\ ~Has(s, "SHUTDOWN_OUT") /\ remaining(b) > 0
  /\ LET room == Window - Len(descriptors[Peer(s)].inbox)
     IN \/ /\ room = 0 /\ WouldBlock(s) /\ UNCHANGED descriptors
        \/ \E k \in 1 .. room :
             /\ k <= remaining(b)
             /\ descriptors' = [descriptors EXCEPT ![Peer(s)].inbox = @ \o SubSeq(Unread(b), 1, k)]
             /\ ret' = << "moved", remaining(b) >>
  /\ UNCHANGED socks
write(s, b) ==
  /\ ~Has(s, "CLOSED") /\ Has(s, "CONNECTED") /\ ~Has(s, "SHUTDOWN_OUT") /\ remaining(b) > 0
  /\ LET room == Window - Len(descriptors[Peer(s)].inbox)
     IN \/ /\ room = 0 /\ WouldBlock(s) /\ UNCHANGED descriptors
        \/ \E k \in 1 .. room :
             /\ k <= remaining(b)
             /\ descriptors' = [descriptors EXCEPT ![Peer(s)].inbox = @ \o SubSeq(Unread(b), 1, k)]
             /\ ret' = << "moved", k >>
  /\ UNCHANGED socks
Written(b, n) == IF n > 0 THEN position(b, b.position + n) ELSE b

\* read stores the bytes from the start of the area, not from the position.
read(s, b) ==
  /\ ~Has(s, "CLOSED") /\ Has(s, "CONNECTED") /\ ~Has(s, "SHUTDOWN_IN") /\ remaining(b) > 0
  /\ LET inbox == Descriptor(s).inbox
     IN \/ /\ inbox = << >>
           /\ IF descriptors[Peer(s)].shut_out THEN Throws("connect_exception") ELSE WouldBlock(s)
           /\ UNCHANGED descriptors
        \/ \E k \in 1 .. Len(inbox) :
             /\ k <= remaining(b)
             /\ descriptors' = [descriptors EXCEPT ![socks[s].fd].inbox = SubSeq(@, k + 1, Len(@))]
             /\ ret' = << "moved", k, SubSeq(inbox, 1, k) >>
  /\ UNCHANGED socks
Received(b, n, bytes) == IF n > 0 THEN [Fill(b, 0, bytes) EXCEPT !.position = @ + n] ELSE b
-----------------------------------------------------------------------------
\* What the flags of a socket say is what the system does with its
\* descriptor, and no descriptor has two owners.  A descriptor may be an end of
\* a connection without the flag.
FlagsAgree(s) ==
  /\ Usable(s) <=> socks[s].fd # NULL_SOCKET
  /\ socks[s].fd # NULL_SOCKET =>
       /\ Has(s, "CONNECTED") => Descriptor(s).state = "connected"
       /\ Has(s, "LISTENING") <=> Descriptor(s).state = "listening"
       /\ Has(s, "BINDED") <=> Descriptor(s).state \in {"bound", "listening"}
       /\ Has(s, "SHUTDOWN_OUT") <=> Descriptor(s).shut_out
       /\ \A t \in Sockets \ {s} : socks[t].fd # socks[s].fd
  /\ Has(s, "CONNECTED") => descriptors[Peer(s)].peer = socks[s].fd
Lost(s) == socks[s].fd # NULL_SOCKET /\ Descriptor(s).state = "connected" /\ ~Has(s, "CONNECTED")
=============================================================================
