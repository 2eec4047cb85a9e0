----------------------------- MODULE MCSockets -----------------------------
(***************************************************************************)
(* Clients of sockets that send the numbers 1, 2, ... through a buffer     *)
(* they fill, flip, write and compact, and receive through one they read   *)
(* into, flip, empty and clear at once.                                    *)
(***************************************************************************)
EXTENDS Sockets, SequencesExt, TLC

CONSTANTS
  Capacity,   \* of every buffer
  MaxBytes    \* bound: the numbers one socket sends

ASSUME BufferAssumption == {Capacity, MaxBytes} \subseteq Nat

VARIABLES
  apps,     \* socket -> its two buffers, what they are used for, and the numbers so far
  refused   \* auxiliary: the sockets whose last connect threw

vars == << socks, descriptors, ret, apps, refused >>

NewApp == [out |-> NewBuffer(Capacity), draining |-> FALSE, sent |-> 0,
           in |-> NewBuffer(Capacity), got |-> << >>]

MCInit == Init /\ apps = [s \in Sockets |-> NewApp] /\ refused = {}

Connect(s) ==
  /\ connect(s)
  /\ refused' = IF ret'[1] = "throws" THEN refused \cup {s} ELSE refused \ {s}
  /\ UNCHANGED apps
\* A client that closes its socket gives up its buffers with it.
Close(s) ==
  /\ close(s)
  /\ refused' = refused \ {s}
  /\ apps' = [apps EXCEPT ![s] = NewApp]
\* Bound: only what write and read do depends on the mode, so a client chooses
\* it once it is connected.
Setup(s) ==
  /\ \/ bind(s) \/ listen(s)
     \/ shutdown_output(s) \/ shutdown_input(s)
     \/ \E block \in BOOLEAN : Has(s, "CONNECTED") /\ set_blocking(s, block)
  /\ UNCHANGED apps
Accept(s) == \E client \in Sockets : accept(s, client) /\ UNCHANGED apps

\* The two directions of a connection do not touch each other: one is enough.
Quiet(s) == Done /\ UNCHANGED << socks, descriptors >>
Put(s) ==
  /\ Has(s, "CONNECTED") /\ \A t \in Sockets \ {s} : apps[t].sent = 0
  /\ ~apps[s].draining /\ remaining(apps[s].out) > 0 /\ apps[s].sent < MaxBytes
  /\ apps' = [apps EXCEPT ![s].out = put(@, apps[s].sent + 1), ![s].sent = @ + 1]
  /\ Quiet(s)
Flip(s) ==
  /\ ~apps[s].draining /\ apps[s].out.position > 0
  /\ apps' = [apps EXCEPT ![s].out = flip(@), ![s].draining = TRUE]
  /\ Quiet(s)
Write(s) ==
  /\ apps[s].draining
  /\ write(s, apps[s].out)
  /\ apps' = [apps EXCEPT ![s].out = IF ret'[1] = "moved" THEN Written(@, ret'[2]) ELSE @]
\* compact does nothing to an empty buffer, which has to be cleared.
Compact(s) ==
  /\ apps[s].draining
  /\ apps' = [apps EXCEPT ![s].draining = FALSE,
                          ![s].out = IF remaining(@) > 0 THEN compact(@) ELSE clear(@)]
  /\ Quiet(s)
Read(s) ==
  LET filled == flip(Received(apps[s].in, ret'[2], ret'[3]))
  IN /\ read(s, apps[s].in)
     /\ apps' = IF ret'[1] = "moved" /\ ret'[2] > 0
                 THEN [apps EXCEPT ![s].got = @ \o Unread(filled), ![s].in = clear(filled)]
                 ELSE apps

Next == \E s \in Sockets :
  \/ Connect(s) \/ Close(s)
  \/ /\ Setup(s) \/ Accept(s) \/ Put(s) \/ Flip(s) \/ Write(s) \/ Compact(s) \/ Read(s)
     /\ UNCHANGED refused
Spec == MCInit /\ [][Next]_vars
-----------------------------------------------------------------------------
Symmetry == Permutations(Sockets)

Unsent(s) == IF apps[s].draining THEN Unread(apps[s].out) ELSE SubSeq(apps[s].out.data, 1, apps[s].out.position)

\* Whatever call throws, no flag says more of a descriptor than the system
\* does, no descriptor has two owners, and the flags leave nothing out but a
\* connection that a connect has made although it threw
\* (socket.hpp:1060-1114, bsd_socket_class.cpp:86-92).
FlagsMatch == \A s \in Sockets : FlagsAgree(s) /\ (Lost(s) => s \in refused)

\* Between two connected sockets no byte is lost, doubled or overtaken: what
\* one has seen, what is on the way and what waits in the buffer of the other
\* make up all that was sent (socket.hpp:1128-1165, basebuf.hpp:69-279).
InOrder ==
  \A s, t \in Sockets :
    Has(s, "CONNECTED") /\ Has(t, "CONNECTED") /\ Peer(s) = socks[t].fd =>
      apps[t].got \o Descriptor(t).inbox \o Unsent(s) = [i \in 1 .. apps[s].sent |-> i]
=============================================================================
