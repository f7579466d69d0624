--------------------------- MODULE DatagramReceiver ---------------------------
(***************************************************************************)
(* The DatagramReceiver threads of a daemon: they share one socket behind a *)
(* lock, which a thread gives back before it looks at the packet it got, and *)
(* look up the application of a datagram in a table the registrar changes.  *)
(* What an application does with a datagram is the business of Application. *)
(*                                                                         *)
(* Of a datagram the model keeps its content, the application it is for,    *)
(* and its checksum.  The network may damage a packet: its content changes, *)
(* or it no longer deserializes.                                           *)
(***************************************************************************)
EXTENDS Integers, Sequences

CONSTANTS
  Threads,
  Applications,
  Contents,
  Garbage,        \* what does not deserialize
  MAX_PACKETS,    \* bound on packets sent
  None

VARIABLES
  sent,         \* datagrams sent so far
  socket,       \* packets that wait in the socket
  lock,         \* the thread that holds transport_receiver, or None
  pc,           \* where each thread stands
  packet,       \* the packet each thread has taken
  registered,   \* keys of application_handles
  forwarded     \* datagrams given to an application

netVars == <<sent, socket>>
vars == <<netVars, lock, pc, packet, registered, forwarded>>

-----------------------------------------------------------------------------
(* Checksums *)

\* Two contents with the same CRC are not told apart by any check: none here.
Crc(datagram) == <<datagram.content, datagram.destination>>

\* HomaDatagram::checksum stores what it computes.
Checksum(datagram) == [datagram EXCEPT !.checksum = Crc(datagram)]

-----------------------------------------------------------------------------
(* The network *)

\* send_datagram: the checksum is computed, then the datagram goes on its way.
Send(c, a) ==
  LET datagram == Checksum([content |-> c, destination |-> a, checksum |-> None])
  IN  /\ Len(sent) < MAX_PACKETS
      /\ sent' = Append(sent, datagram)
      /\ socket' = Append(socket, datagram)
      /\ UNCHANGED <<lock, pc, packet, registered, forwarded>>

Damage(i, c) ==
  /\ socket' = [socket EXCEPT ![i].content = c]
  /\ UNCHANGED <<sent, lock, pc, packet, registered, forwarded>>

-----------------------------------------------------------------------------
(* The threads *)

Lock(t) ==
  /\ pc[t] = "waiting"
  /\ lock = None
  /\ lock' = t
  /\ pc' = [pc EXCEPT ![t] = "receiving"]
  /\ UNCHANGED <<netVars, packet, registered, forwarded>>

\* The next packet of the iterator; the lock is released with the block.
Receive(t) ==
  /\ pc[t] = "receiving"
  /\ socket # <<>>
  /\ packet' = [packet EXCEPT ![t] = Head(socket)]
  /\ socket' = Tail(socket)
  /\ lock' = None
  /\ pc' = [pc EXCEPT ![t] = "handling"]
  /\ UNCHANGED <<sent, registered, forwarded>>

\* handle_packet_payload: checksum() has overwritten the checksum of the datagram
\* when it is compared with the one computed.
Validate(t) ==
  /\ pc[t] = "handling"
  /\ packet' = [packet EXCEPT ![t] = IF @.content = Garbage THEN @ ELSE Checksum(@)]
  /\ pc' = [pc EXCEPT ![t] =
              IF packet[t].content # Garbage /\ packet'[t].checksum = Crc(packet[t])
              THEN "dispatching" ELSE "waiting"]
  /\ UNCHANGED <<netVars, lock, registered, forwarded>>

\* handle_datagram, under the lock of application_handles.
Dispatch(t) ==
  /\ pc[t] = "dispatching"
  /\ pc' = [pc EXCEPT ![t] = "waiting"]
  /\ forwarded' = IF packet[t].destination \in registered
                  THEN forwarded \cup {packet[t]} ELSE forwarded
  /\ UNCHANGED <<netVars, lock, packet, registered>>

\* The registrar adds an application, or removes one.
Register(a) ==
  /\ registered' = IF a \in registered THEN registered \ {a} ELSE registered \cup {a}
  /\ UNCHANGED <<netVars, lock, pc, packet, forwarded>>

Init ==
  /\ sent = <<>>
  /\ socket = <<>>
  /\ lock = None
  /\ pc = [t \in Threads |-> "waiting"]
  /\ packet = [t \in Threads |-> None]
  /\ registered = {}
  /\ forwarded = {}

Next ==
  \/ \E c \in Contents, a \in Applications : Send(c, a)
  \/ \E i \in DOMAIN socket, c \in Contents \cup {Garbage} : Damage(i, c)
  \/ \E t \in Threads : Lock(t) \/ Receive(t) \/ Validate(t) \/ Dispatch(t)
  \/ \E a \in Applications : Register(a)

Spec == Init /\ [][Next]_vars

-----------------------------------------------------------------------------
(* Properties *)

\* Only what was sent reaches an application: a datagram that was damaged on its
\* way fails the validation of its checksum (the comment of handle_packet_payload).
CorruptedRejected == \A d \in forwarded : \E i \in DOMAIN sent : sent[i].content = d.content

=============================================================================
