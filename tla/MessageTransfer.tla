--------------------------- MODULE MessageTransfer ---------------------------
(***************************************************************************)
(* One message on its way from the MessageSender task of one daemon to the  *)
(* MessageReceiver task of another, over a network that loses, duplicates,  *)
(* delays and reorders datagrams.                                           *)
(*                                                                         *)
(* The sender pushes the first UNSCHEDULED_DATAGRAM_LIMIT datagrams on its  *)
(* own, then sends what grants and resends ask for.  The receiver collects  *)
(* the unscheduled datagrams (asking for the missing ones on a timeout),    *)
(* waits for a scheduled priority level, then pulls one datagram per grant. *)
(*                                                                         *)
(* A datagram is a kind and a sequence number; its payload is determined by *)
(* the sequence number and its length is all that is kept of it.  The       *)
(* network and the mpsc channels between the DatagramReceiver threads and   *)
(* the two tasks are one set `net': a datagram stays receivable after being *)
(* received when the network duplicates it.  PriorityManager models what    *)
(* Activate waits for.                                                      *)
(*                                                                         *)
(* The two daemons are configured separately, and no datagram carries the   *)
(* configuration, so the payload length and the unscheduled limit of each   *)
(* side are parameters of their own.                                        *)
(***************************************************************************)
EXTENDS Integers, FiniteSets

CONSTANTS
  MESSAGE_LENGTH,            \* message.content.len()
  SENDER_PAYLOAD_LENGTH,     \* CONFIG.DATAGRAM_PAYLOAD_LENGTH, sending daemon
  RECEIVER_PAYLOAD_LENGTH,   \* CONFIG.DATAGRAM_PAYLOAD_LENGTH, receiving daemon
  SENDER_LIMIT,              \* CONFIG.UNSCHEDULED_DATAGRAM_LIMIT, sending daemon
  RECEIVER_LIMIT,            \* CONFIG.UNSCHEDULED_DATAGRAM_LIMIT, receiving daemon
  SENDER_RESENDS,            \* CONFIG.RESENDS, sending daemon
  RECEIVER_RESENDS,          \* CONFIG.RESENDS, receiving daemon
  LARGE_RESENDS              \* CONFIG.LARGE_RESENDS, receiving daemon

ASSUME ConfigAssumption ==
  /\ MESSAGE_LENGTH \in Nat
  /\ SENDER_PAYLOAD_LENGTH \in Nat \ {0}
  /\ RECEIVER_PAYLOAD_LENGTH \in Nat \ {0}
  /\ SENDER_LIMIT \in Nat
  /\ RECEIVER_LIMIT \in Nat
  /\ SENDER_RESENDS \in Nat
  /\ RECEIVER_RESENDS \in Nat
  /\ LARGE_RESENDS \in Nat

\* Both daemons run with the same -d and -u options.
SameConfig ==
  /\ SENDER_PAYLOAD_LENGTH = RECEIVER_PAYLOAD_LENGTH
  /\ SENDER_LIMIT = RECEIVER_LIMIT

VARIABLES
  sPhase,               \* where run_message_sender stands
  sResends,             \* its resend_counter
  rPhase,               \* where run_message_receiver stands
  rResends,             \* the resend_counter of the loop it is in
  datagrams,            \* indices of the entries of its datagrams vector that are Some
  collected_datagrams,
  collected_bytes,
  net                   \* datagrams that may still be received

senderVars == <<sPhase, sResends>>
slotVars   == <<datagrams, collected_datagrams, collected_bytes>>
vars == <<sPhase, sResends, rPhase, rResends, datagrams,
          collected_datagrams, collected_bytes, net>>

SenderPhase ==
  {"init", "unscheduled", "requested", "transmitted", "gaveUp"}
ReceiverPhase ==
  {"absent", "unscheduled", "waiting", "scheduled", "collected",
   "delivered", "finished", "aborted", "exited", "panicked"}

\* What the task did with the message: it reached the writer, or never will.
Delivered == {"delivered", "finished", "aborted"}
Failed    == {"exited", "panicked"}

-----------------------------------------------------------------------------
(* Datagrams *)

Data(i)   == [kind |-> "Data",   seq |-> i]
Grant(i)  == [kind |-> "Grant",  seq |-> i]
Resend(i) == [kind |-> "Resend", seq |-> i]

CeilDiv(a, b) == (a + b - 1) \div b

\* How many datagrams HomaMessage::split makes, and how many the receiver expects.
SplitCount        == CeilDiv(MESSAGE_LENGTH, SENDER_PAYLOAD_LENGTH)
ExpectedDatagrams == CeilDiv(MESSAGE_LENGTH, RECEIVER_PAYLOAD_LENGTH)

\* The payload length of the sender's i-th datagram; the last may be short.
PayloadLength(i) ==
  IF MESSAGE_LENGTH - i * SENDER_PAYLOAD_LENGTH < SENDER_PAYLOAD_LENGTH
  THEN MESSAGE_LENGTH - i * SENDER_PAYLOAD_LENGTH
  ELSE SENDER_PAYLOAD_LENGTH

UnscheduledOnly == MESSAGE_LENGTH <= RECEIVER_LIMIT * RECEIVER_PAYLOAD_LENGTH

Datagram == [kind : {"Data", "Grant", "Resend"}, seq : Nat]

\* What `net' may hold once m is received: m is gone, or a duplicate remains.
Rest(m) == {net, net \ {m}}

-----------------------------------------------------------------------------
(* The sender *)

\* Mutation: the sender runs one datagram ahead of the grants.
SendAhead(i) == {Data(j) : j \in {i, i + 1} \cap (0 .. SplitCount - 1)}

\* send_datagram: nothing is sent for an index past the end of the vector.
SendDatagram(i) == {Data(j) : j \in {i} \cap (0 .. SplitCount - 1)}

UnscheduledSlice ==
  {Data(i) : i \in (0 .. SENDER_LIMIT - 1) \cap (0 .. SplitCount - 1)}

\* Mutation: the grant of the last datagram ends the transfer.
CheckLastGranted(m) == m.seq = SplitCount - 1

CheckMessageTransmitted(m) == m.seq = SplitCount

\* The last reply ends the transfer; any other asks for one datagram.
HandleReply(m, rest) ==
  IF CheckMessageTransmitted(m)
  THEN /\ sPhase' = "transmitted"
       /\ net' = rest
  ELSE /\ sPhase' = "requested"
       /\ net' = rest \cup SendDatagram(m.seq)

\* run_message_sender up to the first select! of send_unscheduled_datagrams.
SendUnscheduled ==
  /\ sPhase = "init"
  /\ sPhase' = "unscheduled"
  /\ net' = net \cup UnscheduledSlice
  /\ UNCHANGED <<sResends, rPhase, rResends, slotVars>>

\* Mutation: the sender never gives up.
UnscheduledTimeoutForever ==
  /\ sPhase = "unscheduled"
  /\ net' = net \cup UnscheduledSlice
  /\ sResends' = sResends + 1
  /\ UNCHANGED <<sPhase, rPhase, rResends, slotVars>>

\* No reply within TIMEOUT: push the unscheduled datagrams again, or give up.
UnscheduledTimeout ==
  /\ sPhase = "unscheduled"
  /\ \/ /\ sResends = SENDER_RESENDS
        /\ sPhase' = "gaveUp"
        /\ UNCHANGED <<sResends, net>>
     \/ /\ sResends # SENDER_RESENDS
        /\ net' = net \cup UnscheduledSlice
        /\ sResends' = sResends + 1
        /\ UNCHANGED sPhase
  /\ UNCHANGED <<rPhase, rResends, slotVars>>

\* The first grant or resend, taken in send_unscheduled_datagrams and acted on
\* in run_message_sender and at the head of send_requested_datagrams.
FirstReply(m, rest) ==
  /\ sPhase = "unscheduled"
  /\ m.kind # "Data"
  /\ HandleReply(m, rest)
  /\ UNCHANGED <<sResends, rPhase, rResends, slotVars>>

\* The loop of send_requested_datagrams.
NextReply(m, rest) ==
  /\ sPhase = "requested"
  /\ m.kind # "Data"
  /\ HandleReply(m, rest)
  /\ UNCHANGED <<sResends, rPhase, rResends, slotVars>>

\* No datagram within LARGE_TIMEOUT: the sender stops.
LargeTimeout ==
  /\ sPhase = "requested"
  /\ sPhase' = "gaveUp"
  /\ UNCHANGED <<sResends, rPhase, rResends, slotVars, net>>

-----------------------------------------------------------------------------
(* The receiver *)

\* request_resend_unscheduled_datagrams: one resend per empty unscheduled slot.
MissingUnscheduled ==
  ((0 .. RECEIVER_LIMIT - 1) \cap (0 .. ExpectedDatagrams - 1)) \ datagrams

\* Mutation: a filled slot is counted again.
AddDatagramAgain(m) ==
  IF m.seq < ExpectedDatagrams
  THEN /\ datagrams' = datagrams \cup {m.seq}
       /\ collected_datagrams' = collected_datagrams + 1
       /\ collected_bytes' = collected_bytes + PayloadLength(m.seq)
  ELSE UNCHANGED slotVars

\* Mutation: the bytes of an added datagram are not counted.
AddDatagramUncounted(m) ==
  IF m.seq \in (0 .. ExpectedDatagrams - 1) \ datagrams
  THEN /\ datagrams' = datagrams \cup {m.seq}
       /\ collected_datagrams' = collected_datagrams + 1
       /\ UNCHANGED collected_bytes
  ELSE UNCHANGED slotVars

\* add_datagram: an index past the end or a filled slot changes nothing.
AddDatagram(m) ==
  IF m.seq \in (0 .. ExpectedDatagrams - 1) \ datagrams
  THEN /\ datagrams' = datagrams \cup {m.seq}
       /\ collected_datagrams' = collected_datagrams + 1
       /\ collected_bytes' = collected_bytes + PayloadLength(m.seq)
  ELSE UNCHANGED slotVars

\* Mutation: the unscheduled part ends one datagram early.
CheckUnscheduledEarly(count, bytes) ==
  \/ bytes = MESSAGE_LENGTH
  \/ count + 1 >= RECEIVER_LIMIT

\* Mutation: the last byte is waited for once more.
CheckScheduledLate(bytes) == bytes > MESSAGE_LENGTH

\* check_message_unscheduled and check_message_scheduled answer Complete.
CheckUnscheduled(count, bytes) ==
  \/ bytes = MESSAGE_LENGTH
  \/ count >= RECEIVER_LIMIT

CheckScheduled(bytes) == bytes = MESSAGE_LENGTH

\* Where the receiver stands after the check at the head of its first loop.
AfterUnscheduled(count, bytes) ==
  IF ~CheckUnscheduled(count, bytes) THEN "unscheduled"
  ELSE IF UnscheduledOnly THEN "collected" ELSE "waiting"

\* MessageReceiverHandle::new, on the first datagram of an unknown message;
\* indexing the vector past its end panics.
CreateReceiver(m, rest) ==
  /\ rPhase = "absent"
  /\ m.kind = "Data"
  /\ net' = rest
  /\ IF m.seq < ExpectedDatagrams
     THEN /\ datagrams' = {m.seq}
          /\ collected_datagrams' = 1
          /\ collected_bytes' = PayloadLength(m.seq)
          /\ rPhase' = AfterUnscheduled(1, PayloadLength(m.seq))
     ELSE /\ rPhase' = "panicked"
          /\ UNCHANGED slotVars
  /\ UNCHANGED <<senderVars, rResends>>

\* The loop of receive_unscheduled_datagrams.
AddUnscheduled(m, rest) ==
  /\ rPhase = "unscheduled"
  /\ m.kind = "Data"
  /\ net' = rest
  /\ AddDatagram(m)
  /\ rPhase' = AfterUnscheduled(collected_datagrams', collected_bytes')
  /\ UNCHANGED <<senderVars, rResends>>

ResendTimeout ==
  /\ rPhase = "unscheduled"
  /\ \/ /\ rResends = RECEIVER_RESENDS
        /\ rPhase' = "exited"
        /\ UNCHANGED <<rResends, net>>
     \/ /\ rResends # RECEIVER_RESENDS
        /\ net' = net \cup {Resend(i) : i \in MissingUnscheduled}
        /\ rResends' = rResends + 1
        /\ UNCHANGED rPhase
  /\ UNCHANGED <<senderVars, slotVars>>

\* The PriorityManager gives the message a level: the first grant.
Activate ==
  /\ rPhase = "waiting"
  /\ rPhase' = "scheduled"
  /\ rResends' = 0
  /\ net' = net \cup {Grant(collected_datagrams)}
  /\ UNCHANGED <<senderVars, slotVars>>

\* Mutation: grant before looking whether the message is complete.
GrantThenCheck(m, rest) ==
  /\ rPhase = "scheduled"
  /\ m.kind = "Data"
  /\ AddDatagram(m)
  /\ net' = rest \cup {Grant(collected_datagrams')}
  /\ rPhase' = IF CheckScheduled(collected_bytes') THEN "collected" ELSE rPhase
  /\ UNCHANGED <<senderVars, rResends>>

\* The loop of receive_scheduled_datagrams.  resend_counter keeps its value.
AddScheduled(m, rest) ==
  /\ rPhase = "scheduled"
  /\ m.kind = "Data"
  /\ AddDatagram(m)
  /\ IF CheckScheduled(collected_bytes')
     THEN /\ rPhase' = "collected"
          /\ net' = rest
     ELSE /\ net' = rest \cup {Grant(collected_datagrams')}
          /\ UNCHANGED rPhase
  /\ UNCHANGED <<senderVars, rResends>>

\* Mutation: duplicate grants are not counted.
GrantTimeoutUncounted ==
  /\ rPhase = "scheduled"
  /\ net' = net \cup {Grant(collected_datagrams)}
  /\ UNCHANGED <<senderVars, slotVars, rPhase, rResends>>

GrantTimeout ==
  /\ rPhase = "scheduled"
  /\ \/ /\ rResends = LARGE_RESENDS
        /\ rPhase' = "exited"
        /\ UNCHANGED <<rResends, net>>
     \/ /\ rResends # LARGE_RESENDS
        /\ net' = net \cup {Grant(collected_datagrams)}
        /\ rResends' = rResends + 1
        /\ UNCHANGED rPhase
  /\ UNCHANGED <<senderVars, slotVars>>

\* complete, up to the message to the Application: build_message panics on an
\* empty slot, otherwise the message goes to the writer.
Complete ==
  /\ rPhase = "collected"
  /\ rPhase' = IF datagrams = 0 .. ExpectedDatagrams - 1
               THEN "delivered" ELSE "panicked"
  /\ UNCHANGED <<senderVars, rResends, slotVars, net>>

\* Mutation: the final grant names the last datagram, not their number.
FinalGrantOfLast ==
  /\ rPhase = "delivered"
  /\ rPhase' = "finished"
  /\ net' = net \cup {Grant(ExpectedDatagrams - 1)}
  /\ UNCHANGED <<senderVars, rResends, slotVars>>

\* The last line of complete tells the sender that the message is delivered...
FinalGrant ==
  /\ rPhase = "delivered"
  /\ rPhase' = "finished"
  /\ net' = net \cup {Grant(ExpectedDatagrams)}
  /\ UNCHANGED <<senderVars, rResends, slotVars>>

\* ...unless the Application, which aborts the task when it hears from it, is
\* faster: then the sender hears nothing more.
AbortReceiver ==
  /\ rPhase = "delivered"
  /\ rPhase' = "aborted"
  /\ UNCHANGED <<senderVars, rResends, slotVars, net>>

-----------------------------------------------------------------------------
(* The network, and datagrams nobody waits for *)

Lose(m) ==
  /\ net' = net \ {m}
  /\ UNCHANGED <<senderVars, rPhase, rResends, slotVars>>

\* Data of a message that is delivered or failed, control of a sender that
\* stopped: the Application or a closed channel drops it.
Unwanted(m) ==
  \/ m.kind = "Data" /\ rPhase \in Delivered \cup Failed
  \/ m.kind # "Data" /\ sPhase \in {"transmitted", "gaveUp"}

Discard(m) ==
  /\ Unwanted(m)
  /\ Lose(m)

-----------------------------------------------------------------------------
Init ==
  /\ sPhase = "init"
  /\ sResends = 0
  /\ rPhase = "absent"
  /\ rResends = 0
  /\ datagrams = {}
  /\ collected_datagrams = 0
  /\ collected_bytes = 0
  /\ net = {}

Receive(m, rest) ==
  \/ FirstReply(m, rest)
  \/ NextReply(m, rest)
  \/ CreateReceiver(m, rest)
  \/ AddUnscheduled(m, rest)
  \/ AddScheduled(m, rest)

\* Steps a task takes without waiting for a datagram or for a timer.
Proceed == SendUnscheduled \/ Activate \/ Complete \/ FinalGrant \/ AbortReceiver

Timeout == UnscheduledTimeout \/ LargeTimeout \/ ResendTimeout \/ GrantTimeout

Next ==
  \/ Proceed
  \/ Timeout
  \/ \E m \in net : \/ \E rest \in Rest(m) : Receive(m, rest)
                    \/ Lose(m)

Spec == Init /\ [][Next]_vars

\* No duplication: a datagram is received once.
ReceiveOnce(m) == Receive(m, net \ {m}) \/ Discard(m)

\* Datagrams are lost but not duplicated, and each is eventually received or
\* lost.  Timers are only counted on once nothing is in flight: a datagram that
\* arrives restarts every timer, so the code promises no more.
Settle == \E m \in net : ReceiveOnce(m) \/ Lose(m)

FairNext ==
  \/ Proceed
  \/ Timeout
  \/ Settle

SenderSilence   == net = {} /\ (UnscheduledTimeout \/ LargeTimeout)
ReceiverSilence == net = {} /\ (ResendTimeout \/ GrantTimeout)

Fairness ==
  /\ WF_vars(Proceed)
  /\ WF_vars(Settle)
  /\ WF_vars(SenderSilence)
  /\ WF_vars(ReceiverSilence)

\* WF of Proceed holds for Activate too: it takes for granted that a receiver that
\* waits gets a level.  Served of Daemon says when it does.
FairSpec == Init /\ [][FairNext]_vars /\ Fairness

\* The quiet network: nothing is lost or duplicated.  A timer may still fire
\* early and cause a needless retransmission, but none gives up: that takes a
\* silence of all the timeouts, which the other side fills if it can.  An aborted
\* receiver cannot, so then the sender does.
Retry == Timeout /\ UNCHANGED <<sPhase, rPhase>>

Forsaken == rPhase = "aborted" /\ SenderSilence

QuietNext ==
  \/ Proceed
  \/ \E m \in net : ReceiveOnce(m)
  \/ Retry
  \/ Forsaken

QuietFairness == WF_vars(QuietNext)

QuietSpec == Init /\ [][QuietNext]_vars /\ QuietFairness

-----------------------------------------------------------------------------
(* Properties *)

TypeOK ==
  /\ sPhase \in SenderPhase
  /\ sResends \in 0 .. SENDER_RESENDS
  /\ rPhase \in ReceiverPhase
  /\ rResends \in Nat
  /\ datagrams \subseteq 0 .. ExpectedDatagrams - 1
  /\ collected_datagrams \in Nat
  /\ collected_bytes \in Nat
  /\ net \subseteq Datagram

\* A grant asks for the datagram whose index is the number collected.  That is
\* the first missing one only because the scheduled part arrives in order: in
\* receive_scheduled_datagrams the filled slots form a prefix.
NoHole ==
  rPhase \in {"waiting", "scheduled"} =>
    datagrams = 0 .. collected_datagrams - 1

\* The receiver stays in control: a datagram beyond the unscheduled ones is in
\* flight only after a grant asked for it, so never ahead of what is collected.
GrantWindow ==
  \A m \in net :
    m.kind = "Data" /\ m.seq >= SENDER_LIMIT => m.seq <= collected_datagrams

\* Neither the unwrap of MessageReceiverHandle::new nor that of build_message
\* meets an empty slot.
NoPanic == rPhase # "panicked"

\* The sender ends a transfer on a reply that names the number of datagrams;
\* only the final grant of a delivered message does, so never a receiver that
\* was aborted before it.
TransmittedMeansDelivered ==
  sPhase = "transmitted" => rPhase = "finished"

\* get_priority and register_priority subtract collected_bytes from the length
\* in u64: the difference is positive, so it neither wraps nor registers an
\* empty message.
RemainingPositive ==
  rPhase \in {"waiting", "scheduled"} => collected_bytes < MESSAGE_LENGTH

\* What reaches the application is the whole message.
DeliveredIntact ==
  rPhase \in Delivered => collected_bytes = MESSAGE_LENGTH

\* The transfer implements MessageDelivery.
SenderOutcome ==
  CASE sPhase = "transmitted" -> "confirmed"
    [] sPhase = "gaveUp"      -> "gaveUp"
    [] OTHER                  -> "pending"
ReceiverOutcome ==
  CASE rPhase \in Delivered -> "delivered"
    [] rPhase \in Failed    -> "failed"
    [] OTHER                -> "pending"

Delivery == INSTANCE MessageDelivery WITH
  sender <- SenderOutcome, receiver <- ReceiverOutcome

ImplementsDelivery == Delivery!Spec

SenderSettled   == sPhase \in {"transmitted", "gaveUp"}
ReceiverSettled == rPhase \in {"absent", "finished", "aborted", "exited", "panicked"}
Settled         == SenderSettled /\ ReceiverSettled
Confirmed       == rPhase = "finished" /\ sPhase = "transmitted"
Unconfirmed     == rPhase = "aborted" /\ sPhase = "gaveUp"

\* Whatever is lost, both tasks end: no exchange of grants and datagrams goes on
\* for ever, and no timer is re-armed for ever.
Terminates == <>[]Settled

\* On a quiet network every message of at least one byte is delivered, with no
\* resend left to luck, and confirmed unless the abort of the receiver's task beats
\* the final grant; the sender of a message so delivered gives up.
EventuallyDelivered ==
  MESSAGE_LENGTH > 0 => <>(Confirmed \/ Unconfirmed)

=============================================================================
