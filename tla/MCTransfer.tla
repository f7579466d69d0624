----------------------------- MODULE MCTransfer -----------------------------
(***************************************************************************)
(* MessageTransfer for messages of every shape: each scenario gives the     *)
(* constants their values and chooses the network, and one run checks them  *)
(* all.                                                                    *)
(***************************************************************************)
EXTENDS Integers

VARIABLES
  sPhase, sResends, rPhase, rResends, datagrams, collected_datagrams,
  collected_bytes, net,
  scenario   \* never changes

T(s) == INSTANCE MessageTransfer WITH
  MESSAGE_LENGTH          <- s.length,
  SENDER_PAYLOAD_LENGTH   <- 2,
  RECEIVER_PAYLOAD_LENGTH <- 2,
  SENDER_LIMIT            <- s.limit,
  RECEIVER_LIMIT          <- s.limit,
  SENDER_RESENDS          <- 1,
  RECEIVER_RESENDS        <- 1,
  LARGE_RESENDS           <- 2

MCVars == <<sPhase, sResends, rPhase, rResends, datagrams, collected_datagrams,
            collected_bytes, net, scenario>>

Scenario(l, u, n) == [length |-> l, limit |-> u, network |-> n]

\* With datagrams of 2 bytes and 2 unscheduled ones: less than a datagram, one and
\* a half, exactly the unscheduled part, one byte more, and up to three scheduled
\* datagrams, the last short or full.
Shapes == {1, 3, 4, 5, 7, 8, 9}

\* On the worst network datagrams are lost and duplicated; there the messages are
\* those without a scheduled part, for transfer_safety has the others.
Scenarios ==
  {Scenario(l, 2, n) : l \in Shapes, n \in {"fair", "quiet"}}
    \cup {Scenario(l, 2, "worst") : l \in {1, 3, 4}}
    \cup {Scenario(5, 3, "worst")}

On(network) == {s \in Scenarios : s.network = network}

Init == \E s \in Scenarios : scenario = s /\ T(s)!Init

\* FairNext of MessageTransfer, whose fairness names its parts.
Proceed         == \E s \in On("fair") : scenario = s /\ T(s)!Proceed
Settle          == \E s \in On("fair") : scenario = s /\ T(s)!Settle
SenderSilence   == \E s \in On("fair") : scenario = s /\ T(s)!SenderSilence
ReceiverSilence == \E s \in On("fair") : scenario = s /\ T(s)!ReceiverSilence
FairNext        == \E s \in On("fair") : scenario = s /\ T(s)!FairNext

QuietNext == \E s \in On("quiet") : scenario = s /\ T(s)!QuietNext
WorstNext == \E s \in On("worst") : scenario = s /\ T(s)!Next

Keep == UNCHANGED scenario

Next == Keep /\ (WorstNext \/ FairNext \/ QuietNext)

Spec ==
  /\ Init
  /\ [][Next]_MCVars
  /\ WF_MCVars(Keep /\ Proceed)
  /\ WF_MCVars(Keep /\ Settle)
  /\ WF_MCVars(Keep /\ SenderSilence)
  /\ WF_MCVars(Keep /\ ReceiverSilence)
  /\ WF_MCVars(Keep /\ QuietNext)

-----------------------------------------------------------------------------
(* The properties of MessageTransfer, in the scenario at hand *)

\* What reaches the application is the whole message, whatever its length.
DeliveredIntact == \A s \in Scenarios : scenario = s => T(s)!DeliveredIntact

\* No unwrap meets an empty slot, whatever the length.
NoPanic == \A s \in Scenarios : scenario = s => T(s)!NoPanic

\* No sender is told of a delivery that did not happen.
TransmittedMeansDelivered ==
  \A s \in Scenarios : scenario = s => T(s)!TransmittedMeansDelivered

\* Whatever is lost, both tasks end.
Terminates == <>[](\A s \in On("fair") : scenario = s => T(s)!Settled)

\* On a quiet network every message is delivered, and confirmed unless the abort
\* of the receiver's task beats the final grant.
EventuallyDelivered ==
  <>(\A s \in On("quiet") :
       scenario = s => T(s)!Confirmed \/ T(s)!Unconfirmed)

=============================================================================
