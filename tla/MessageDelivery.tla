--------------------------- MODULE MessageDelivery ---------------------------
(***************************************************************************)
(* What the transfer of one message promises its two ends, with no          *)
(* datagrams in sight.  The receiving end settles once, by delivering the   *)
(* message or by failing; the sending end settles once, by learning that    *)
(* the message was delivered or by giving up.  The one safety promise that  *)
(* ties them together is in Confirm: the sender is told of a delivery only  *)
(* after it happened.  (The converse cannot be promised: the confirmation   *)
(* may be lost, so a sender may give up on a delivered message.)            *)
(*                                                                         *)
(* MessageTransfer implements this specification.                          *)
(***************************************************************************)

VARIABLES
  sender,    \* "pending", "confirmed" or "gaveUp"
  receiver   \* "pending", "delivered" or "failed"

vars == <<sender, receiver>>

TypeOK ==
  /\ sender   \in {"pending", "confirmed", "gaveUp"}
  /\ receiver \in {"pending", "delivered", "failed"}

Init ==
  /\ sender   = "pending"
  /\ receiver = "pending"

Deliver ==
  /\ receiver = "pending"
  /\ receiver' = "delivered"
  /\ UNCHANGED sender

Fail ==
  /\ receiver = "pending"
  /\ receiver' = "failed"
  /\ UNCHANGED sender

Confirm ==
  /\ sender = "pending"
  /\ receiver = "delivered"
  /\ sender' = "confirmed"
  /\ UNCHANGED receiver

GiveUp ==
  /\ sender = "pending"
  /\ sender' = "gaveUp"
  /\ UNCHANGED receiver

Next == Deliver \/ Fail \/ Confirm \/ GiveUp

Spec == Init /\ [][Next]_vars

=============================================================================
