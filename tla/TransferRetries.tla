--------------------------- MODULE TransferRetries ---------------------------
(***************************************************************************)
(* MessageTransfer with the count the documentation of the MessageReceiver *)
(* speaks of: how many duplicate grants were sent for the datagram that is  *)
(* missing now.  resend_counter, which decides, counts those of all         *)
(* scheduled datagrams together.                                           *)
(***************************************************************************)
EXTENDS MessageTransfer

VARIABLE duplicateGrants   \* duplicate grants since a datagram was last added

RetryVars == <<vars, duplicateGrants>>

RetryInit == Init /\ duplicateGrants = 0

RetryNext ==
  /\ Next
  /\ duplicateGrants' =
       IF collected_datagrams' # collected_datagrams \/ rPhase' = "waiting" THEN 0
       ELSE IF rPhase = "scheduled" /\ rResends' > rResends THEN duplicateGrants + 1
       ELSE duplicateGrants

RetrySpec == RetryInit /\ [][RetryNext]_RetryVars

\* The receiver gives up on a scheduled datagram only after the maximum number
\* of duplicate grants for that datagram (the header of message_receiver.rs).
FullRetryBudget ==
  [][rPhase = "scheduled" /\ rPhase' = "exited" =>
       duplicateGrants = LARGE_RESENDS]_RetryVars

=============================================================================
