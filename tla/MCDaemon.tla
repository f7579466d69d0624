------------------------------ MODULE MCDaemon ------------------------------
(***************************************************************************)
(* Daemon from two states: from the start, with at most two datagrams to    *)
(* arrive; and from a later one with four receivers, which takes four       *)
(* datagrams and would be found only among millions of states.              *)
(***************************************************************************)
EXTENDS Daemon

CONSTANTS m1, m2

Started(id) == [life |-> 1, id |-> id, state |-> "running"]

\* An application was shut down with two datagrams left in its channel, which made
\* a second receiver for each of its messages.  The first receiver of m2 is giving
\* its level back.  Both of m1 have registered, the second with less: it has replaced the
\* sender of the first, which was woken by that, and whose entry is still queued.
\* The second receiver of m2 waits.  Daemon reaches this state in one life.
AfterShutdown ==
  /\ registry = None
  /\ registrar = <<>>
  /\ reading = FALSE
  /\ connections = 1
  /\ lives = 1
  /\ app = <<"ended">>
  /\ inbox = << <<>> >>
  /\ reader = <<"stopped">>
  /\ writer = <<FALSE>>
  /\ delivered = <<{}>>
  /\ receivers = <<{m1, m2}>>
  /\ senders = <<{}>>
  /\ joins = << [id \in {m1, m2} |-> IF id = m1 THEN 3 ELSE 4] >>
  /\ tasks = <<Started(m2), Started(m1), Started(m1), Started(m2)>>
  /\ dr = None
  /\ arrivals = 4
  /\ handed = << [id \in {m1, m2} |-> 0] >>
  /\ pc = [r \in Receivers |->
             CASE r = <<m2, 1>> -> "finished"
               [] r = <<m1, 2>> -> "activated"
               [] r \in {<<m1, 3>>, <<m2, 4>>} -> "registering"
               [] OTHER -> "idle"]
  /\ remaining = [r \in Receivers |-> IF r \in {<<m2, 1>>, <<m1, 3>>} THEN 1 ELSE 2]
  /\ mailbox = << [kind |-> "Unregister", receiver |-> <<m2, 1>>, remaining |-> 0] >>
  /\ queue = {<<m1, 2>>, <<m1, 1>>, <<m2, 2>>}
  /\ wakers = [id \in Incoming |-> IF id = m1 THEN <<m1, 3>> ELSE <<m2, 4>>]
  /\ levels = [i \in PM!Level |-> <<m2, 1>>]

\* From the start no third datagram arrives, and messages have one byte left.
MCNext ==
  /\ DaemonNext
  /\ \/ arrivals' = 4
     \/ /\ arrivals' < 3
        /\ \A r \in Receivers : pc'[r] # "idle" => remaining'[r] = 1

MCSpec ==
  /\ DaemonInit \/ AfterShutdown
  /\ [][MCNext]_daemonVars
  /\ DaemonFairness

=============================================================================
