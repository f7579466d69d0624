------------------------ MODULE UnscheduledPriorities ------------------------
(***************************************************************************)
(* How the daemons agree on the priority of unscheduled datagrams: the      *)
(* WorkloadManager actor of each host, the unscheduled half of its          *)
(* PriorityManager, and the workloads that senders and receivers exchange.  *)
(*                                                                         *)
(* A WorkloadManager cuts the lengths of the messages its host received     *)
(* into LEVELS equal shares.  Every datagram carries the cuts (its          *)
(* "workload") of the host that sent it, and whoever receives one puts them *)
(* into its own PriorityManager, where later senders look up the priority   *)
(* of a message to that host.                                              *)
(*                                                                         *)
(* A sender and a receiver keep the workload they got at their start, and   *)
(* the network delays and repeats datagrams, so a workload may arrive at    *)
(* any time and more than once.  Puts and lookups go through the one        *)
(* mailbox of the PriorityManager, in the order they were sent.             *)
(***************************************************************************)
EXTENDS Integers, Sequences, FiniteSets, SequencesExt

CONSTANTS
  Hosts,
  Lengths,           \* message lengths
  LEVELS,            \* CONST::UNSCHEDULED_PRIORITY_LEVELS
  SAMPLE_SIZE,       \* CONST::MINIMUM_WORKLOAD_SAMPLE_SIZE
  RTT_BYTES,         \* UNSCHEDULED_DATAGRAM_LIMIT * DATAGRAM_PAYLOAD_LENGTH
  MAX_MESSAGES,      \* bound on messages sent
  MAX_RECEIVERS,     \* bound on receivers created
  None

\* Up to here Quantiles takes in the errors of f32; the code sets no bounds.
LengthLimit == 2 ^ 23
SampleLimit == 2 ^ 19

\* A DSCP has six bits: at most eight levels, eight apart.
ASSUME WorkloadAssumption ==
  /\ Lengths \subseteq 1 .. LengthLimit - 1
  /\ LEVELS \in 2 .. 8 /\ SAMPLE_SIZE \in Nat \ {0, 1} /\ RTT_BYTES \in Nat
  /\ MAX_MESSAGES \in Nat /\ MAX_RECEIVERS \in 0 .. SampleLimit - 1
  /\ None \notin [1 .. LEVELS - 1 -> Nat]

VARIABLES
  message_lengths,   \* each host's samples, in order
  workload,          \* each host's cuts
  partitions,        \* unscheduled_priority_partitions: what a host knows of another
  sends,             \* message senders: the workload is None until they have it
  receives           \* message receivers: likewise

vars == <<message_lengths, workload, partitions, sends, receives>>

\* UNSCHEDULED_PRIORITY_PARTITIONS of them.
Partition == 1 .. LEVELS - 1
Cuts      == [Partition -> Nat]

-----------------------------------------------------------------------------
(* WorkloadManager *)

DefaultCuts == [i \in Partition |-> i * (RTT_BYTES \div LEVELS)]

\* LEVELS times the interpolation of the samples v at position p / LEVELS: the two
\* neighbours (one, if the position is a sample), each weighted by its nearness.
Interpolation(v, p) ==
    v[p \div LEVELS + 1] * (LEVELS - (p % LEVELS))
  + v[(p + LEVELS - 1) \div LEVELS + 1] * (p % LEVELS)

\* quantile(v, i / LEVELS): the values it may return.  It computes in f32: the
\* position, whose error grows with the number of samples, is less than one
\* LEVELS-th of a sample off to either side, and each of the two products loses
\* its fraction, and may come out less than one off before it does.
Quantiles(v, i) ==
  LET pos  == (Len(v) - 1) * i
      low  == Interpolation(v, pos - 1) \div LEVELS - 2
      high == (Interpolation(v, pos + 1) + LEVELS - 1) \div LEVELS
  IN  (low .. high) \cap Nat

\* calculate_priority_level_partitions: the cuts the samples v may give.
PriorityLevelPartitions(v) ==
  IF Len(v) < SAMPLE_SIZE
  THEN {DefaultCuts}
  ELSE {c \in [Partition -> UNION {Quantiles(v, i) : i \in Partition}] :
          \A i \in Partition : c[i] \in Quantiles(v, i)}

\* Mutation: a length that binary_search does not find goes to the end.
InsertedLast(v, n) == Append(v, n)

\* Where binary_search finds n, or would insert it.
Inserted(v, n) == InsertAt(v, 1 + Cardinality({i \in DOMAIN v : v[i] < n}), n)

-----------------------------------------------------------------------------
(* PriorityManager *)

\* Mutation: the search starts with the last partition.
KnownPriorityFromLast(cuts, n) ==
  LET fits == {i \in Partition : n <= cuts[i]}
  IN  IF fits # {} THEN 56 - 8 * (Max(fits) - 1) ELSE 64 - 8 * (LEVELS - 1)

\* Mutation: a partition does not include its bound.
KnownPriorityStrict(cuts, n) ==
  LET fits == {i \in Partition : n < cuts[i]}
  IN  IF fits # {} THEN 56 - 8 * (Min(fits) - 1) ELSE 64 - 8 * (LEVELS - 1)

\* Mutation: the first partition counts from the top, past the six bits of DSCP.
KnownPriorityFromTop(cuts, n) ==
  LET fits == {i \in Partition : n <= cuts[i]}
  IN  IF fits # {} THEN 64 - 8 * (Min(fits) - 1) ELSE 64 - 8 * (LEVELS - 1)

\* handle_get_unscheduled_priority, to a host whose partitions are known...
KnownPriority(cuts, n) ==
  LET fits == {i \in Partition : n <= cuts[i]}
  IN  IF fits # {} THEN 56 - 8 * (Min(fits) - 1) ELSE 64 - 8 * (LEVELS - 1)

\* ...and to any other.
UnknownPriority(n) ==
  LET fits == {i \in Partition : n <= i * (RTT_BYTES \div LEVELS)}
  IN  IF fits # {} THEN 64 - 8 * Min(fits) ELSE 64 - 8 * LEVELS

UnscheduledPriority(h, g, n) ==
  IF partitions[h][g] = None THEN UnknownPriority(n) ELSE KnownPriority(partitions[h][g], n)

\* handle_put_priority_level_partions: the last put counts.
Put(h, g, cuts) == partitions' = [partitions EXCEPT ![h][g] = cuts]

-----------------------------------------------------------------------------
(* Senders and receivers *)

\* run_message_sender looks up the priority of its datagrams...
StartSender(h, g, n) ==
  /\ Len(sends) < MAX_MESSAGES
  /\ sends' = Append(sends, [from |-> h, to |-> g, length |-> n, workload |-> None,
                             priority |-> UnscheduledPriority(h, g, n)])
  /\ UNCHANGED <<message_lengths, workload, partitions, receives>>

\* ...then gets the workload they carry.
GetWorkload(s) ==
  /\ sends[s].workload = None
  /\ sends' = [sends EXCEPT ![s].workload = workload[sends[s].from]]
  /\ UNCHANGED <<message_lengths, workload, partitions, receives>>

\* run_message_receiver, put_remote_workload.  A datagram of the message may make
\* a receiver again, in a later life of the application.
CreateReceiver(s) ==
  /\ sends[s].workload # None
  /\ Len(receives) < MAX_RECEIVERS
  /\ receives' = Append(receives, [message |-> s, workload |-> None])
  /\ Put(sends[s].to, sends[s].from, sends[s].workload)
  /\ UNCHANGED <<message_lengths, workload, sends>>

\* Mutation: the partitions are those of the samples before.
UpdateWorkloadLate(r) ==
  LET msg == sends[receives[r].message]
  IN  /\ receives[r].workload = None
      /\ message_lengths' = [message_lengths EXCEPT ![msg.to] = Inserted(@, msg.length)]
      /\ \E c \in PriorityLevelPartitions(message_lengths[msg.to]) :
           /\ workload' = [workload EXCEPT ![msg.to] = c]
           /\ receives' = [receives EXCEPT ![r].workload = c]
      /\ UNCHANGED <<partitions, sends>>

\* get_local_workload: handle_update_workload counts the message and replies with
\* the new partitions, which the grants and resends of this receiver carry.
UpdateWorkload(r) ==
  LET msg == sends[receives[r].message]
  IN  /\ receives[r].workload = None
      /\ message_lengths' = [message_lengths EXCEPT ![msg.to] = Inserted(@, msg.length)]
      /\ \E c \in PriorityLevelPartitions(message_lengths'[msg.to]) :
           /\ workload' = [workload EXCEPT ![msg.to] = c]
           /\ receives' = [receives EXCEPT ![r].workload = c]
      /\ UNCHANGED <<partitions, sends>>

\* Mutation: the sender puts the workload under its own address.
ReceiveReplyOwn(r) ==
  LET msg == sends[receives[r].message]
  IN  /\ receives[r].workload # None
      /\ Put(msg.from, msg.from, receives[r].workload)
      /\ UNCHANGED <<message_lengths, workload, sends, receives>>

\* A grant or resend arrives, in time, late or again: the sender puts the
\* receiver's workload.
ReceiveReply(r) ==
  LET msg == sends[receives[r].message]
  IN  /\ receives[r].workload # None
      /\ Put(msg.from, msg.to, receives[r].workload)
      /\ UNCHANGED <<message_lengths, workload, sends, receives>>

\* run_workload_manager first calculates the partitions of no samples.
Init ==
  /\ message_lengths = [h \in Hosts |-> <<>>]
  /\ workload = [h \in Hosts |-> DefaultCuts]
  /\ partitions = [h \in Hosts |-> [g \in Hosts |-> None]]
  /\ sends = <<>>
  /\ receives = <<>>

Next ==
  \/ \E h, g \in Hosts : \E n \in Lengths : StartSender(h, g, n)
  \/ \E s \in DOMAIN sends : GetWorkload(s) \/ CreateReceiver(s)
  \/ \E r \in DOMAIN receives : UpdateWorkload(r) \/ ReceiveReply(r)

Spec == Init /\ [][Next]_vars

-----------------------------------------------------------------------------
(* Properties *)

TypeOK ==
  /\ message_lengths \in [Hosts -> Seq(Lengths)]
  /\ workload \in [Hosts -> Cuts]
  /\ partitions \in [Hosts -> [Hosts -> Cuts \cup {None}]]
  /\ sends \in Seq([from : Hosts, to : Hosts, length : Lengths,
                    workload : Cuts \cup {None}, priority : 0 .. 63])
  /\ receives \in Seq([message : DOMAIN sends, workload : Cuts \cup {None}])

\* The lengths of the messages that host h counted.
Counted(h) == {r \in DOMAIN receives :
                 receives[r].workload # None /\ sends[receives[r].message].to = h}

\* The samples stay in order, which binary_search and quantile take for granted,
\* and are the lengths of the messages received, with repetitions.
SamplesInOrder ==
  \A h \in Hosts :
    /\ \A i, j \in DOMAIN message_lengths[h] :
         i < j => message_lengths[h][i] <= message_lengths[h][j]
    /\ \A n \in Lengths :
         Cardinality({i \in DOMAIN message_lengths[h] : message_lengths[h][i] = n})
           = Cardinality({r \in Counted(h) : sends[receives[r].message].length = n})

\* What a host has stored of another is a workload that other host sent to it,
\* never its own nor a third one's: the receiver stores under the source address,
\* the sender under the destination address.
PartitionsAreTheHosts ==
  \A h, g \in Hosts : partitions[h][g] # None =>
    \/ \E s \in DOMAIN sends :
         /\ sends[s].from = g /\ sends[s].to = h
         /\ sends[s].workload = partitions[h][g]
    \/ \E r \in DOMAIN receives :
         /\ sends[receives[r].message].from = h /\ sends[receives[r].message].to = g
         /\ receives[r].workload = partitions[h][g]

\* Once a host has its samples, the cuts share them out: at most one sample more
\* than i of LEVELS equal shares of the way is shorter than cut i, and that many are
\* no longer than it, but for the two bytes that truncation takes.
EqualShares ==
  \A h \in Hosts : Len(message_lengths[h]) >= SAMPLE_SIZE =>
    \A i \in Partition :
      LET v       == message_lengths[h]
          cut     == workload[h][i]
          shorter == {k \in DOMAIN v : v[k] < cut}
          upTo    == {k \in DOMAIN v : v[k] <= cut + 2}
      IN  /\ LEVELS * (Cardinality(shorter) - 1) <= (Len(v) - 1) * i
          /\ LEVELS * Cardinality(upTo) >= (Len(v) - 1) * i

\* To any one host, at any time, a message a byte longer never goes before the
\* shorter one.  The cuts need not be in order (truncation makes <<4, 4, 5, 4, 4>> of five
\* samples of 5), so this rests on the search taking the first cut that fits.
LongerNeverHigher ==
  \A h, g \in Hosts : \A n \in 1 .. RTT_BYTES :
    UnscheduledPriority(h, g, n) >= UnscheduledPriority(h, g, n + 1)

\* The default partitions exist twice, in the WorkloadManager and in the lookup
\* for an unknown host: to learn of a host that it still uses the defaults moves
\* no message that fits one of them.
DefaultsAgree ==
  \A h, g \in Hosts : partitions[h][g] = DefaultCuts =>
    \A n \in 1 .. DefaultCuts[LEVELS - 1] :
      UnscheduledPriority(h, g, n) = UnknownPriority(n)

=============================================================================
