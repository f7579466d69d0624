------------------------ MODULE MessageTransferProofs ------------------------
(***************************************************************************)
(* Theorems about MessageTransfer for every message length, payload length, *)
(* unscheduled limit and retry limit, over the network that loses,          *)
(* duplicates, delays and reorders, when both daemons run with the same -d  *)
(* and -u options.                                                         *)
(***************************************************************************)
EXTENDS MessageTransfer, FiniteSetTheorems, TLAPS

\* Phases in which the receiver has left receive_unscheduled_datagrams.
Past == ReceiverPhase \ {"absent", "unscheduled"}

\* The bytes of c datagrams, the last of the message among them or not.
Bytes(c, last) ==
  c * SENDER_PAYLOAD_LENGTH
    - (IF last THEN SplitCount * SENDER_PAYLOAD_LENGTH - MESSAGE_LENGTH ELSE 0)

Collected ==
  /\ collected_datagrams = Cardinality(datagrams)
  /\ collected_bytes = Bytes(collected_datagrams, SplitCount - 1 \in datagrams)

\* What may be in flight when c datagrams are collected in phase p.
Allowed(m, c, p) ==
  /\ m.kind = "Data" =>
       /\ m.seq < SplitCount
       /\ m.seq < SENDER_LIMIT \/ (m.seq <= c /\ p \in Past)
  /\ m.kind = "Grant" =>
       /\ p \in Past
       /\ m.seq <= c
       /\ m.seq = SplitCount => p = "finished"
  /\ m.kind = "Resend" => m.seq < SENDER_LIMIT /\ m.seq < SplitCount

Flow == \A m \in net : Allowed(m, collected_datagrams, rPhase)

\* Which slots are filled in which phase, as a predicate of phase p, slots d and
\* their number c.
Filled(p, d, c) ==
  /\ p = "absent" => c = 0
  /\ p = "unscheduled" => c < SENDER_LIMIT /\ d \subseteq 0 .. SENDER_LIMIT - 1
  /\ p \in {"waiting", "scheduled"} =>
       d = 0 .. c - 1 /\ SENDER_LIMIT <= c /\ c < SplitCount
  /\ p \in {"collected", "delivered", "finished", "aborted"} =>
       d = 0 .. SplitCount - 1 /\ c = SplitCount

IInv ==
  /\ TypeOK
  /\ Collected
  /\ Flow
  /\ Filled(rPhase, datagrams, collected_datagrams)
  /\ NoPanic
  /\ TransmittedMeansDelivered

-----------------------------------------------------------------------------
(* Arithmetic of split *)

LEMMA MulMono ==
  ASSUME NEW a \in Int, NEW b \in Int, NEW p \in Nat, a <= b
  PROVE  a * p <= b * p
<1> DEFINE d == b - a
<1>1. d \in Nat
  OBVIOUS
<1>2. d * p \in Nat
  BY <1>1, SMT
<1>3. b * p = a * p + d * p
  BY SMT
<1> QED
  BY <1>2, <1>3, SMT

\* HomaMessage::split cuts the message exactly: the last datagram is the only
\* short one, and it is not empty.
LEMMA SplitCountBounds ==
  /\ SplitCount \in Nat
  /\ MESSAGE_LENGTH <= SplitCount * SENDER_PAYLOAD_LENGTH
  /\ MESSAGE_LENGTH > 0 =>
       (SplitCount - 1) * SENDER_PAYLOAD_LENGTH < MESSAGE_LENGTH
  /\ MESSAGE_LENGTH = 0 => SplitCount = 0
<1> DEFINE P == SENDER_PAYLOAD_LENGTH
           S == MESSAGE_LENGTH + P - 1
           q == S \div P
           r == S % P
<1>1. /\ P \in Nat \ {0} /\ MESSAGE_LENGTH \in Nat /\ S \in Nat
  BY ConfigAssumption
<1>2. SplitCount = q
  BY DEF SplitCount, CeilDiv
<1>3. q \in Int /\ r \in 0 .. P - 1 /\ S = P * q + r
  BY <1>1, SMT
<1>4. q \in Nat
  <2>1. CASE q < 0
    <3>1. q * P <= (0 - 1) * P
      BY <1>1, <1>3, <2>1, MulMono
    <3> QED
      BY <1>1, <1>3, <3>1, SMT
  <2> QED
    BY <1>3, <2>1
<1>5. P * q = q * P /\ (q - 1) * P = q * P - P
  BY <1>1, <1>4, SMT
<1>6. q * P \in Int
  BY <1>1, <1>4, SMT
<1> HIDE DEF q, r
<1>7. MESSAGE_LENGTH <= q * P /\ (q - 1) * P < MESSAGE_LENGTH
  BY <1>1, <1>3, <1>5, <1>6, SMT
<1>8. MESSAGE_LENGTH <= q * P
  BY <1>1, <1>3, <1>5, <1>6, SMT
<1>9. MESSAGE_LENGTH = 0 => q = 0
  <2>1. SUFFICES ASSUME MESSAGE_LENGTH = 0, q # 0 PROVE FALSE
    OBVIOUS
  <2>2. 1 * P <= q * P
    BY <1>1, <1>4, <2>1, MulMono
  <2> QED
    BY <1>1, <1>3, <1>5, <1>6, <2>1, <2>2, SMT
<1> QED
  BY <1>2, <1>4, <1>7, <1>8, <1>9

LEMMA PayloadLengthValue ==
  ASSUME NEW i \in 0 .. SplitCount - 1
  PROVE  PayloadLength(i) =
           IF i = SplitCount - 1
           THEN MESSAGE_LENGTH - i * SENDER_PAYLOAD_LENGTH
           ELSE SENDER_PAYLOAD_LENGTH
<1> DEFINE P == SENDER_PAYLOAD_LENGTH
<1>1. P \in Nat \ {0} /\ MESSAGE_LENGTH \in Nat /\ SplitCount \in Nat /\ i \in Int
  BY ConfigAssumption, SplitCountBounds
<1>2. i * P \in Int /\ SplitCount * P \in Int /\ (SplitCount - 1) * P \in Int
  BY <1>1, SMT
<1>3. MESSAGE_LENGTH <= SplitCount * P /\ (SplitCount - 1) * P < MESSAGE_LENGTH
  BY <1>1, SplitCountBounds
<1>4. (SplitCount - 1) * P = SplitCount * P - P /\ (i + 1) * P = i * P + P
  BY <1>1, SMT
<1>5. CASE i = SplitCount - 1
  <2>1. i * P = SplitCount * P - P
    BY <1>4, <1>5
  <2>2. MESSAGE_LENGTH - i * P <= P
    BY <1>1, <1>2, <1>3, <2>1, SMT
  <2> QED
    BY <1>1, <1>2, <1>5, <2>2, SMT DEF PayloadLength
<1>6. CASE i # SplitCount - 1
  <2>1. (i + 1) * P <= (SplitCount - 1) * P
    BY <1>1, <1>6, MulMono
  <2>2. ~(MESSAGE_LENGTH - i * P < P)
    BY <1>1, <1>2, <1>3, <1>4, <2>1, SMT
  <2> QED
    BY <1>6, <2>2 DEF PayloadLength
<1> QED
  BY <1>5, <1>6

\* All the bytes are there exactly when all the datagrams are.
LEMMA BytesComplete ==
  ASSUME NEW c \in 0 .. SplitCount, NEW last,
         c = SplitCount => last, MESSAGE_LENGTH > 0
  PROVE  /\ Bytes(c, last) = MESSAGE_LENGTH <=> c = SplitCount
         /\ Bytes(c, last) \in Int
         /\ Bytes(c, last) <= MESSAGE_LENGTH
<1> DEFINE P == SENDER_PAYLOAD_LENGTH
<1>1. P \in Nat \ {0} /\ MESSAGE_LENGTH \in Nat /\ SplitCount \in Nat /\ c \in Int
  BY ConfigAssumption, SplitCountBounds
<1>2. c * P \in Int /\ SplitCount * P \in Int /\ (SplitCount - 1) * P \in Int
  BY <1>1, SMT
<1>3. MESSAGE_LENGTH <= SplitCount * P /\ (SplitCount - 1) * P < MESSAGE_LENGTH
  BY <1>1, SplitCountBounds
<1>4. (SplitCount - 1) * P = SplitCount * P - P
  BY <1>1, SMT
<1>5. CASE c = SplitCount
  BY <1>1, <1>2, <1>5, SMT DEF Bytes
<1>6. CASE c # SplitCount
  <2>1. c * P <= (SplitCount - 1) * P
    BY <1>1, <1>6, MulMono
  <2> QED
    BY <1>1, <1>2, <1>3, <1>4, <1>6, <2>1, SMT DEF Bytes
<1> QED
  BY <1>5, <1>6

-----------------------------------------------------------------------------
(* Filling the slots *)

LEMMA SlotCount ==
  ASSUME NEW n \in Nat, NEW d \in SUBSET (0 .. n - 1)
  PROVE  /\ IsFiniteSet(d)
         /\ Cardinality(d) \in 0 .. n
         /\ Cardinality(d) = n <=> d = 0 .. n - 1
<1>1. IsFiniteSet(0 .. n - 1) /\ Cardinality(0 .. n - 1) = n
  BY FS_Interval
<1>2. /\ IsFiniteSet(d)
      /\ Cardinality(d) <= n
      /\ Cardinality(d) = n => d = 0 .. n - 1
  BY <1>1, FS_Subset, Zenon
<1>3. Cardinality(d) \in Nat
  BY <1>2, FS_CardinalityType
<1> QED
  BY <1>1, <1>2, <1>3

LEMMA ExpectedIsSplit ==
  ASSUME SameConfig
  PROVE  ExpectedDatagrams = SplitCount
BY DEF SameConfig, ExpectedDatagrams, SplitCount

\* add_datagram keeps the two counters in step with the filled slots.
LEMMA AddDatagramCollects ==
  ASSUME SameConfig, TypeOK, Collected,
         NEW m \in Datagram, m.seq < SplitCount, AddDatagram(m)
  PROVE  /\ datagrams' = datagrams \cup {m.seq}
         /\ datagrams' \subseteq 0 .. SplitCount - 1
         /\ collected_datagrams' =
              IF m.seq \in datagrams THEN collected_datagrams ELSE collected_datagrams + 1
         /\ collected_datagrams' \in 0 .. SplitCount
         /\ collected_bytes' \in Nat
         /\ Collected'
<1> DEFINE P == SENDER_PAYLOAD_LENGTH
<1>1. /\ P \in Nat /\ MESSAGE_LENGTH \in Nat /\ SplitCount \in Nat
      /\ m.seq \in 0 .. SplitCount - 1
      /\ datagrams \subseteq 0 .. SplitCount - 1
      /\ collected_datagrams \in Nat /\ collected_bytes \in Nat
  BY ConfigAssumption, SplitCountBounds, ExpectedIsSplit DEF TypeOK, Datagram
<1>2. IsFiniteSet(datagrams)
  BY <1>1, SlotCount
<1>3. CASE m.seq \in datagrams
  <2>1. UNCHANGED slotVars
    BY <1>1, <1>3, ExpectedIsSplit DEF AddDatagram
  <2>2. datagrams = datagrams \cup {m.seq}
    BY <1>3
  <2>3. collected_datagrams \in 0 .. SplitCount
    BY <1>1, SlotCount DEF Collected
  <2> QED
    BY <1>1, <1>3, <2>1, <2>2, <2>3 DEF slotVars, Collected
<1>4. CASE m.seq \notin datagrams
  <2>1. /\ datagrams' = datagrams \cup {m.seq}
        /\ collected_datagrams' = collected_datagrams + 1
        /\ collected_bytes' = collected_bytes + PayloadLength(m.seq)
    BY <1>1, <1>4, ExpectedIsSplit DEF AddDatagram
  <2>2. datagrams' \subseteq 0 .. SplitCount - 1
    BY <1>1, <2>1
  <2>3. collected_datagrams' = Cardinality(datagrams')
    BY <1>2, <1>4, <2>1, FS_AddElement DEF Collected
  <2>4. collected_datagrams' \in 0 .. SplitCount
    BY <1>1, <2>2, <2>3, SlotCount
  <2>5. PayloadLength(m.seq) =
          IF m.seq = SplitCount - 1
          THEN MESSAGE_LENGTH - m.seq * P ELSE P
    BY <1>1, PayloadLengthValue
  <2>6. /\ (collected_datagrams + 1) * P = collected_datagrams * P + P
        /\ collected_datagrams * P \in Int
        /\ SplitCount * P \in Int
        /\ (SplitCount - 1) * P = SplitCount * P - P
    BY <1>1, SMT
  <2>7. collected_bytes' = Bytes(collected_datagrams', SplitCount - 1 \in datagrams')
    <3>1. CASE m.seq = SplitCount - 1
      <4>1. SplitCount - 1 \notin datagrams /\ SplitCount - 1 \in datagrams'
        BY <1>4, <2>1, <3>1
      <4>2. collected_bytes = collected_datagrams * P
        BY <1>1, <2>6, <4>1, SMT DEF Collected, Bytes
      <4>3. PayloadLength(m.seq) = MESSAGE_LENGTH - (SplitCount * P - P)
        BY <2>5, <2>6, <3>1
      <4>4. Bytes(collected_datagrams + 1, TRUE) =
              collected_datagrams * P + P - (SplitCount * P - MESSAGE_LENGTH)
        BY <1>1, <2>6 DEF Bytes
      <4>5. collected_bytes' = Bytes(collected_datagrams + 1, TRUE)
        <5>1. collected_bytes' =
                collected_datagrams * P + (MESSAGE_LENGTH - (SplitCount * P - P))
          BY <2>1, <4>2, <4>3
        <5>2. \A x, y, p, l \in Int : x + (l - (y - p)) = x + p - (y - l)
          OBVIOUS
        <5>3. /\ collected_datagrams * P \in Int /\ SplitCount * P \in Int
              /\ P \in Int /\ MESSAGE_LENGTH \in Int
          BY <1>1, <2>6
        <5>4. collected_datagrams * P + (MESSAGE_LENGTH - (SplitCount * P - P)) =
                collected_datagrams * P + P - (SplitCount * P - MESSAGE_LENGTH)
          BY <5>2, <5>3
        <5> QED
          BY <4>4, <5>1, <5>4
      <4> QED
        BY <2>1, <4>1, <4>5
    <3>2. CASE m.seq # SplitCount - 1
      <4>1. SplitCount - 1 \in datagrams <=> SplitCount - 1 \in datagrams'
        BY <2>1, <3>2
      <4> QED
        BY <1>1, <2>1, <2>5, <2>6, <3>2, <4>1 DEF Collected, Bytes
    <3> QED
      BY <3>1, <3>2
  <2>8. PayloadLength(m.seq) \in Nat
    <3>1. MESSAGE_LENGTH > 0
      BY <1>1, SplitCountBounds
    <3>2. (SplitCount - 1) * P < MESSAGE_LENGTH
      BY <3>1, SplitCountBounds
    <3> QED
      BY <1>1, <2>5, <2>6, <3>2
  <2> QED
    BY <1>1, <1>4, <2>1, <2>2, <2>3, <2>4, <2>7, <2>8 DEF Collected
<1> QED
  BY <1>3, <1>4

\* Leaving the first loop: every unscheduled slot is filled, and in a message of
\* unscheduled datagrams only, every slot is.
LEMMA AfterUnscheduledFills ==
  ASSUME SameConfig, MESSAGE_LENGTH > 0,
         NEW d \in SUBSET (0 .. SplitCount - 1), d \subseteq 0 .. SENDER_LIMIT - 1,
         NEW c, c = Cardinality(d),
         NEW b, b = Bytes(c, SplitCount - 1 \in d)
  PROVE  /\ AfterUnscheduled(c, b) \in {"unscheduled", "waiting", "collected"}
         /\ Filled(AfterUnscheduled(c, b), d, c)
<1>1. SplitCount \in Nat /\ SENDER_LIMIT \in Nat /\ RECEIVER_LIMIT = SENDER_LIMIT
  BY ConfigAssumption, SplitCountBounds DEF SameConfig
<1>2. /\ c \in 0 .. SplitCount /\ c \in 0 .. SENDER_LIMIT
      /\ c = SplitCount <=> d = 0 .. SplitCount - 1
      /\ c = SENDER_LIMIT <=> d = 0 .. SENDER_LIMIT - 1
  BY <1>1, SlotCount
<1>3. SplitCount > 0
  <2>1. SUFFICES ASSUME SplitCount = 0 PROVE FALSE
    BY <1>1
  <2>2. 0 * SENDER_PAYLOAD_LENGTH = 0
    BY ConfigAssumption, SMT
  <2> QED
    BY <2>1, <2>2, SplitCountBounds, ConfigAssumption
<1>4. b = MESSAGE_LENGTH <=> c = SplitCount
  <2>1. c = SplitCount => SplitCount - 1 \in d
    BY <1>1, <1>2, <1>3
  <2>2. Bytes(c, SplitCount - 1 \in d) = MESSAGE_LENGTH <=> c = SplitCount
    BY <1>2, <2>1, BytesComplete, Zenon
  <2> QED
    BY <2>2
<1>5. UnscheduledOnly <=> SplitCount <= SENDER_LIMIT
  <2> DEFINE P == SENDER_PAYLOAD_LENGTH
  <2>1. UnscheduledOnly <=> MESSAGE_LENGTH <= SENDER_LIMIT * P
    BY DEF UnscheduledOnly, SameConfig
  <2>2. /\ P \in Nat /\ MESSAGE_LENGTH \in Nat
        /\ SENDER_LIMIT * P \in Int /\ SplitCount * P \in Int
        /\ (SplitCount - 1) * P \in Int
    BY ConfigAssumption, <1>1, SMT
  <2>3. CASE SplitCount <= SENDER_LIMIT
    <3>1. SplitCount * P <= SENDER_LIMIT * P
      BY <1>1, <2>2, <2>3, MulMono
    <3> QED
      BY <2>1, <2>2, <2>3, <3>1, SplitCountBounds
  <2>4. CASE SENDER_LIMIT < SplitCount
    <3>1. SENDER_LIMIT * P <= (SplitCount - 1) * P
      BY <1>1, <2>2, <2>4, MulMono
    <3>2. (SplitCount - 1) * P < MESSAGE_LENGTH
      BY SplitCountBounds
    <3> QED
      BY <1>1, <2>1, <2>2, <2>4, <3>1, <3>2
  <2> QED
    BY <1>1, <2>3, <2>4
<1>6. CASE ~CheckUnscheduled(c, b)
  BY <1>1, <1>2, <1>6 DEF AfterUnscheduled, Filled, CheckUnscheduled
<1>7. CASE CheckUnscheduled(c, b) /\ UnscheduledOnly
  BY <1>1, <1>2, <1>4, <1>5, <1>7 DEF AfterUnscheduled, Filled, CheckUnscheduled
<1>8. CASE CheckUnscheduled(c, b) /\ ~UnscheduledOnly
  BY <1>1, <1>2, <1>4, <1>5, <1>8 DEF AfterUnscheduled, Filled, CheckUnscheduled
<1> QED
  BY <1>6, <1>7, <1>8

-----------------------------------------------------------------------------
(* The inductive invariant *)

LEMMA InitIInv ==
  ASSUME SameConfig, Init
  PROVE  IInv
<1>1. SplitCount \in Nat /\ SENDER_PAYLOAD_LENGTH \in Nat
  BY ConfigAssumption, SplitCountBounds
<1>2. TypeOK
  BY ConfigAssumption DEF Init, TypeOK, SenderPhase, ReceiverPhase
<1>3. Collected
  <2>1. 0 * SENDER_PAYLOAD_LENGTH = 0
    BY <1>1, SMT
  <2> QED
    BY <2>1, FS_EmptySet DEF Init, Collected, Bytes
<1>4. Flow /\ Filled(rPhase, datagrams, collected_datagrams)
  BY DEF Init, Flow, Filled
<1> QED
  BY <1>2, <1>3, <1>4 DEF Init, IInv, NoPanic, TransmittedMeansDelivered

\* Nothing in flight becomes forbidden as the receiver moves on.
LEMMA AllowedLater ==
  ASSUME NEW m \in Datagram, NEW c \in Nat, NEW p, NEW c2 \in Nat, NEW p2,
         Allowed(m, c, p), c <= c2,
         p \in Past => p2 \in Past,
         p = "finished" => p2 = "finished"
  PROVE  Allowed(m, c2, p2)
BY DEF Allowed, Datagram

\* A step that leaves the receiver alone.
LEMMA SenderStep ==
  ASSUME SameConfig, IInv,
         UNCHANGED <<rPhase, rResends, slotVars>>,
         sPhase' \in SenderPhase, sResends' \in 0 .. SENDER_RESENDS,
         TransmittedMeansDelivered',
         \A d \in net' : d \in Datagram /\ Allowed(d, collected_datagrams, rPhase)
  PROVE  IInv'
<1>1. TypeOK'
  BY DEF IInv, TypeOK, slotVars
<1>2. Flow'
  BY DEF Flow, slotVars
<1> QED
  BY <1>1, <1>2 DEF IInv, Collected, Filled, NoPanic, slotVars

\* A step that leaves the sender alone and ends in phase p2.
LEMMA ReceiverStep ==
  ASSUME SameConfig, IInv, UNCHANGED senderVars,
         rPhase' \in ReceiverPhase \ {"panicked"}, rResends' \in Nat,
         datagrams' \subseteq 0 .. SplitCount - 1,
         collected_datagrams' \in Nat, collected_bytes' \in Nat,
         Collected',
         Filled(rPhase', datagrams', collected_datagrams'),
         rPhase = "finished" => rPhase' = "finished",
         \A d \in net' : d \in Datagram /\ Allowed(d, collected_datagrams', rPhase')
  PROVE  IInv'
<1>1. TypeOK'
  BY ExpectedIsSplit DEF IInv, TypeOK, senderVars
<1>2. Flow'
  BY DEF Flow
<1>3. TransmittedMeansDelivered'
  BY DEF IInv, TransmittedMeansDelivered, senderVars
<1> QED
  BY <1>1, <1>2, <1>3 DEF IInv, NoPanic

LEMMA HandleReplyKeeps ==
  ASSUME SameConfig, IInv, NEW m \in net, m.kind # "Data",
         NEW rest \in Rest(m), HandleReply(m, rest),
         UNCHANGED <<sResends, rPhase, rResends, slotVars>>
  PROVE  IInv'
<1>1. /\ m \in Datagram
      /\ Allowed(m, collected_datagrams, rPhase)
      /\ SplitCount \in Nat
      /\ collected_datagrams \in Nat
  BY SplitCountBounds DEF IInv, TypeOK, Flow
<1>2. rest \subseteq net
  BY DEF Rest
<1>3. \A d \in rest : d \in Datagram /\ Allowed(d, collected_datagrams, rPhase)
  BY <1>2 DEF IInv, TypeOK, Flow
<1>4. CASE CheckMessageTransmitted(m)
  <2>1. sPhase' = "transmitted" /\ net' = rest
    BY <1>4 DEF HandleReply
  <2>2. m.kind = "Grant" /\ m.seq = SplitCount
    BY <1>1, <1>4 DEF CheckMessageTransmitted, Allowed, Datagram
  <2>3. rPhase' = "finished"
    BY <1>1, <2>2 DEF Allowed
  <2>4. TransmittedMeansDelivered'
    BY <2>3 DEF TransmittedMeansDelivered
  <2>5. sPhase' \in SenderPhase /\ sResends' \in 0 .. SENDER_RESENDS
    BY <2>1 DEF SenderPhase, IInv, TypeOK
  <2> QED
    BY <1>3, <2>1, <2>4, <2>5, SenderStep
<1>5. CASE ~CheckMessageTransmitted(m)
  <2>1. sPhase' = "requested" /\ net' = rest \cup SendDatagram(m.seq)
    BY <1>5 DEF HandleReply
  <2>2. ASSUME NEW d \in SendDatagram(m.seq)
        PROVE  d \in Datagram /\ Allowed(d, collected_datagrams, rPhase)
    <3>1. d = Data(m.seq) /\ m.seq \in 0 .. SplitCount - 1
      BY <2>2 DEF SendDatagram
    <3>2. d \in Datagram /\ d.kind = "Data" /\ d.seq = m.seq
      BY <1>1, <3>1 DEF Data, Datagram
    <3>3. m.seq < SENDER_LIMIT \/ (m.seq <= collected_datagrams /\ rPhase \in Past)
      BY <1>1 DEF Allowed, Datagram
    <3> QED
      BY <1>1, <3>1, <3>2, <3>3 DEF Allowed
  <2>3. \A d \in net' : d \in Datagram /\ Allowed(d, collected_datagrams, rPhase)
    BY <1>3, <2>1, <2>2
  <2>4. TransmittedMeansDelivered'
    BY <2>1 DEF TransmittedMeansDelivered
  <2>5. sPhase' \in SenderPhase /\ sResends' \in 0 .. SENDER_RESENDS
    BY <2>1 DEF SenderPhase, IInv, TypeOK
  <2> QED
    BY <2>3, <2>4, <2>5, SenderStep
<1> QED
  BY <1>4, <1>5

LEMMA SenderTimersKeep ==
  ASSUME SameConfig, IInv, SendUnscheduled \/ UnscheduledTimeout \/ LargeTimeout
  PROVE  IInv'
<1>1. UNCHANGED <<rPhase, rResends, slotVars>>
  BY DEF SendUnscheduled, UnscheduledTimeout, LargeTimeout
<1>2. net' \subseteq net \cup UnscheduledSlice
  BY DEF SendUnscheduled, UnscheduledTimeout, LargeTimeout
<1>3. ASSUME NEW d \in net'
      PROVE  d \in Datagram /\ Allowed(d, collected_datagrams, rPhase)
  <2>1. CASE d \in net
    BY <2>1 DEF IInv, TypeOK, Flow
  <2>2. CASE d \in UnscheduledSlice
    <3>1. PICK i \in (0 .. SENDER_LIMIT - 1) \cap (0 .. SplitCount - 1) : d = Data(i)
      BY <2>2 DEF UnscheduledSlice
    <3> QED
      BY <3>1, ConfigAssumption, SplitCountBounds DEF Data, Datagram, Allowed
  <2> QED
    BY <1>2, <1>3, <2>1, <2>2
<1>4. sPhase' \in SenderPhase /\ sPhase' # "transmitted"
  BY DEF SendUnscheduled, UnscheduledTimeout, LargeTimeout, SenderPhase, IInv, TypeOK
<1>5. sResends' \in 0 .. SENDER_RESENDS
  BY ConfigAssumption
     DEF SendUnscheduled, UnscheduledTimeout, LargeTimeout, IInv, TypeOK
<1> QED
  BY <1>1, <1>3, <1>4, <1>5, SenderStep DEF TransmittedMeansDelivered

LEMMA CreateReceiverKeeps ==
  ASSUME SameConfig, IInv, NEW m \in net, NEW rest \in Rest(m),
         CreateReceiver(m, rest)
  PROVE  IInv'
<1>1. /\ m \in Datagram /\ m.kind = "Data" /\ rPhase = "absent"
      /\ SplitCount \in Nat /\ SENDER_LIMIT \in Nat
      /\ SENDER_PAYLOAD_LENGTH \in Nat /\ MESSAGE_LENGTH \in Nat
  BY ConfigAssumption, SplitCountBounds DEF CreateReceiver, IInv, TypeOK
<1>2. /\ m.seq \in 0 .. SplitCount - 1
      /\ m.seq \in 0 .. SENDER_LIMIT - 1
  BY <1>1 DEF IInv, Flow, Allowed, Datagram, Past
<1>3. MESSAGE_LENGTH > 0 /\ SplitCount > 0
  BY <1>1, <1>2, SplitCountBounds
<1>4. /\ datagrams' = {m.seq}
      /\ collected_datagrams' = 1
      /\ collected_bytes' = PayloadLength(m.seq)
      /\ rPhase' = AfterUnscheduled(1, PayloadLength(m.seq))
      /\ net' = rest
      /\ UNCHANGED <<senderVars, rResends>>
  BY <1>1, <1>2, ExpectedIsSplit DEF CreateReceiver
<1>5. Collected' /\ collected_bytes' \in Nat
  <2> DEFINE P == SENDER_PAYLOAD_LENGTH
  <2>1. Cardinality({m.seq}) = 1
    BY FS_Singleton
  <2>2. PayloadLength(m.seq) =
          IF m.seq = SplitCount - 1 THEN MESSAGE_LENGTH - m.seq * P ELSE P
    BY <1>2, PayloadLengthValue
  <2>3. /\ 1 * P = P
        /\ (SplitCount - 1) * P = SplitCount * P - P
        /\ SplitCount * P \in Int
    BY <1>1, SMT
  <2>4. (SplitCount - 1) * P < MESSAGE_LENGTH
    BY <1>3, SplitCountBounds
  <2>5. SplitCount - 1 \in datagrams' <=> m.seq = SplitCount - 1
    BY <1>4
  <2>6. PayloadLength(m.seq) = Bytes(1, SplitCount - 1 \in datagrams')
    <3>1. CASE m.seq = SplitCount - 1
      <4>1. PayloadLength(m.seq) = MESSAGE_LENGTH - (SplitCount * P - P)
        BY <2>2, <2>3, <3>1
      <4>2. Bytes(1, SplitCount - 1 \in datagrams') = P - (SplitCount * P - MESSAGE_LENGTH)
        BY <2>3, <2>5, <3>1 DEF Bytes
      <4>3. \A y, p, l \in Int : l - (y - p) = p - (y - l)
        OBVIOUS
      <4>4. MESSAGE_LENGTH - (SplitCount * P - P) = P - (SplitCount * P - MESSAGE_LENGTH)
        BY <1>1, <2>3, <4>3
      <4> QED
        BY <4>1, <4>2, <4>4
    <3>2. CASE m.seq # SplitCount - 1
      BY <1>1, <2>2, <2>3, <2>5, <3>2 DEF Bytes
    <3> QED
      BY <3>1, <3>2
  <2>7. PayloadLength(m.seq) \in Nat
    BY <1>1, <2>2, <2>3, <2>4
  <2> QED
    BY <1>4, <2>1, <2>6, <2>7 DEF Collected
<1>6. /\ rPhase' \in {"unscheduled", "waiting", "collected"}
      /\ Filled(rPhase', datagrams', collected_datagrams')
  <2>1. /\ datagrams' \in SUBSET (0 .. SplitCount - 1)
        /\ datagrams' \subseteq 0 .. SENDER_LIMIT - 1
    BY <1>2, <1>4
  <2>2. /\ collected_datagrams' = Cardinality(datagrams')
        /\ collected_bytes' = Bytes(collected_datagrams', SplitCount - 1 \in datagrams')
    BY <1>5 DEF Collected
  <2>3. rPhase' = AfterUnscheduled(collected_datagrams', collected_bytes')
    BY <1>4
  <2> QED
    BY <1>3, <2>1, <2>2, <2>3, AfterUnscheduledFills
<1>7. ASSUME NEW d \in net'
      PROVE  d \in Datagram /\ Allowed(d, collected_datagrams', rPhase')
  <2>1. d \in Datagram /\ Allowed(d, collected_datagrams, rPhase)
    BY <1>4, <1>7 DEF Rest, IInv, TypeOK, Flow
  <2>2. collected_datagrams = 0
    BY <1>1 DEF IInv, Filled
  <2> QED
    BY <1>1, <1>4, <2>1, <2>2, AllowedLater DEF Past
<1>8. rResends' \in Nat /\ datagrams' \subseteq 0 .. SplitCount - 1
  BY <1>2, <1>4 DEF IInv, TypeOK
<1> QED
  BY <1>1, <1>4, <1>5, <1>6, <1>7, <1>8, ReceiverStep DEF ReceiverPhase

\* Every datagram in flight stays allowed when a data datagram is added.
LEMMA AddedAllowed ==
  ASSUME SameConfig, IInv, NEW m \in net, m.kind = "Data",
         NEW rest \in Rest(m), AddDatagram(m),
         rPhase \in {"unscheduled", "scheduled"},
         rPhase' \in ReceiverPhase, rPhase \in Past => rPhase' \in Past
  PROVE  \A d \in rest :
           d \in Datagram /\ Allowed(d, collected_datagrams', rPhase')
<1>1. /\ m \in Datagram /\ m.seq < SplitCount
      /\ TypeOK /\ Collected /\ collected_datagrams \in Nat
  BY DEF IInv, TypeOK, Flow, Allowed
<1>2. collected_datagrams' \in Nat /\ collected_datagrams <= collected_datagrams'
  BY <1>1, AddDatagramCollects
<1> SUFFICES ASSUME NEW d \in rest
             PROVE  d \in Datagram /\ Allowed(d, collected_datagrams', rPhase')
  OBVIOUS
<1>3. d \in Datagram /\ Allowed(d, collected_datagrams, rPhase)
  BY DEF Rest, IInv, TypeOK, Flow
<1> QED
  BY <1>1, <1>2, <1>3, AllowedLater

LEMMA AddUnscheduledKeeps ==
  ASSUME SameConfig, IInv, NEW m \in net, NEW rest \in Rest(m),
         AddUnscheduled(m, rest)
  PROVE  IInv'
<1>1. /\ m \in Datagram /\ m.kind = "Data" /\ rPhase = "unscheduled"
      /\ AddDatagram(m) /\ net' = rest
      /\ rPhase' = AfterUnscheduled(collected_datagrams', collected_bytes')
      /\ UNCHANGED <<senderVars, rResends>>
      /\ SplitCount \in Nat /\ SENDER_LIMIT \in Nat /\ MESSAGE_LENGTH \in Nat
      /\ TypeOK /\ Collected
  BY ConfigAssumption, SplitCountBounds DEF AddUnscheduled, IInv, TypeOK
<1>2. /\ m.seq \in 0 .. SplitCount - 1
      /\ m.seq \in 0 .. SENDER_LIMIT - 1
  BY <1>1 DEF IInv, Flow, Allowed, Datagram, Past
<1>3. MESSAGE_LENGTH > 0
  BY <1>1, <1>2, SplitCountBounds
<1>4. /\ datagrams' = datagrams \cup {m.seq}
      /\ datagrams' \subseteq 0 .. SplitCount - 1
      /\ collected_datagrams' \in Nat
      /\ collected_bytes' \in Nat
      /\ Collected'
  BY <1>1, <1>2, AddDatagramCollects
<1>5. datagrams' \subseteq 0 .. SENDER_LIMIT - 1
  BY <1>1, <1>2, <1>4 DEF IInv, Filled
<1>6. /\ rPhase' \in {"unscheduled", "waiting", "collected"}
      /\ Filled(rPhase', datagrams', collected_datagrams')
  <2>1. /\ collected_datagrams' = Cardinality(datagrams')
        /\ collected_bytes' = Bytes(collected_datagrams', SplitCount - 1 \in datagrams')
    BY <1>4 DEF Collected
  <2> QED
    BY <1>1, <1>3, <1>4, <1>5, <2>1, AfterUnscheduledFills
<1>7. \A d \in net' : d \in Datagram /\ Allowed(d, collected_datagrams', rPhase')
  BY <1>1, <1>6, AddedAllowed DEF ReceiverPhase, Past
<1> QED
  BY <1>1, <1>4, <1>6, <1>7, ReceiverStep DEF ReceiverPhase, IInv, TypeOK

LEMMA AddScheduledKeeps ==
  ASSUME SameConfig, IInv, NEW m \in net, NEW rest \in Rest(m),
         AddScheduled(m, rest)
  PROVE  IInv'
<1>1. /\ m \in Datagram /\ m.kind = "Data" /\ rPhase = "scheduled"
      /\ AddDatagram(m)
      /\ UNCHANGED <<senderVars, rResends>>
      /\ SplitCount \in Nat /\ SENDER_LIMIT \in Nat /\ MESSAGE_LENGTH \in Nat
      /\ TypeOK /\ Collected
  BY ConfigAssumption, SplitCountBounds DEF AddScheduled, IInv, TypeOK
<1>2. /\ datagrams = 0 .. collected_datagrams - 1
      /\ SENDER_LIMIT <= collected_datagrams
      /\ collected_datagrams \in 0 .. SplitCount - 1
  BY <1>1 DEF IInv, Filled, TypeOK
<1>3. m.seq \in 0 .. SplitCount - 1 /\ m.seq <= collected_datagrams
  BY <1>1, <1>2 DEF IInv, Flow, Allowed, Datagram
<1>4. MESSAGE_LENGTH > 0
  BY <1>1, <1>3, SplitCountBounds
<1>5. /\ datagrams' = datagrams \cup {m.seq}
      /\ datagrams' \subseteq 0 .. SplitCount - 1
      /\ collected_datagrams' =
           IF m.seq \in datagrams THEN collected_datagrams ELSE collected_datagrams + 1
      /\ collected_datagrams' \in 0 .. SplitCount
      /\ collected_bytes' \in Nat
      /\ Collected'
  BY <1>1, <1>3, AddDatagramCollects
<1>6. datagrams' = 0 .. collected_datagrams' - 1 /\ SENDER_LIMIT <= collected_datagrams'
  BY <1>1, <1>2, <1>3, <1>5
<1>7. collected_bytes' = MESSAGE_LENGTH <=> collected_datagrams' = SplitCount
  <2>1. collected_datagrams' = SplitCount => SplitCount - 1 \in datagrams'
    BY <1>1, <1>3, <1>6
  <2>2. collected_bytes' = Bytes(collected_datagrams', SplitCount - 1 \in datagrams')
    BY <1>5 DEF Collected
  <2> QED
    BY <1>4, <1>5, <2>1, <2>2, BytesComplete
<1>8. CASE CheckScheduled(collected_bytes')
  <2>1. rPhase' = "collected" /\ net' = rest
    BY <1>8 DEF AddScheduled
  <2>2. Filled(rPhase', datagrams', collected_datagrams')
    BY <1>6, <1>7, <1>8, <2>1 DEF CheckScheduled, Filled
  <2>3. \A d \in net' : d \in Datagram /\ Allowed(d, collected_datagrams', rPhase')
    BY <1>1, <2>1, AddedAllowed DEF ReceiverPhase, Past
  <2> QED
    BY <1>1, <1>5, <2>1, <2>2, <2>3, ReceiverStep DEF ReceiverPhase, IInv, TypeOK
<1>9. CASE ~CheckScheduled(collected_bytes')
  <2>1. rPhase' = "scheduled" /\ net' = rest \cup {Grant(collected_datagrams')}
    BY <1>1, <1>9 DEF AddScheduled
  <2>2. collected_datagrams' < SplitCount
    BY <1>1, <1>5, <1>7, <1>9 DEF CheckScheduled
  <2>3. Filled(rPhase', datagrams', collected_datagrams')
    BY <1>6, <2>1, <2>2 DEF Filled
  <2>4. \A d \in rest : d \in Datagram /\ Allowed(d, collected_datagrams', rPhase')
    BY <1>1, <2>1, AddedAllowed DEF ReceiverPhase, Past
  <2>5. /\ Grant(collected_datagrams') \in Datagram
        /\ Allowed(Grant(collected_datagrams'), collected_datagrams', rPhase')
    BY <1>5, <2>1, <2>2 DEF Grant, Datagram, Allowed, Past, ReceiverPhase
  <2>6. \A d \in net' : d \in Datagram /\ Allowed(d, collected_datagrams', rPhase')
    BY <2>1, <2>4, <2>5
  <2> QED
    BY <1>1, <1>5, <2>1, <2>3, <2>6, ReceiverStep DEF ReceiverPhase, IInv, TypeOK
<1> QED
  BY <1>8, <1>9

\* A phase a receiver may step to without filling a slot.
Progress(p, q) ==
  /\ q \in ReceiverPhase \ {"panicked"}
  /\ p \in Past => q \in Past
  /\ p # "finished"

LEMMA PhaseStep ==
  /\ Progress("unscheduled", "unscheduled") /\ Progress("unscheduled", "exited")
  /\ Progress("scheduled", "scheduled") /\ Progress("scheduled", "exited")
  /\ Progress("waiting", "scheduled")
  /\ Progress("collected", "delivered") /\ Progress("delivered", "finished")
  /\ Progress("delivered", "aborted")
BY DEF Progress, Past, ReceiverPhase

\* A receiver step that fills no slot.
LEMMA IdleReceiverStep ==
  ASSUME SameConfig, IInv, UNCHANGED <<senderVars, slotVars>>,
         rResends' \in Nat,
         Progress(rPhase, rPhase'),
         Filled(rPhase', datagrams, collected_datagrams),
         \A d \in net' \ net :
           d \in Datagram /\ Allowed(d, collected_datagrams, rPhase')
  PROVE  IInv'
<1>0. /\ rPhase' \in ReceiverPhase \ {"panicked"}
      /\ rPhase \in Past => rPhase' \in Past
      /\ rPhase # "finished"
  BY DEF Progress
<1>1. /\ collected_datagrams' = collected_datagrams /\ collected_datagrams \in Nat
      /\ datagrams' = datagrams /\ datagrams \subseteq 0 .. SplitCount - 1
      /\ collected_bytes' = collected_bytes /\ collected_bytes \in Nat
  BY ExpectedIsSplit DEF slotVars, IInv, TypeOK
<1>2. ASSUME NEW d \in net
      PROVE  d \in Datagram /\ Allowed(d, collected_datagrams, rPhase')
  <2>1. d \in Datagram /\ Allowed(d, collected_datagrams, rPhase)
    BY DEF IInv, TypeOK, Flow
  <2> QED
    BY <1>0, <1>1, <2>1, AllowedLater
<1>3. \A d \in net' : d \in Datagram /\ Allowed(d, collected_datagrams', rPhase')
  BY <1>1, <1>2
<1>4. Collected'
  BY <1>1 DEF IInv, Collected
<1>5. Filled(rPhase', datagrams', collected_datagrams')
  BY <1>1
<1> QED
  BY <1>0, <1>1, <1>3, <1>4, <1>5, ReceiverStep

LEMMA ReceiverTimersKeep ==
  ASSUME SameConfig, IInv, ResendTimeout \/ GrantTimeout
  PROVE  IInv'
<1>1. /\ SplitCount \in Nat /\ SENDER_LIMIT = RECEIVER_LIMIT /\ SENDER_LIMIT \in Nat
      /\ collected_datagrams \in Nat /\ rResends \in Nat
      /\ Filled(rPhase, datagrams, collected_datagrams)
  BY ConfigAssumption, SplitCountBounds DEF SameConfig, IInv, TypeOK
<1>2. /\ rPhase \in {"unscheduled", "scheduled"}
      /\ UNCHANGED <<senderVars, slotVars>>
  BY DEF ResendTimeout, GrantTimeout
<1>3. CASE rPhase' = "exited" /\ UNCHANGED <<rResends, net>>
  <2>1. net' \ net = {}
    BY <1>3
  <2>2. Filled(rPhase', datagrams, collected_datagrams)
    BY <1>3 DEF Filled
  <2> QED
    BY <1>1, <1>2, <1>3, <2>1, <2>2, PhaseStep, IdleReceiverStep
<1>4. CASE /\ rPhase = "unscheduled" /\ UNCHANGED rPhase /\ rResends' = rResends + 1
           /\ net' = net \cup {Resend(i) : i \in MissingUnscheduled}
  <2>1. ASSUME NEW d \in net' \ net
        PROVE  d \in Datagram /\ Allowed(d, collected_datagrams, rPhase')
    <3>1. PICK i \in MissingUnscheduled : d = Resend(i)
      BY <1>4
    <3>2. i \in 0 .. SENDER_LIMIT - 1 /\ i \in 0 .. SplitCount - 1
      BY <1>1, ExpectedIsSplit DEF MissingUnscheduled
    <3> QED
      BY <1>1, <3>1, <3>2 DEF Resend, Datagram, Allowed
  <2> QED
    BY <1>1, <1>2, <1>4, <2>1, PhaseStep, IdleReceiverStep
<1>5. CASE /\ rPhase = "scheduled" /\ UNCHANGED rPhase /\ rResends' = rResends + 1
           /\ net' = net \cup {Grant(collected_datagrams)}
  <2>1. /\ Grant(collected_datagrams) \in Datagram
        /\ Allowed(Grant(collected_datagrams), collected_datagrams, rPhase')
    BY <1>1, <1>5 DEF Filled, Grant, Datagram, Allowed, Past, ReceiverPhase
  <2>2. net' \ net \subseteq {Grant(collected_datagrams)}
    BY <1>5
  <2> QED
    BY <1>1, <1>2, <1>5, <2>1, <2>2, PhaseStep, IdleReceiverStep
<1> QED
  BY <1>3, <1>4, <1>5 DEF ResendTimeout, GrantTimeout

LEMMA ActivateKeeps ==
  ASSUME SameConfig, IInv, Activate
  PROVE  IInv'
<1>1. /\ rPhase = "waiting" /\ rPhase' = "scheduled" /\ rResends' = 0
      /\ net' \ net \subseteq {Grant(collected_datagrams)}
      /\ UNCHANGED <<senderVars, slotVars>>
      /\ SplitCount \in Nat /\ collected_datagrams \in Nat
      /\ Filled(rPhase, datagrams, collected_datagrams)
  BY SplitCountBounds DEF Activate, IInv, TypeOK
<1>2. /\ Grant(collected_datagrams) \in Datagram
      /\ Allowed(Grant(collected_datagrams), collected_datagrams, rPhase')
  BY <1>1 DEF Filled, Grant, Datagram, Allowed, Past, ReceiverPhase
<1>3. Filled(rPhase', datagrams, collected_datagrams)
  BY <1>1 DEF Filled
<1> QED
  BY <1>1, <1>2, <1>3, PhaseStep, IdleReceiverStep

LEMMA CompletionKeeps ==
  ASSUME SameConfig, IInv, Complete \/ FinalGrant \/ AbortReceiver
  PROVE  IInv'
<1>1. /\ SplitCount \in Nat /\ rResends \in Nat
      /\ Filled(rPhase, datagrams, collected_datagrams)
      /\ UNCHANGED <<senderVars, slotVars>> /\ rResends' = rResends
  BY SplitCountBounds DEF IInv, TypeOK, Complete, FinalGrant, AbortReceiver
<1>2. CASE Complete
  <2>1. /\ rPhase = "collected" /\ net' \ net = {}
        /\ datagrams = 0 .. SplitCount - 1
    BY <1>1, <1>2 DEF Complete, Filled
  <2>2. rPhase' = "delivered"
    BY <1>2, <2>1, ExpectedIsSplit DEF Complete
  <2>3. Filled(rPhase', datagrams, collected_datagrams)
    BY <1>1, <2>1, <2>2 DEF Filled
  <2> QED
    BY <1>1, <2>1, <2>2, <2>3, PhaseStep, IdleReceiverStep
<1>3. CASE FinalGrant
  <2>1. /\ rPhase = "delivered" /\ rPhase' = "finished"
        /\ net' \ net \subseteq {Grant(SplitCount)}
        /\ collected_datagrams = SplitCount
    BY <1>1, <1>3, ExpectedIsSplit DEF FinalGrant, Filled
  <2>2. /\ Grant(SplitCount) \in Datagram
        /\ Allowed(Grant(SplitCount), collected_datagrams, rPhase')
    BY <1>1, <2>1 DEF Grant, Datagram, Allowed, Past, ReceiverPhase
  <2>3. Filled(rPhase', datagrams, collected_datagrams)
    BY <1>1, <2>1 DEF Filled
  <2> QED
    BY <1>1, <2>1, <2>2, <2>3, PhaseStep, IdleReceiverStep
<1>4. CASE AbortReceiver
  <2>1. /\ rPhase = "delivered" /\ rPhase' = "aborted" /\ net' \ net = {}
    BY <1>4 DEF AbortReceiver
  <2>2. Filled(rPhase', datagrams, collected_datagrams)
    BY <1>1, <2>1 DEF Filled
  <2> QED
    BY <1>1, <2>1, <2>2, PhaseStep, IdleReceiverStep
<1> QED
  BY <1>2, <1>3, <1>4

LEMMA NextIInv ==
  ASSUME SameConfig, IInv, [Next]_vars
  PROVE  IInv'
<1>1. CASE Proceed
  BY <1>1, SenderTimersKeep, ActivateKeeps, CompletionKeeps DEF Proceed
<1>2. CASE Timeout
  BY <1>2, SenderTimersKeep, ReceiverTimersKeep DEF Timeout
<1>3. ASSUME NEW m \in net, NEW rest \in Rest(m), Receive(m, rest)
      PROVE  IInv'
  <2>1. CASE FirstReply(m, rest)
    BY <2>1, HandleReplyKeeps DEF FirstReply
  <2>2. CASE NextReply(m, rest)
    BY <2>2, HandleReplyKeeps DEF NextReply
  <2> QED
    BY <1>3, <2>1, <2>2, CreateReceiverKeeps, AddUnscheduledKeeps, AddScheduledKeeps
       DEF Receive
<1>4. ASSUME NEW m \in net, Lose(m)
      PROVE  IInv'
  <2>1. /\ UNCHANGED <<rPhase, rResends, slotVars>> /\ UNCHANGED senderVars
        /\ net' \subseteq net
    BY <1>4 DEF Lose
  <2>2. TransmittedMeansDelivered'
    BY <2>1 DEF IInv, TransmittedMeansDelivered, senderVars
  <2> QED
    BY <2>1, <2>2, SenderStep DEF IInv, TypeOK, Flow, senderVars
<1>5. CASE UNCHANGED vars
  BY <1>5 DEF vars, IInv, TypeOK, Collected, Flow, Filled, NoPanic, TransmittedMeansDelivered
<1> QED
  BY <1>1, <1>2, <1>3, <1>4, <1>5 DEF Next

-----------------------------------------------------------------------------
(* Theorems *)

\* The invariant holds of every behaviour.
THEOREM Invariance ==
  ASSUME SameConfig
  PROVE  Spec => []IInv
<1>1. Init => IInv
  BY InitIInv
<1>2. IInv /\ [Next]_vars => IInv'
  BY NextIInv
<1> QED
  BY <1>1, <1>2, PTL DEF Spec

\* Every variable stays in its type: no slot index past the vector, no retry
\* counter past its limit.
THEOREM TypeCorrect ==
  ASSUME SameConfig
  PROVE  Spec => []TypeOK
<1>1. IInv => TypeOK
  BY DEF IInv
<1> QED
  BY <1>1, Invariance, PTL

\* While the scheduled part is received the filled slots are a prefix, so the
\* grant of index collected_datagrams asks for the first missing datagram.
THEOREM ScheduledPrefix ==
  ASSUME SameConfig
  PROVE  Spec => []NoHole
<1>1. IInv => NoHole
  BY DEF IInv, Filled, NoHole
<1> QED
  BY <1>1, Invariance, PTL

\* No scheduled datagram is in flight before a grant could have asked for it.
THEOREM WindowRespected ==
  ASSUME SameConfig
  PROVE  Spec => []GrantWindow
<1>1. IInv => GrantWindow
  BY ConfigAssumption DEF IInv, TypeOK, Datagram, Flow, Allowed, GrantWindow
<1> QED
  BY <1>1, Invariance, PTL

\* The unwraps of new and build_message never fail.
THEOREM NeverPanics ==
  ASSUME SameConfig
  PROVE  Spec => []NoPanic
<1>1. IInv => NoPanic
  BY DEF IInv
<1> QED
  BY <1>1, Invariance, PTL

\* A sender that ends a transfer as transmitted is right.
THEOREM TransmittedIsDelivered ==
  ASSUME SameConfig
  PROVE  Spec => []TransmittedMeansDelivered
<1>1. IInv => TransmittedMeansDelivered
  BY DEF IInv
<1> QED
  BY <1>1, Invariance, PTL

LEMMA BytesOfCollected ==
  ASSUME SameConfig, IInv, MESSAGE_LENGTH > 0
  PROVE  /\ collected_bytes = MESSAGE_LENGTH <=> collected_datagrams = SplitCount
         /\ collected_bytes <= MESSAGE_LENGTH
<1>1. SplitCount \in Nat /\ datagrams \in SUBSET (0 .. SplitCount - 1)
  BY SplitCountBounds, ExpectedIsSplit DEF IInv, TypeOK
<1>2. /\ collected_datagrams \in 0 .. SplitCount
      /\ collected_datagrams = SplitCount <=> datagrams = 0 .. SplitCount - 1
  BY <1>1, SlotCount DEF IInv, Collected
<1>3. SplitCount # 0
  <2>1. 0 * SENDER_PAYLOAD_LENGTH = 0
    BY ConfigAssumption, SMT
  <2> QED
    BY <2>1, SplitCountBounds, ConfigAssumption
<1>4. collected_datagrams = SplitCount => SplitCount - 1 \in datagrams
  BY <1>1, <1>2, <1>3
<1> QED
  BY <1>2, <1>4, BytesComplete DEF IInv, Collected

\* The remaining length given to the PriorityManager is positive.
THEOREM RemainingIsPositive ==
  ASSUME SameConfig
  PROVE  Spec => []RemainingPositive
<1>1. IInv => RemainingPositive
  <2> SUFFICES ASSUME IInv, rPhase \in {"waiting", "scheduled"}
               PROVE  collected_bytes < MESSAGE_LENGTH
    BY DEF RemainingPositive
  <2>1. collected_datagrams \in Nat /\ collected_datagrams < SplitCount
    BY DEF IInv, TypeOK, Filled
  <2>2. MESSAGE_LENGTH > 0
    BY <2>1, SplitCountBounds, ConfigAssumption
  <2> QED
    BY <2>1, <2>2, BytesOfCollected, SplitCountBounds, ConfigAssumption DEF IInv, TypeOK
<1> QED
  BY <1>1, Invariance, PTL

\* The message handed to the application has all its bytes.
THEOREM DeliveredWhole ==
  ASSUME SameConfig, MESSAGE_LENGTH > 0
  PROVE  Spec => []DeliveredIntact
<1>1. IInv => DeliveredIntact
  BY BytesOfCollected DEF IInv, Filled, Delivered, DeliveredIntact
<1> QED
  BY <1>1, Invariance, PTL

-----------------------------------------------------------------------------
(* The transfer implements MessageDelivery *)

LEMMA DeliveryInit ==
  ASSUME Init
  PROVE  Delivery!Init
BY DEF Init, Delivery!Init, SenderOutcome, ReceiverOutcome, Delivered, Failed

\* A step of one end that the other does not see, by what it does to the outcome.
LEMMA SenderOutcomeStep ==
  ASSUME UNCHANGED rPhase,
         \/ UNCHANGED sPhase
         \/ sPhase \in {"init", "unscheduled", "requested"} /\ sPhase' # "transmitted"
         \/ /\ sPhase \in {"unscheduled", "requested"}
            /\ sPhase' = "transmitted"
            /\ rPhase = "finished"
  PROVE  [Delivery!Next]_(Delivery!vars)
<1>1. UNCHANGED ReceiverOutcome
  BY DEF ReceiverOutcome, Delivered, Failed
<1>2. CASE UNCHANGED sPhase
  BY <1>1, <1>2 DEF Delivery!vars, SenderOutcome
<1>3. CASE sPhase \in {"init", "unscheduled", "requested"} /\ sPhase' # "transmitted"
  <2>1. SenderOutcome = "pending" /\ SenderOutcome' \in {"pending", "gaveUp"}
    BY <1>3 DEF SenderOutcome
  <2> QED
    BY <1>1, <2>1 DEF Delivery!Next, Delivery!GiveUp, Delivery!vars
<1>4. CASE /\ sPhase \in {"unscheduled", "requested"}
           /\ sPhase' = "transmitted"
           /\ rPhase = "finished"
  <2>1. /\ SenderOutcome = "pending" /\ SenderOutcome' = "confirmed"
        /\ ReceiverOutcome = "delivered"
    BY <1>4 DEF SenderOutcome, ReceiverOutcome, Delivered, Failed
  <2> QED
    BY <1>1, <2>1 DEF Delivery!Next, Delivery!Confirm
<1> QED
  BY <1>2, <1>3, <1>4

LEMMA ReceiverOutcomeStep ==
  ASSUME UNCHANGED sPhase,
         \/ rPhase \in {"absent", "unscheduled", "waiting", "scheduled", "collected"}
         \/ rPhase = "delivered" /\ rPhase' \in {"finished", "aborted"}
  PROVE  [Delivery!Next]_(Delivery!vars)
<1>1. UNCHANGED SenderOutcome
  BY DEF SenderOutcome
<1>2. CASE rPhase \in {"absent", "unscheduled", "waiting", "scheduled", "collected"}
  <2>1. /\ ReceiverOutcome = "pending"
        /\ ReceiverOutcome' \in {"pending", "delivered", "failed"}
    BY <1>2 DEF ReceiverOutcome, Delivered, Failed
  <2> QED
    BY <1>1, <2>1 DEF Delivery!Next, Delivery!Deliver, Delivery!Fail, Delivery!vars
<1>3. CASE rPhase = "delivered" /\ rPhase' \in {"finished", "aborted"}
  BY <1>1, <1>3 DEF Delivery!vars, ReceiverOutcome, Delivered, Failed
<1> QED
  BY <1>2, <1>3

LEMMA HandleReplyOutcome ==
  ASSUME IInv', NEW m \in net, NEW rest \in Rest(m),
         FirstReply(m, rest) \/ NextReply(m, rest)
  PROVE  [Delivery!Next]_(Delivery!vars)
<1>1. /\ sPhase \in {"unscheduled", "requested"}
      /\ sPhase' \in {"transmitted", "requested"}
      /\ UNCHANGED rPhase
  BY DEF FirstReply, NextReply, HandleReply
<1>2. sPhase' = "transmitted" => rPhase = "finished"
  BY <1>1 DEF IInv, TransmittedMeansDelivered
<1> QED
  BY <1>1, <1>2, SenderOutcomeStep

LEMMA DeliveryNext ==
  ASSUME IInv, IInv', [Next]_vars
  PROVE  [Delivery!Next]_(Delivery!vars)
<1>1. CASE SendUnscheduled \/ UnscheduledTimeout \/ LargeTimeout
  <2>1. /\ UNCHANGED rPhase
        /\ sPhase \in {"init", "unscheduled", "requested"}
        /\ sPhase' # "transmitted"
    BY <1>1 DEF SendUnscheduled, UnscheduledTimeout, LargeTimeout
  <2> QED
    BY <2>1, SenderOutcomeStep
<1>2. CASE ResendTimeout \/ GrantTimeout \/ Activate \/ Complete
  <2>1. /\ UNCHANGED sPhase
        /\ rPhase \in {"absent", "unscheduled", "waiting", "scheduled", "collected"}
    BY <1>2 DEF ResendTimeout, GrantTimeout, Activate, Complete, senderVars
  <2> QED
    BY <2>1, ReceiverOutcomeStep
<1>3. CASE FinalGrant \/ AbortReceiver
  <2>1. UNCHANGED sPhase /\ rPhase = "delivered" /\ rPhase' \in {"finished", "aborted"}
    BY <1>3 DEF FinalGrant, AbortReceiver, senderVars
  <2> QED
    BY <2>1, ReceiverOutcomeStep
<1>4. ASSUME NEW m \in net, NEW rest \in Rest(m), Receive(m, rest)
      PROVE  [Delivery!Next]_(Delivery!vars)
  <2>1. CASE FirstReply(m, rest) \/ NextReply(m, rest)
    BY <2>1, HandleReplyOutcome
  <2>2. CASE CreateReceiver(m, rest) \/ AddUnscheduled(m, rest) \/ AddScheduled(m, rest)
    <3>1. /\ UNCHANGED sPhase
          /\ rPhase \in {"absent", "unscheduled", "waiting", "scheduled", "collected"}
      BY <2>2 DEF CreateReceiver, AddUnscheduled, AddScheduled, senderVars
    <3> QED
      BY <3>1, ReceiverOutcomeStep
  <2> QED
    BY <1>4, <2>1, <2>2 DEF Receive
<1>5. ASSUME NEW m \in net, Lose(m)
      PROVE  [Delivery!Next]_(Delivery!vars)
  BY <1>5, SenderOutcomeStep DEF Lose, senderVars
<1>6. CASE UNCHANGED vars
  BY <1>6, SenderOutcomeStep DEF vars
<1> QED
  BY <1>1, <1>2, <1>3, <1>4, <1>5, <1>6 DEF Next, Proceed, Timeout

\* Every behaviour of the transfer is one of MessageDelivery: each end settles
\* once, and the sender learns of a delivery only after it.
THEOREM ImplementsMessageDelivery ==
  ASSUME SameConfig
  PROVE  Spec => ImplementsDelivery
<1>1. Init => Delivery!Init
  BY DeliveryInit
<1>2. IInv /\ IInv' /\ [Next]_vars => [Delivery!Next]_(Delivery!vars)
  BY DeliveryNext
<1>3. Spec => []IInv
  BY Invariance
<1> QED
  BY <1>1, <1>2, <1>3, PTL DEF Spec, ImplementsDelivery, Delivery!Spec

=============================================================================
