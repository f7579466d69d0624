------------------------- MODULE PriorityManagerProofs -------------------------
(***************************************************************************)
(* Theorems about PriorityManager for any set of receivers and any number   *)
(* of levels: first whatever ids they register under, then as long as each  *)
(* registers under an id of its own.                                        *)
(***************************************************************************)
EXTENDS PriorityManager, FunctionTheorems, FiniteSetTheorems, SequenceTheorems, TLAPS

Started(r) == pc[r] # "idle"

\* No two receivers have registered under one id.  The run daemon_shared_id shows
\* what happens otherwise.
OwnIds ==
  \A r, q \in Receivers :
    Started(r) /\ Started(q) /\ MessageId[r] = MessageId[q] => r = q

-----------------------------------------------------------------------------
(* The inductive invariant *)

\* The actor has a request of receiver r to handle.
AskedIn(requests, r) == \E k \in 1 .. Len(requests) : requests[k].receiver = r

Asked(r) == AskedIn(mailbox, r)

HasLevel(lev, id) == \E i \in Level : lev[i] # Empty /\ lev[i][1] = id

\* A receiver waits for the answer to one request before it sends another, and
\* the request says where it stands.
RequestsTrue ==
  /\ \A j, k \in 1 .. Len(mailbox) : mailbox[j].receiver = mailbox[k].receiver => j = k
  /\ \A k \in 1 .. Len(mailbox) :
       LET m == mailbox[k] IN
       /\ m.kind = "Register" =>
            pc[m.receiver] = "registering" /\ m.remaining = remaining[m.receiver]
       /\ m.kind = "Get" =>
            pc[m.receiver] = "asking" /\ m.remaining = remaining[m.receiver]
       /\ m.kind = "Unregister" => pc[m.receiver] = "finished"
  /\ \A r \in Receivers : pc[r] = "asking" => Asked(r)

\* Receiver r sleeps, and its registration has been handled.
Sleeps(r) == pc[r] = "registering" /\ ~Asked(r)

\* An oneshot sender wakes a receiver that sleeps, and is found by its id.
SendersTrue ==
  \A id \in Ids : senders[id] # None => Sleeps(senders[id]) /\ MessageId[senders[id]] = id

\* The receivers that have been given a level, until the actor has handled their
\* unregistration.
Holding ==
  {r \in Receivers : \/ pc[r] \in {"activated", "asking", "granted"}
                     \/ pc[r] = "finished" /\ Asked(r)}

\* Each level has a holder of its own among the receivers rs.
Holds(lev, rs, holder) ==
  /\ \A i \in Level : lev[i] # Empty =>
       holder[i] \in rs /\ MessageId[holder[i]] = lev[i][1]
  /\ \A i, j \in Level : lev[i] # Empty /\ lev[j] # Empty /\ holder[i] = holder[j] => i = j

HeldBy(lev, rs) == \E holder \in [Level -> Receivers \cup {None}] : Holds(lev, rs, holder)

\* What holds whatever the ids.
SharedInv ==
  /\ TypeOK
  /\ RequestsTrue
  /\ SendersTrue
  /\ HeldBy(levels, Holding)

\* Who holds a level: from the moment it is woken until its unregistration has
\* been handled.
Holders ==
  \A r \in Receivers : Started(r) =>
    (HasLevel(levels, MessageId[r]) <=>
       \/ pc[r] \in {"activated", "asking", "granted"}
       \/ pc[r] = "finished" /\ Asked(r))

OneEach(lev) ==
  \A i, j \in Level : lev[i] # Empty /\ lev[j] # Empty /\ lev[i][1] = lev[j][1] => i = j

Sorted(lev) == \A i, j \in Level : i < j => ~Before(lev[j], lev[i])

\* Each entry belongs to a receiver, and is up to date unless the receiver has just
\* asked again.
LevelsTrue ==
  /\ OneEach(levels)
  /\ Sorted(levels)
  /\ \A i \in Level : levels[i] # Empty =>
       \E r \in Receivers : Started(r) /\ levels[i][1] = MessageId[r]
  /\ \A i \in Level : levels[i] # Empty =>
       \A r \in Receivers : Started(r) /\ levels[i][1] = MessageId[r] /\ pc[r] # "asking" =>
         levels[i][2] = remaining[r]

\* What waits for a level is registered by a receiver that sleeps, and whose sender
\* is there to wake it.
QueueTrue ==
  /\ IsFiniteSet(queue)
  /\ \A e \in queue : \E r \in Receivers :
       /\ e = <<MessageId[r], remaining[r]>>
       /\ Sleeps(r)
       /\ senders[MessageId[r]] = r

\* What holds when each receiver registers under an id of its own.
IInv ==
  /\ SharedInv
  /\ Holders
  /\ LevelsTrue
  /\ QueueTrue
  /\ NoLostWakeup
  /\ AlwaysAnswered
  /\ WorkConserving

-----------------------------------------------------------------------------
(* Levels *)

LEMMA OccupiedNotEmpty ==
  /\ \A e \in Occupied : e # Empty
  /\ \A e \in Ids \X (1 .. MAX_REMAINING) : e \in Occupied
<1>1. \A a, b : <<a, b>> # Empty
  <2>1. \A a, b : Len(<<a, b>>) = 2
    OBVIOUS
  <2>2. Len(Empty) = 0
    BY DEF Empty
  <2> QED
    BY <2>1, <2>2
<1>2. \A e \in Occupied : \E a, b : e = <<a, b>>
  BY DEF Occupied
<1>3. 1 .. MAX_REMAINING \subseteq 0 .. MAX_REMAINING
  BY PriorityAssumption
<1> QED
  BY <1>1, <1>2, <1>3 DEF Occupied

\* sort_priority_levels rearranges the levels and puts them in order.
LEMMA SortKeeps ==
  ASSUME NEW s \in [Level -> Occupied \cup {Empty}], NEW t \in SortPriorityLevels(s)
  PROVE  /\ t \in [Level -> Occupied \cup {Empty}]
         /\ Sorted(t)
         /\ OneEach(s) => OneEach(t)
         /\ \A i \in Level : \E j \in Level : t[i] = s[j]
         /\ \A j \in Level : \E i \in Level : t[i] = s[j]
<1>1. PICK p \in Bijection(Level, Level) :
        /\ t = [i \in Level |-> s[p[i]]]
        /\ \A i, j \in Level : i < j => ~Before(s[p[j]], s[p[i]])
  BY DEF SortPriorityLevels
<1>2. /\ p \in [Level -> Level]
      /\ \A i, j \in Level : p[i] = p[j] => i = j
      /\ \A j \in Level : \E i \in Level : p[i] = j
  BY Fun_BijectionProperties, Fun_InjectionProperties, Fun_SurjectionProperties
<1>3. t \in [Level -> Occupied \cup {Empty}] /\ \A i \in Level : t[i] = s[p[i]]
  BY <1>1, <1>2
<1>4. Sorted(t)
  BY <1>1, <1>3 DEF Sorted
<1>5. OneEach(s) => OneEach(t)
  BY <1>2, <1>3 DEF OneEach
<1> QED
  BY <1>2, <1>3, <1>4, <1>5

\* The empty levels are numbered from 1, without gaps.
LEMMA TurnsCount ==
  ASSUME NEW free \in SUBSET Level
  PROVE  /\ IsFiniteSet(free)
         /\ Cardinality(free) \in Nat
         /\ \A p \in free : Cardinality({f \in free : f <= p}) \in 1 .. Cardinality(free)
         /\ \A p, q \in free :
              Cardinality({f \in free : f <= p}) = Cardinality({f \in free : f <= q}) => p = q
         /\ \A k \in 1 .. Cardinality(free) :
              \E p \in free : Cardinality({f \in free : f <= p}) = k
<1> DEFINE upTo(p) == {f \in free : f <= p}
           turn == [p \in free |-> Cardinality(upTo(p))]
<1>1. LEVELS \in Nat /\ free \subseteq Int
  BY PriorityAssumption DEF Level
<1>2. IsFiniteSet(free) /\ Cardinality(free) \in Nat
  <2>1. IsFiniteSet(Level)
    BY <1>1, FS_Interval DEF Level
  <2> QED
    BY <2>1, FS_Subset, FS_CardinalityType
<1>3. \A p \in free : IsFiniteSet(upTo(p)) /\ Cardinality(upTo(p)) \in 1 .. Cardinality(free)
  <2> SUFFICES ASSUME NEW p \in free
               PROVE  IsFiniteSet(upTo(p)) /\ Cardinality(upTo(p)) \in 1 .. Cardinality(free)
    OBVIOUS
  <2>1. upTo(p) \in SUBSET free
    OBVIOUS
  <2>2. IsFiniteSet(upTo(p)) /\ Cardinality(upTo(p)) <= Cardinality(free)
    BY <1>2, <2>1, FS_Subset
  <2>3. upTo(p) # {} /\ Cardinality(upTo(p)) \in Nat
    BY <1>1, <2>2, FS_CardinalityType
  <2>4. Cardinality(upTo(p)) # 0
    BY <2>2, <2>3, FS_EmptySet
  <2> QED
    BY <1>2, <2>2, <2>3, <2>4
<1>4. \A p, q \in free : Cardinality(upTo(p)) = Cardinality(upTo(q)) => p = q
  <2>1. ASSUME NEW p \in free, NEW q \in free, p < q,
               Cardinality(upTo(p)) = Cardinality(upTo(q))
        PROVE  FALSE
    <3>1. upTo(p) \subseteq upTo(q)
      <4>1. \A f \in free : f <= p => f <= q
        BY <1>1, <2>1
      <4> QED
        BY <4>1
    <3>2. q \in upTo(q) /\ q \notin upTo(p)
      BY <1>1, <2>1
    <3>3. upTo(q) = upTo(p)
      BY <1>3, <2>1, <3>1, FS_Subset, Zenon
    <3> QED
      BY <3>2, <3>3
  <2> QED
    BY <1>1, <2>1
<1>5. turn \in [free -> 1 .. Cardinality(free)] /\ \A p \in free : turn[p] = Cardinality(upTo(p))
  BY <1>3
<1> HIDE DEF turn
<1>6. turn \in Injection(free, 1 .. Cardinality(free))
  <2>1. \A p, q \in free : turn[p] = turn[q] => p = q
    BY <1>4, <1>5
  <2> QED
    BY <1>5, <2>1, Fun_IsInj, Zenon
<1>7. turn \in Surjection(free, 1 .. Cardinality(free))
  <2>1. IsFiniteSet(1 .. Cardinality(free)) /\ Cardinality(1 .. Cardinality(free)) = Cardinality(free)
    BY <1>2, FS_Interval
  <2> QED
    BY <1>2, <1>6, <2>1, FS_Injection, Zenon
<1>8. \A k \in 1 .. Cardinality(free) : \E p \in free : turn[p] = k
  BY <1>7, Fun_SurjectionProperties, Zenon
<1> QED
  BY <1>2, <1>3, <1>4, <1>5, <1>8

\* What try_activate_messages does when it moves the entries act out of the queue:
\* their receivers are woken, they have a level each, no level changes hands, the
\* rest of the queue is no shorter, and it is empty if a level still is.
Activates(act, q, snd, lev) ==
  /\ queue' = q \ act
  /\ senders' = [id \in Ids |-> IF \E e \in act : e[1] = id THEN None ELSE snd[id]]
  /\ pc' = [r \in Receivers |->
              IF \E e \in act : snd[e[1]] = r THEN "activated" ELSE pc[r]]
  /\ levels' \in [Level -> Occupied \cup {Empty}]
  /\ OneEach(levels')
  /\ Sorted(levels')
  /\ \A i \in Level : levels'[i] # Empty =>
       levels'[i] \in act \/ \E j \in Level : levels'[i] = lev[j]
  /\ \A e \in act : \E i \in Level : levels'[i] = e
  /\ \A j \in Level : lev[j] # Empty => \E i \in Level : levels'[i] = lev[j]
  /\ \A e \in act, f \in q \ act : e[2] <= f[2]
  /\ EmptyPositions(levels') # {} => q \ act = {}

\* try_activate_messages, when every waiting message can be woken and has no level,
\* activates some of them.
LEMMA Activation ==
  ASSUME NEW q \in SUBSET (Ids \X (1 .. MAX_REMAINING)), IsFiniteSet(q),
         NEW snd \in [Ids -> Receivers \cup {None}],
         NEW lev \in [Level -> Occupied \cup {Empty}],
         \A e \in q : snd[e[1]] # None,
         \A e, f \in q : e[1] = f[1] => e = f,
         \A e \in q : ~HasLevel(lev, e[1]),
         OneEach(lev),
         TryActivate(q, snd, lev, pc)
  PROVE  \E act \in SUBSET q : Activates(act, q, snd, lev)
<1> DEFINE free == EmptyPositions(lev)
           n == IF Cardinality(q) < Cardinality(free) THEN Cardinality(q) ELSE Cardinality(free)
           turn(p) == Cardinality({f \in free : f <= p})
<1>1. PICK s \in Pops(q, n) :
        LET taken == {i \in 1 .. n : HasSender(s, i, snd)}
            ids   == {s[i][1] : i \in taken}
        IN  /\ queue' = q \ Range(s)
            /\ senders' = [id \in Ids |-> IF id \in ids THEN None ELSE snd[id]]
            /\ pc' = [r \in Receivers |->
                        IF \E id \in ids : snd[id] = r THEN "activated" ELSE pc[r]]
            /\ levels' \in SortPriorityLevels(
                 [p \in Level |->
                    IF p \in free /\ turn(p) \in taken THEN s[turn(p)] ELSE lev[p]])
  BY DEF TryActivate
<1> DEFINE act == {s[i] : i \in 1 .. n}
           filled == [p \in Level |-> IF p \in free /\ turn(p) \in 1 .. n
                                      THEN s[turn(p)] ELSE lev[p]]
<1>2. free \in SUBSET Level /\ \A p \in Level : p \in free <=> lev[p] = Empty
  BY DEF EmptyPositions
<1>3. /\ Cardinality(free) \in Nat
      /\ \A p \in free : turn(p) \in 1 .. Cardinality(free)
      /\ \A p, p2 \in free : turn(p) = turn(p2) => p = p2
      /\ \A k \in 1 .. Cardinality(free) : \E p \in free : turn(p) = k
  BY <1>2, TurnsCount
<1>4. Cardinality(q) \in Nat
  BY FS_CardinalityType
<1>5. n \in Nat /\ n <= Cardinality(free) /\ (n = Cardinality(free) \/ n = Cardinality(q))
  BY <1>3, <1>4
<1> HIDE DEF free, n, turn
<1>6. /\ s \in [1 .. n -> q]
      /\ \A i, j \in 1 .. n : s[i] = s[j] => i = j
      /\ \A i \in 1 .. n : \A e \in q \ Range(s) : s[i][2] <= e[2]
  BY DEF Pops, IsInjective
<1>7. Range(s) = act /\ act \in SUBSET q
  BY <1>6 DEF Range
<1>8. \A i \in 1 .. n : HasSender(s, i, snd)
  <2> SUFFICES ASSUME NEW i \in 1 .. n
               PROVE  snd[s[i][1]] # None /\ \A j \in 1 .. i - 1 : s[j][1] # s[i][1]
    BY DEF HasSender
  <2>1. ASSUME NEW j \in 1 .. i - 1 PROVE s[j][1] # s[i][1]
    <3>1. j \in 1 .. n /\ j # i
      BY <1>5
    <3>2. s[j] \in q /\ s[i] \in q /\ s[j] # s[i]
      BY <1>6, <3>1
    <3> QED
      BY <3>2
  <2> QED
    BY <1>6, <2>1
<1>9. {i \in 1 .. n : HasSender(s, i, snd)} = 1 .. n
  BY <1>8
<1>10. /\ queue' = q \ act
       /\ senders' = [id \in Ids |-> IF id \in {s[i][1] : i \in 1 .. n} THEN None ELSE snd[id]]
       /\ pc' = [r \in Receivers |-> IF \E id \in {s[i][1] : i \in 1 .. n} : snd[id] = r
                                     THEN "activated" ELSE pc[r]]
       /\ levels' \in SortPriorityLevels(filled)
  BY <1>1, <1>7, <1>9
<1>11. senders' = [id \in Ids |-> IF \E e \in act : e[1] = id THEN None ELSE snd[id]]
  BY <1>10
<1>12. pc' = [r \in Receivers |-> IF \E e \in act : snd[e[1]] = r THEN "activated" ELSE pc[r]]
  BY <1>10
<1>13. /\ filled \in [Level -> Occupied \cup {Empty}]
       /\ \A p \in Level : filled[p] = IF p \in free /\ turn(p) \in 1 .. n
                                       THEN s[turn(p)] ELSE lev[p]
       /\ \A e \in act : e # Empty
  BY <1>6, <1>7, OccupiedNotEmpty
<1>14. \A p \in Level : filled[p] # Empty =>
         \/ p \notin free /\ filled[p] = lev[p]
         \/ p \in free /\ turn(p) \in 1 .. n /\ filled[p] = s[turn(p)] /\ filled[p] \in act
  BY <1>2, <1>13
<1> HIDE DEF filled, act
<1>15. OneEach(filled)
  <2> SUFFICES ASSUME NEW i \in Level, NEW j \in Level,
                      filled[i] # Empty, filled[j] # Empty, filled[i][1] = filled[j][1]
               PROVE  i = j
    BY DEF OneEach
  <2>1. CASE i \notin free /\ j \notin free
    BY <1>14, <2>1 DEF OneEach
  <2>2. CASE i \in free /\ j \in free
    <3>1. s[turn(i)] \in q /\ s[turn(j)] \in q /\ s[turn(i)][1] = s[turn(j)][1]
      BY <1>6, <1>14, <2>2
    <3>2. s[turn(i)] = s[turn(j)]
      BY <3>1
    <3>3. turn(i) = turn(j)
      BY <1>6, <1>14, <2>2, <3>2
    <3> QED
      BY <1>3, <2>2, <3>3
  <2>3. ASSUME NEW a \in Level, NEW b \in Level, a \notin free, b \in free,
               filled[a] # Empty, filled[b] # Empty
        PROVE  filled[a][1] # filled[b][1]
    <3>1. filled[b] \in q /\ filled[a] = lev[a]
      BY <1>7, <1>14, <2>3
    <3> QED
      BY <1>2, <2>3, <3>1 DEF HasLevel
  <2> QED
    BY <2>1, <2>2, <2>3
<1>16. /\ levels' \in [Level -> Occupied \cup {Empty}]
       /\ Sorted(levels')
       /\ OneEach(levels')
       /\ \A i \in Level : \E j \in Level : levels'[i] = filled[j]
       /\ \A j \in Level : \E i \in Level : levels'[i] = filled[j]
  BY <1>10, <1>13, <1>15, SortKeeps
<1>17. \A i \in Level : levels'[i] # Empty =>
         levels'[i] \in act \/ \E j \in Level : levels'[i] = lev[j]
  BY <1>14, <1>16
<1>18. \A e \in act : \E i \in Level : levels'[i] = e
  <2> SUFFICES ASSUME NEW e \in act
               PROVE  \E j \in Level : filled[j] = e
    BY <1>16
  <2>1. PICK i \in 1 .. n : s[i] = e
    BY DEF act
  <2>2. PICK p \in free : turn(p) = i
    BY <1>3, <1>5
  <2> QED
    BY <1>2, <1>13, <2>1, <2>2
<1>19. \A j \in Level : lev[j] # Empty => \E i \in Level : levels'[i] = lev[j]
  BY <1>2, <1>13, <1>16
<1>20. \A e \in act, f \in q \ act : e[2] <= f[2]
  BY <1>6, <1>7 DEF act
<1>21. ASSUME EmptyPositions(levels') # {} PROVE q \ act = {}
  <2>1. PICK p \in Level : filled[p] = Empty
    <3>1. PICK k \in Level : levels'[k] = Empty
      BY <1>21 DEF EmptyPositions
    <3>2. \E p \in Level : levels'[k] = filled[p]
      BY <1>16
    <3> QED
      BY <3>1, <3>2
  <2>2. p \in free /\ turn(p) \notin 1 .. n
    <3>1. p \in free
      BY <1>2, <1>13, <2>1
    <3>2. ASSUME turn(p) \in 1 .. n PROVE FALSE
      <4>1. filled[p] \in act
        BY <1>13, <3>1, <3>2 DEF act
      <4> QED
        BY <1>13, <2>1, <4>1
    <3> QED
      BY <3>1, <3>2
  <2>3. n = Cardinality(q)
    BY <1>3, <1>5, <2>2
  <2>4. s \in Injection(1 .. n, q)
    BY <1>6, Fun_IsInj, Zenon
  <2>5. Cardinality(1 .. n) = n
    BY <1>5, FS_Interval
  <2>6. s \in Surjection(1 .. n, q)
    BY <2>3, <2>4, <2>5, FS_Injection, Zenon
  <2>7. \A e \in q : \E i \in 1 .. n : s[i] = e
    BY <2>6 DEF Surjection
  <2> QED
    BY <2>7 DEF act
<1> QED
  BY <1>7, <1>10, <1>11, <1>12, <1>16, <1>17, <1>18, <1>19, <1>20, <1>21 DEF Activates

-----------------------------------------------------------------------------
(* Requests *)

LEMMA QuietReceivers ==
  ASSUME TypeOK, RequestsTrue, NEW r \in Receivers,
         pc[r] \in {"idle", "activated", "granted", "panicked"}
  PROVE  ~Asked(r)
<1> SUFFICES ASSUME NEW k \in 1 .. Len(mailbox), mailbox[k].receiver = r
             PROVE  FALSE
  BY DEF Asked, AskedIn
<1>1. mailbox[k] \in Request
  BY ElementOfSeq DEF TypeOK
<1> QED
  BY <1>1 DEF RequestsTrue, Request

\* A receiver whose request is not there yet sends one.
LEMMA Sending ==
  ASSUME TypeOK, RequestsTrue, NEW r \in Receivers, ~Asked(r),
         NEW kind \in {"Register", "Get", "Unregister"}, NEW n \in 0 .. MAX_REMAINING,
         Send(kind, r, n),
         \A q \in Receivers \ {r} : pc'[q] = pc[q] /\ remaining'[q] = remaining[q],
         kind = "Register" => pc'[r] = "registering" /\ n = remaining'[r],
         kind = "Get" => pc'[r] = "asking" /\ n = remaining'[r],
         kind = "Unregister" => pc'[r] = "finished"
  PROVE  /\ mailbox' \in Seq(Request)
         /\ RequestsTrue'
         /\ \A q \in Receivers : Asked(q)' <=> Asked(q) \/ q = r
         /\ \A q \in Receivers \ {r} :
              (\E k \in 1 .. Len(mailbox) :
                 mailbox[k].kind = "Register" /\ mailbox[k].receiver = q)
              => (\E k \in 1 .. Len(mailbox') :
                    mailbox'[k].kind = "Register" /\ mailbox'[k].receiver = q)
         /\ \E k \in 1 .. Len(mailbox') : mailbox'[k].kind = kind /\ mailbox'[k].receiver = r
<1> DEFINE m == [kind |-> kind, receiver |-> r, remaining |-> n]
<1>1. m \in Request /\ m.kind = kind /\ m.receiver = r /\ m.remaining = n
  BY DEF Request
<1>2. mailbox \in Seq(Request) /\ mailbox' = Append(mailbox, m) /\ Len(mailbox) \in Nat
  BY LenProperties DEF TypeOK, Send
<1> HIDE DEF m
<1>3. /\ mailbox' \in Seq(Request)
      /\ Len(mailbox') = Len(mailbox) + 1
      /\ \A k \in 1 .. Len(mailbox) : mailbox'[k] = mailbox[k]
      /\ mailbox'[Len(mailbox) + 1] = m
  BY <1>1, <1>2, AppendProperties
<1>4. \A k \in 1 .. Len(mailbox') : k \in 1 .. Len(mailbox) \/ k = Len(mailbox) + 1
  BY <1>2, <1>3
<1>5. \A k \in 1 .. Len(mailbox) : mailbox[k].receiver \in Receivers \ {r}
  <2>1. \A k \in 1 .. Len(mailbox) : mailbox[k] \in Request
    BY <1>2, ElementOfSeq
  <2> QED
    BY <2>1 DEF Asked, AskedIn, Request
<1>6. \A q \in Receivers : Asked(q)' <=> Asked(q) \/ q = r
  BY <1>1, <1>2, <1>3, <1>4 DEF Asked, AskedIn
<1>7. RequestsTrue'
  <2>1. \A j, k \in 1 .. Len(mailbox') :
          mailbox'[j].receiver = mailbox'[k].receiver => j = k
    BY <1>1, <1>3, <1>4, <1>5 DEF RequestsTrue
  <2>2. ASSUME NEW k \in 1 .. Len(mailbox')
        PROVE  /\ mailbox'[k].kind = "Register" =>
                    /\ pc'[mailbox'[k].receiver] = "registering"
                    /\ mailbox'[k].remaining = remaining'[mailbox'[k].receiver]
               /\ mailbox'[k].kind = "Get" =>
                    /\ pc'[mailbox'[k].receiver] = "asking"
                    /\ mailbox'[k].remaining = remaining'[mailbox'[k].receiver]
               /\ mailbox'[k].kind = "Unregister" => pc'[mailbox'[k].receiver] = "finished"
    <3>1. CASE k \in 1 .. Len(mailbox)
      BY <1>3, <1>5, <3>1 DEF RequestsTrue
    <3>2. CASE k = Len(mailbox) + 1
      BY <1>1, <1>3, <3>2
    <3> QED
      BY <1>4, <3>1, <3>2
  <2>3. \A q \in Receivers : pc'[q] = "asking" => Asked(q)'
    BY <1>6 DEF RequestsTrue
  <2> QED
    BY <2>1, <2>2, <2>3 DEF RequestsTrue
<1>8. Len(mailbox) + 1 \in 1 .. Len(mailbox')
  BY <1>2, <1>3
<1>9. \A k \in 1 .. Len(mailbox) : k \in 1 .. Len(mailbox')
  BY <1>2, <1>3
<1> QED
  BY <1>1, <1>3, <1>6, <1>7, <1>8, <1>9

\* The actor takes the oldest request; no other receiver that has sent one moves.
LEMMA Taking ==
  ASSUME TypeOK, RequestsTrue, mailbox # <<>>, mailbox' = Tail(mailbox),
         NEW r, r = Head(mailbox).receiver,
         \A q \in Receivers \ {r} : Asked(q) => pc'[q] = pc[q],
         \A q \in Receivers : pc'[q] = "asking" => pc[q] = "asking" /\ q # r,
         remaining' = remaining
  PROVE  /\ mailbox' \in Seq(Request)
         /\ RequestsTrue'
<1>1. mailbox \in Seq(Request) /\ Len(mailbox) \in Nat \ {0}
  BY EmptySeq DEF TypeOK
<1>2. /\ mailbox' \in Seq(Request)
      /\ Len(mailbox') = Len(mailbox) - 1
      /\ \A k \in 1 .. Len(mailbox') : mailbox'[k] = mailbox[k + 1]
  BY <1>1, HeadTailProperties
<1>3. Head(mailbox) = mailbox[1] /\ 1 \in 1 .. Len(mailbox)
  BY <1>1
<1>4. \A k \in 1 .. Len(mailbox') : k + 1 \in 1 .. Len(mailbox) /\ k + 1 # 1
  BY <1>1, <1>2
<1>5. \A k \in 1 .. Len(mailbox') :
        mailbox[k + 1].receiver \in Receivers \ {r} /\ Asked(mailbox[k + 1].receiver)
  <2>1. \A k \in 1 .. Len(mailbox) : mailbox[k] \in Request
    BY <1>1, ElementOfSeq
  <2>2. \A k \in 1 .. Len(mailbox') : mailbox[k + 1].receiver # r
    BY <1>3, <1>4 DEF RequestsTrue
  <2> QED
    BY <1>4, <2>1, <2>2 DEF Request, Asked, AskedIn
<1>6. \A j, k \in 1 .. Len(mailbox') : mailbox'[j].receiver = mailbox'[k].receiver => j = k
  <2> SUFFICES ASSUME NEW j \in 1 .. Len(mailbox'), NEW k \in 1 .. Len(mailbox'),
                      mailbox'[j].receiver = mailbox'[k].receiver
               PROVE  j = k
    OBVIOUS
  <2>1. j + 1 = k + 1
    BY <1>2, <1>4 DEF RequestsTrue
  <2> QED
    BY <1>1, <1>2, <2>1
<1>7. ASSUME NEW k \in 1 .. Len(mailbox')
      PROVE  /\ mailbox'[k].kind = "Register" =>
                  /\ pc'[mailbox'[k].receiver] = "registering"
                  /\ mailbox'[k].remaining = remaining'[mailbox'[k].receiver]
             /\ mailbox'[k].kind = "Get" =>
                  /\ pc'[mailbox'[k].receiver] = "asking"
                  /\ mailbox'[k].remaining = remaining'[mailbox'[k].receiver]
             /\ mailbox'[k].kind = "Unregister" => pc'[mailbox'[k].receiver] = "finished"
  BY <1>2, <1>4, <1>5 DEF RequestsTrue
<1>8. ASSUME NEW q \in Receivers, pc'[q] = "asking" PROVE Asked(q)'
  <2>1. q # r /\ Asked(q)
    BY <1>8 DEF RequestsTrue
  <2>2. PICK k \in 1 .. Len(mailbox) : mailbox[k].receiver = q
    BY <2>1 DEF Asked, AskedIn
  <2>3. k # 1
    BY <1>3, <2>1, <2>2
  <2>4. k - 1 \in 1 .. Len(mailbox') /\ (k - 1) + 1 = k
    BY <1>1, <1>2, <2>2, <2>3
  <2>5. mailbox'[k - 1].receiver = q
    BY <1>2, <2>2, <2>4
  <2> QED
    BY <2>4, <2>5 DEF Asked, AskedIn
<1> QED
  BY <1>2, <1>6, <1>7, <1>8 DEF RequestsTrue

\* What the actor still has to handle once it has taken the oldest request.
LEMMA TakenAsked ==
  ASSUME TypeOK, RequestsTrue, mailbox # <<>>, mailbox' = Tail(mailbox)
  PROVE  /\ Head(mailbox) \in Request
         /\ Asked(Head(mailbox).receiver)
         /\ \A q \in Receivers : Asked(q)' <=> Asked(q) /\ q # Head(mailbox).receiver
         /\ \A q \in Receivers \ {Head(mailbox).receiver} :
              (\E k \in 1 .. Len(mailbox) :
                 mailbox[k].kind = "Register" /\ mailbox[k].receiver = q)
              => (\E k \in 1 .. Len(mailbox') :
                    mailbox'[k].kind = "Register" /\ mailbox'[k].receiver = q)
<1> DEFINE r == Head(mailbox).receiver
<1>1. mailbox \in Seq(Request) /\ Len(mailbox) \in Nat \ {0}
  BY EmptySeq DEF TypeOK
<1>2. /\ Head(mailbox) \in Request
      /\ Len(mailbox') = Len(mailbox) - 1
      /\ \A k \in 1 .. Len(mailbox') : mailbox'[k] = mailbox[k + 1]
  BY <1>1, HeadTailProperties
<1>3. Head(mailbox) = mailbox[1] /\ 1 \in 1 .. Len(mailbox)
  BY <1>1
<1>4. \A k \in 1 .. Len(mailbox') : k + 1 \in 1 .. Len(mailbox) /\ k + 1 # 1
  BY <1>1, <1>2
<1>5. \A k \in 1 .. Len(mailbox) : k = 1 \/ \E j \in 1 .. Len(mailbox') : k = j + 1
  <2> SUFFICES ASSUME NEW k \in 1 .. Len(mailbox), k # 1
               PROVE  \E j \in 1 .. Len(mailbox') : k = j + 1
    OBVIOUS
  <2>1. k - 1 \in 1 .. Len(mailbox') /\ k = (k - 1) + 1
    BY <1>1, <1>2
  <2> QED
    BY <2>1
<1>6. \A q \in Receivers : Asked(q)' => Asked(q) /\ q # r
  BY <1>2, <1>3, <1>4 DEF Asked, AskedIn, RequestsTrue
<1>7. \A q \in Receivers : Asked(q) /\ q # r => Asked(q)'
  BY <1>2, <1>3, <1>5 DEF Asked, AskedIn
<1>8. \A q \in Receivers \ {r} :
        (\E k \in 1 .. Len(mailbox) : mailbox[k].kind = "Register" /\ mailbox[k].receiver = q)
        => (\E k \in 1 .. Len(mailbox') :
              mailbox'[k].kind = "Register" /\ mailbox'[k].receiver = q)
  BY <1>2, <1>3, <1>5
<1>9. Asked(r)
  BY <1>3 DEF Asked, AskedIn
<1> QED
  BY <1>2, <1>6, <1>7, <1>8, <1>9

-----------------------------------------------------------------------------
(* Whatever the ids: levels and their holders *)

\* The sort takes the holders along.
LEMMA HeldSorted ==
  ASSUME NEW s \in [Level -> Occupied \cup {Empty}], NEW t \in SortPriorityLevels(s),
         NEW rs \in SUBSET Receivers, HeldBy(s, rs)
  PROVE  HeldBy(t, rs)
<1>1. PICK p \in Bijection(Level, Level) : t = [i \in Level |-> s[p[i]]]
  BY DEF SortPriorityLevels
<1>2. p \in [Level -> Level] /\ \A i, j \in Level : p[i] = p[j] => i = j
  BY Fun_BijectionProperties, Fun_InjectionProperties
<1>3. PICK holder \in [Level -> Receivers \cup {None}] : Holds(s, rs, holder)
  BY DEF HeldBy
<1> DEFINE moved == [i \in Level |-> holder[p[i]]]
<1>4. /\ moved \in [Level -> Receivers \cup {None}]
      /\ \A i \in Level : moved[i] = holder[p[i]] /\ t[i] = s[p[i]]
  BY <1>1, <1>2
<1> HIDE DEF moved
<1>5. Holds(t, rs, moved)
  BY <1>2, <1>3, <1>4 DEF Holds
<1> QED
  BY <1>4, <1>5 DEF HeldBy

LEMMA HeldByMore ==
  ASSUME NEW lev, NEW rs \in SUBSET Receivers, NEW more \in SUBSET Receivers,
         HeldBy(lev, rs), rs \subseteq more
  PROVE  HeldBy(lev, more)
BY DEF HeldBy, Holds

\* A receiver gives back the level it has, or another with its id, whose holder
\* then has that one; or there is none left.
LEMMA HeldByOthers ==
  ASSUME NEW lev \in [Level -> Occupied \cup {Empty}], NEW rs \in SUBSET Receivers,
         HeldBy(lev, rs), NEW r \in Receivers
  PROVE  /\ Positions(lev, MessageId[r]) = {} => HeldBy(lev, rs \ {r})
         /\ \A i \in Positions(lev, MessageId[r]) :
              HeldBy([lev EXCEPT ![i] = Empty], rs \ {r})
<1>1. PICK holder \in [Level -> Receivers \cup {None}] : Holds(lev, rs, holder)
  BY DEF HeldBy
<1>2. ASSUME Positions(lev, MessageId[r]) = {}
      PROVE  HeldBy(lev, rs \ {r})
  <2>1. \A i \in Level : lev[i] # Empty => holder[i] # r
    BY <1>1, <1>2 DEF Holds, Positions
  <2>2. Holds(lev, rs \ {r}, holder)
    BY <1>1, <2>1 DEF Holds
  <2> QED
    BY <2>2 DEF HeldBy
<1>3. ASSUME NEW i \in Positions(lev, MessageId[r])
      PROVE  HeldBy([lev EXCEPT ![i] = Empty], rs \ {r})
  <2> DEFINE rest == [lev EXCEPT ![i] = Empty]
             swapped == [j \in Level |-> IF holder[j] = r THEN holder[i] ELSE holder[j]]
  <2>1. i \in Level /\ lev[i] # Empty /\ lev[i][1] = MessageId[r]
    BY <1>3 DEF Positions
  <2>2. \A j \in Level : rest[j] # Empty => j # i /\ rest[j] = lev[j] /\ lev[j] # Empty
    BY <2>1
  <2>3. /\ swapped \in [Level -> Receivers \cup {None}]
        /\ \A j \in Level :
             swapped[j] = IF holder[j] = r THEN holder[i] ELSE holder[j]
    BY <2>1
  <2> HIDE DEF rest, swapped
  <2>4. ASSUME NEW j \in Level, rest[j] # Empty
        PROVE  swapped[j] \in rs \ {r} /\ MessageId[swapped[j]] = rest[j][1]
    BY <1>1, <2>1, <2>2, <2>3, <2>4 DEF Holds
  <2>5. ASSUME NEW j \in Level, NEW k \in Level, rest[j] # Empty, rest[k] # Empty,
               swapped[j] = swapped[k]
        PROVE  j = k
    BY <1>1, <2>1, <2>2, <2>3, <2>5 DEF Holds
  <2>6. Holds(rest, rs \ {r}, swapped)
    BY <2>4, <2>5 DEF Holds
  <2> QED
    BY <2>3, <2>6 DEF HeldBy, rest
<1> QED
  BY <1>2, <1>3

\* Whom the senders snd of ids wake.
Woken(snd, ids) == {snd[id] : id \in ids}

\* try_activate_messages gives a level for each sender it takes.
LEMMA Giving ==
  ASSUME NEW q \in SUBSET (Ids \X (1 .. MAX_REMAINING)),
         NEW snd \in [Ids -> Receivers \cup {None}],
         NEW lev \in [Level -> Occupied \cup {Empty}],
         NEW pcs, NEW rs \in SUBSET Receivers, HeldBy(lev, rs),
         \A id \in Ids : snd[id] # None => MessageId[snd[id]] = id /\ snd[id] \notin rs,
         TryActivate(q, snd, lev, pcs)
  PROVE  \E ids \in SUBSET Ids :
           /\ \A id \in ids : snd[id] \in Receivers
           /\ queue' \subseteq q
           /\ senders' = [id \in Ids |-> IF id \in ids THEN None ELSE snd[id]]
           /\ pc' = [r \in Receivers |->
                       IF \E id \in ids : snd[id] = r THEN "activated" ELSE pcs[r]]
           /\ levels' \in [Level -> Occupied \cup {Empty}]
           /\ HeldBy(levels', rs \cup Woken(snd, ids))
<1> DEFINE free == EmptyPositions(lev)
           n == IF Cardinality(q) < Cardinality(free) THEN Cardinality(q) ELSE Cardinality(free)
           turn(p) == Cardinality({f \in free : f <= p})
           taken(s) == {i \in 1 .. n : HasSender(s, i, snd)}
           given(s) == {s[i][1] : i \in taken(s)}
           filled(s) == [p \in Level |->
                           IF p \in free /\ turn(p) \in taken(s) THEN s[turn(p)] ELSE lev[p]]
<1>1. PICK s \in Pops(q, n) :
        /\ queue' = q \ Range(s)
        /\ senders' = [id \in Ids |-> IF id \in given(s) THEN None ELSE snd[id]]
        /\ pc' = [r \in Receivers |->
                    IF \E id \in given(s) : snd[id] = r THEN "activated" ELSE pcs[r]]
        /\ levels' \in SortPriorityLevels(filled(s))
  BY DEF TryActivate
<1>2. s \in [1 .. n -> q]
  BY DEF Pops
<1>3. /\ free \in SUBSET Level
      /\ \A p \in free : turn(p) \in Nat
      /\ \A p, x \in free : turn(p) = turn(x) => p = x
  <2>1. free \in SUBSET Level
    BY DEF EmptyPositions
  <2> HIDE DEF free
  <2>2. \A p \in free : turn(p) \in 1 .. Cardinality(free)
    BY <2>1, TurnsCount
  <2>3. Cardinality(free) \in Nat
    BY <2>1, TurnsCount
  <2>4. \A p, x \in free : turn(p) = turn(x) => p = x
    BY <2>1, TurnsCount
  <2> QED
    BY <2>1, <2>2, <2>3, <2>4
<1>4. \A i \in taken(s) : s[i] \in q /\ s[i][1] \in Ids /\ s[i] \in Occupied /\ s[i] # Empty
  BY <1>2, OccupiedNotEmpty
<1>5. \A i \in taken(s) : snd[s[i][1]] \in Receivers
  BY <1>4 DEF HasSender
\* Different turns take different ids.
<1>6. ASSUME NEW p \in free, NEW x \in free, turn(p) \in taken(s), turn(x) \in taken(s),
             s[turn(p)][1] = s[turn(x)][1]
      PROVE  p = x
  <2> DEFINE a == turn(p)
             b == turn(x)
  <2>1. a \in Nat /\ b \in Nat /\ a \in 1 .. n /\ b \in 1 .. n
    BY <1>3, <1>6
  <2>2. /\ \A j \in 1 .. a - 1 : s[j][1] # s[a][1]
        /\ \A j \in 1 .. b - 1 : s[j][1] # s[b][1]
    BY <1>6 DEF HasSender
  <2>3. a = b => p = x
    BY <1>3
  <2>4. s[a][1] = s[b][1]
    BY <1>6
  <2> HIDE DEF a, b
  <2>5. a >= 1 /\ b >= 1
    BY <2>1
  <2>6. ~ (a < b) /\ ~ (b < a)
    BY <2>1, <2>2, <2>4, <2>5
  <2> QED
    BY <2>1, <2>3, <2>6
<1>7. PICK holder \in [Level -> Receivers \cup {None}] : Holds(lev, rs, holder)
  BY DEF HeldBy
<1> DEFINE gets(p) == p \in free /\ turn(p) \in taken(s)
           all == rs \cup {snd[id] : id \in given(s)}
           wider == [p \in Level |-> IF gets(p) THEN snd[s[turn(p)][1]] ELSE holder[p]]
           lev2 == filled(s)
<1>8. \A p \in free : lev[p] = Empty
  BY DEF EmptyPositions
<1>9. /\ lev2 \in [Level -> Occupied \cup {Empty}]
      /\ \A p \in Level : lev2[p] = IF gets(p) THEN s[turn(p)] ELSE lev[p]
  BY <1>4
<1>10. /\ wider \in [Level -> Receivers \cup {None}]
       /\ \A p \in Level : wider[p] = IF gets(p) THEN snd[s[turn(p)][1]] ELSE holder[p]
  BY <1>5
<1>11. ASSUME NEW p \in Level, gets(p)
       PROVE  /\ s[turn(p)] # Empty /\ s[turn(p)][1] \in Ids
              /\ snd[s[turn(p)][1]] \in Receivers /\ snd[s[turn(p)][1]] # None
              /\ snd[s[turn(p)][1]] \in all
  <2>1. turn(p) \in taken(s)
    BY <1>11
  <2>2. s[turn(p)][1] \in given(s)
    BY <2>1
  <2> HIDE DEF taken, given, turn
  <2>3. snd[s[turn(p)][1]] \in Receivers
    BY <1>5, <2>1
  <2>4. s[turn(p)] # Empty /\ s[turn(p)][1] \in Ids
    BY <1>4, <2>1
  <2> QED
    BY <2>2, <2>3, <2>4, PriorityAssumption
<1>12. \A p, x \in Level : gets(p) /\ gets(x) /\ s[turn(p)][1] = s[turn(x)][1] => p = x
  BY <1>6
<1>13. all \in SUBSET Receivers /\ rs \subseteq all
  BY <1>5
<1>14. /\ given(s) \in SUBSET Ids
       /\ \A id \in given(s) : snd[id] \in Receivers
       /\ queue' \subseteq q
  BY <1>1, <1>4, <1>5
<1>15. levels' \in SortPriorityLevels(lev2)
  BY <1>1
<1>16. /\ senders' = [id \in Ids |-> IF id \in given(s) THEN None ELSE snd[id]]
       /\ pc' = [r \in Receivers |->
                   IF \E id \in given(s) : snd[id] = r THEN "activated" ELSE pcs[r]]
  BY <1>1
<1> HIDE DEF lev2, wider, gets
<1>17. HeldBy(lev2, all)
  <2> HIDE DEF all, taken, given, filled, turn, free
  <2>1. ASSUME NEW p \in Level, lev2[p] # Empty
        PROVE  wider[p] \in all /\ MessageId[wider[p]] = lev2[p][1]
    <3>1. CASE gets(p)
      BY <1>9, <1>10, <1>11, <3>1
    <3>2. CASE ~gets(p)
      BY <1>7, <1>9, <1>10, <1>13, <2>1, <3>2 DEF Holds
    <3> QED
      BY <3>1, <3>2
  <2>2. ASSUME NEW p \in Level, NEW x \in Level, lev2[p] # Empty, lev2[x] # Empty,
               wider[p] = wider[x]
        PROVE  p = x
    <3>1. CASE gets(p) /\ gets(x)
      <4>1. s[turn(p)][1] = s[turn(x)][1]
        BY <1>10, <1>11, <2>2, <3>1
      <4> QED
        BY <1>12, <3>1, <4>1
    <3>2. CASE gets(p) /\ ~gets(x)
      <4>1. wider[p] \notin rs
        BY <1>10, <1>11, <3>2
      <4>2. wider[x] \in rs
        BY <1>7, <1>9, <1>10, <2>2, <3>2 DEF Holds
      <4> QED
        BY <2>2, <4>1, <4>2
    <3>3. CASE ~gets(p) /\ gets(x)
      <4>1. wider[x] \notin rs
        BY <1>10, <1>11, <3>3
      <4>2. wider[p] \in rs
        BY <1>7, <1>9, <1>10, <2>2, <3>3 DEF Holds
      <4> QED
        BY <2>2, <4>1, <4>2
    <3>4. CASE ~gets(p) /\ ~gets(x)
      BY <1>7, <1>9, <1>10, <2>2, <3>4 DEF Holds
    <3> QED
      BY <3>1, <3>2, <3>3, <3>4
  <2>3. Holds(lev2, all, wider)
    BY <2>1, <2>2 DEF Holds
  <2> QED
    BY <1>10, <2>3 DEF HeldBy
<1>18. HeldBy(levels', all) /\ levels' \in [Level -> Occupied \cup {Empty}]
  <2> HIDE DEF all
  <2> QED
    BY <1>9, <1>13, <1>15, <1>17, HeldSorted, SortKeeps
<1>19. all = rs \cup Woken(snd, given(s))
  BY DEF Woken
<1> HIDE DEF given, all
<1> QED
  BY <1>14, <1>16, <1>18, <1>19

-----------------------------------------------------------------------------
(* Whatever the ids: steps *)

\* The actor has taken a request of r.  What the first half of its handler leaves to
\* try_activate_messages: queue, senders, levels, and receivers pcs, of whom rs hold
\* the levels.
Accounted(r, q, snd, lev, pcs, rs) ==
  /\ q \in SUBSET (Ids \X (1 .. MAX_REMAINING))
  /\ snd \in [Ids -> Receivers \cup {None}]
  /\ lev \in [Level -> Occupied \cup {Empty}]
  /\ pcs \in [Receivers -> {"idle", "registering", "activated", "asking",
                            "granted", "finished", "panicked"}]
  /\ rs \in SUBSET Receivers /\ HeldBy(lev, rs)
  /\ \A p \in rs : \/ pcs[p] \in {"activated", "asking", "granted"}
                   \/ pcs[p] = "finished" /\ AskedIn(mailbox', p)
  /\ \A id \in Ids : snd[id] # None =>
       /\ pcs[snd[id]] = "registering" /\ ~AskedIn(mailbox', snd[id])
       /\ MessageId[snd[id]] = id
  /\ \A p \in Receivers \ {r} : Asked(p) => pcs[p] = pc[p]
  /\ \A p \in Receivers : pcs[p] = "asking" => pc[p] = "asking" /\ p # r

LEMMA SharedActivation ==
  ASSUME SharedInv, mailbox # <<>>, mailbox' = Tail(mailbox), remaining' = remaining,
         NEW q, NEW snd, NEW lev, NEW pcs, NEW rs,
         Accounted(Head(mailbox).receiver, q, snd, lev, pcs, rs),
         TryActivate(q, snd, lev, pcs)
  PROVE  /\ SharedInv'
         /\ \A p \in Receivers : pc'[p] # pcs[p] => pcs[p] = "registering"
<1> DEFINE r == Head(mailbox).receiver
<1>a. r = Head(mailbox).receiver
  OBVIOUS
<1>b. Accounted(r, q, snd, lev, pcs, rs)
  OBVIOUS
<1> HIDE DEF r
<1>c. /\ q \in SUBSET (Ids \X (1 .. MAX_REMAINING))
      /\ snd \in [Ids -> Receivers \cup {None}]
      /\ lev \in [Level -> Occupied \cup {Empty}]
      /\ pcs \in [Receivers -> {"idle", "registering", "activated", "asking",
                                "granted", "finished", "panicked"}]
      /\ rs \in SUBSET Receivers /\ HeldBy(lev, rs)
      /\ \A p \in rs : \/ pcs[p] \in {"activated", "asking", "granted"}
                       \/ pcs[p] = "finished" /\ AskedIn(mailbox', p)
      /\ \A id \in Ids : snd[id] # None =>
           /\ pcs[snd[id]] = "registering" /\ ~AskedIn(mailbox', snd[id])
           /\ MessageId[snd[id]] = id
      /\ \A p \in Receivers \ {r} : Asked(p) => pcs[p] = pc[p]
      /\ \A p \in Receivers : pcs[p] = "asking" => pc[p] = "asking" /\ p # r
  BY <1>b DEF Accounted
<1> USE <1>a, <1>c
<1>1. ASSUME NEW id \in Ids, snd[id] # None
      PROVE  MessageId[snd[id]] = id /\ snd[id] \notin rs
  BY <1>1
<1>2. PICK ids \in SUBSET Ids :
        /\ \A id \in ids : snd[id] \in Receivers
        /\ queue' \subseteq q
        /\ senders' = [id \in Ids |-> IF id \in ids THEN None ELSE snd[id]]
        /\ pc' = [p \in Receivers |->
                    IF \E id \in ids : snd[id] = p THEN "activated" ELSE pcs[p]]
        /\ levels' \in [Level -> Occupied \cup {Empty}]
        /\ HeldBy(levels', rs \cup Woken(snd, ids))
  <2>1. TryActivate(q, snd, lev, pcs)
    OBVIOUS
  <2> QED
    BY <1>1, <2>1, Giving
<1>3. \A id \in ids : snd[id] \in Receivers /\ snd[id] # None
  BY <1>2, PriorityAssumption
\* Whoever wakes was asleep, so no request of it waits.
<1>4. \A p \in Receivers : (\E id \in ids : snd[id] = p) =>
        /\ pcs[p] = "registering" /\ ~AskedIn(mailbox', p)
        /\ pc'[p] = "activated"
  BY <1>2, <1>3
<1>5. \A p \in Receivers : ~(\E id \in ids : snd[id] = p) => pc'[p] = pcs[p]
  BY <1>2
<1>6. \A p \in Receivers : Asked(p)' <=> Asked(p) /\ p # r
  BY TakenAsked DEF SharedInv
<1>7. \A p \in Receivers : AskedIn(mailbox', p) <=> Asked(p)'
  BY DEF Asked, AskedIn
<1>8. mailbox' \in Seq(Request) /\ RequestsTrue'
  <2>1. \A p \in Receivers \ {r} : Asked(p) => pc'[p] = pc[p]
    BY <1>4, <1>5, <1>6, <1>7
  <2>2. \A p \in Receivers : pc'[p] = "asking" => pc[p] = "asking" /\ p # r
    BY <1>4, <1>5
  <2> QED
    BY <2>1, <2>2, Taking DEF SharedInv
<1>9. TypeOK'
  <2>1. pc' \in [Receivers -> {"idle", "registering", "activated", "asking",
                               "granted", "finished", "panicked"}]
    BY <1>2
  <2>2. senders' \in [Ids -> Receivers \cup {None}]
    BY <1>2
  <2>3. queue' \subseteq Ids \X (1 .. MAX_REMAINING)
    BY <1>2
  <2> QED
    BY <1>2, <1>8, <2>1, <2>2, <2>3 DEF SharedInv, TypeOK
<1>10. SendersTrue'
  <2> SUFFICES ASSUME NEW id \in Ids, senders'[id] # None
               PROVE  /\ pc'[senders'[id]] = "registering" /\ ~AskedIn(mailbox', senders'[id])
                      /\ MessageId[senders'[id]] = id
    BY DEF SendersTrue, Sleeps, Asked
  <2>1. id \notin ids /\ senders'[id] = snd[id] /\ snd[id] \in Receivers
    BY <1>2
  <2>2. pcs[snd[id]] = "registering" /\ ~AskedIn(mailbox', snd[id]) /\ MessageId[snd[id]] = id
    BY <2>1
  <2>3. ~ \E x \in ids : snd[x] = snd[id]
    BY <1>3, <2>1, <2>2
  <2> QED
    BY <1>5, <2>1, <2>2, <2>3
<1>14. \A p \in Receivers :
         p \in Holding' <=> \/ pc'[p] \in {"activated", "asking", "granted"}
                            \/ pc'[p] = "finished" /\ AskedIn(mailbox', p)
  BY DEF Holding, Asked
<1>11. rs \cup Woken(snd, ids) \subseteq Holding'
  <2>1. ASSUME NEW p \in rs
        PROVE  \/ pc'[p] \in {"activated", "asking", "granted"}
               \/ pc'[p] = "finished" /\ AskedIn(mailbox', p)
    BY <1>4, <1>5, <2>1
  <2>2. ASSUME NEW id \in ids
        PROVE  pc'[snd[id]] \in {"activated", "asking", "granted"}
    BY <1>3, <1>4
  <2>3. \A p \in rs : p \in Receivers /\ p \in Holding'
    BY <2>1 DEF Holding, Asked
  <2>4. \A id \in ids : snd[id] \in Holding'
    BY <1>2, <2>2 DEF Holding, Asked
  <2> QED
    BY <2>3, <2>4 DEF Woken
<1>12. HeldBy(levels', Holding')
  <2>1. /\ rs \cup Woken(snd, ids) \in SUBSET Receivers
        /\ Holding' \in SUBSET Receivers
    BY <1>2 DEF Holding, Woken
  <2> QED
    BY <1>2, <1>11, <2>1, HeldByMore, ZenonT(40)
<1>13. HeldBy(levels, Holding)'
  BY <1>12 DEF HeldBy, Holds
<1> QED
  BY <1>4, <1>5, <1>8, <1>9, <1>10, <1>13 DEF SharedInv

\* The request the actor takes.
LEMMA TakenRequest ==
  ASSUME SharedInv, mailbox # <<>>, mailbox' = Tail(mailbox),
         NEW m, m = Head(mailbox)
  PROVE  /\ m.receiver \in Receivers
         /\ Asked(m.receiver)
         /\ ~AskedIn(mailbox', m.receiver)
         /\ \A p \in Receivers \ {m.receiver} : AskedIn(mailbox', p) <=> Asked(p)
         /\ m.kind = "Register" =>
              pc[m.receiver] = "registering" /\ m.remaining = remaining[m.receiver]
         /\ m.kind = "Get" =>
              pc[m.receiver] = "asking" /\ m.remaining = remaining[m.receiver]
         /\ m.kind = "Unregister" => pc[m.receiver] = "finished"
<1>1. mailbox \in Seq(Request) /\ Len(mailbox) \in Nat \ {0}
  BY EmptySeq DEF SharedInv, TypeOK
<1>2. m = mailbox[1] /\ 1 \in 1 .. Len(mailbox)
  BY <1>1
<1>3. /\ m \in Request /\ Asked(m.receiver)
      /\ \A p \in Receivers : Asked(p)' <=> Asked(p) /\ p # m.receiver
  BY TakenAsked DEF SharedInv
<1>4. m.receiver \in Receivers
  BY <1>3 DEF Request
<1> QED
  BY <1>2, <1>3, <1>4 DEF SharedInv, RequestsTrue, Asked

\* A request handled moves on none but those that wait for an answer.
WaitersMove == \A p \in Receivers : pc'[p] # pc[p] => pc[p] \in {"registering", "asking"}

LEMMA RegisterShared ==
  ASSUME SharedInv, mailbox # <<>>, mailbox' = Tail(mailbox),
         NEW m, m = Head(mailbox), m.kind = "Register", HandleRegister(m)
  PROVE  SharedInv' /\ WaitersMove
<1> DEFINE r == m.receiver
           id == MessageId[r]
           other == senders[id]
           q == queue \cup {<<id, m.remaining>>}
           snd == [senders EXCEPT ![id] = r]
           pcs == [p \in Receivers |-> IF p = other THEN "activated" ELSE pc[p]]
<1>1. /\ r \in Receivers /\ Asked(r) /\ ~AskedIn(mailbox', r)
      /\ \A p \in Receivers \ {r} : AskedIn(mailbox', p) <=> Asked(p)
      /\ pc[r] = "registering" /\ m.remaining = remaining[r]
  BY TakenRequest
<1>2. /\ MessageId \in [Receivers -> Ids] /\ None \notin Receivers
      /\ remaining \in [Receivers -> 1 .. MAX_REMAINING]
      /\ senders \in [Ids -> Receivers \cup {None}]
      /\ levels \in [Level -> Occupied \cup {Empty}]
      /\ pc \in [Receivers -> {"idle", "registering", "activated", "asking",
                               "granted", "finished", "panicked"}]
      /\ queue \subseteq Ids \X (1 .. MAX_REMAINING)
  BY PriorityAssumption DEF SharedInv, TypeOK
<1>3. q \in SUBSET (Ids \X (1 .. MAX_REMAINING))
  BY <1>1, <1>2
<1>4. /\ snd \in [Ids -> Receivers \cup {None}] /\ snd[id] = r
      /\ \A x \in Ids \ {id} : snd[x] = senders[x]
  BY <1>1, <1>2
<1>5. /\ pcs \in [Receivers -> {"idle", "registering", "activated", "asking",
                                "granted", "finished", "panicked"}]
      /\ \A p \in Receivers : pcs[p] = IF p = other THEN "activated" ELSE pc[p]
  BY <1>2
<1>6. TryActivate(q, snd, levels, pcs) /\ remaining' = remaining
  BY DEF HandleRegister
<1>7. id \in Ids
  BY <1>1, <1>2
<1>8. \A x \in Ids : senders[x] # None =>
        /\ senders[x] \in Receivers /\ pc[senders[x]] = "registering"
        /\ ~Asked(senders[x]) /\ MessageId[senders[x]] = x
  BY <1>2 DEF SharedInv, SendersTrue, Sleeps
<1>9. other \in Receivers => pc[other] = "registering" /\ ~Asked(other) /\ MessageId[other] = id
  BY <1>2, <1>7, <1>8
<1> HIDE DEF q, snd, pcs, other
<1>10. Holding \in SUBSET Receivers /\ HeldBy(levels, Holding)
  BY DEF Holding, SharedInv
<1>11. ASSUME NEW p \in Holding
       PROVE  \/ pcs[p] \in {"activated", "asking", "granted"}
              \/ pcs[p] = "finished" /\ AskedIn(mailbox', p)
  <2>1. p # r /\ p # other
    BY <1>1, <1>9 DEF Holding
  <2> QED
    BY <1>1, <1>5, <2>1 DEF Holding
<1>12. ASSUME NEW x \in Ids, snd[x] # None
       PROVE  /\ pcs[snd[x]] = "registering" /\ ~AskedIn(mailbox', snd[x])
              /\ MessageId[snd[x]] = x
  <2>1. CASE x = id
    BY <1>1, <1>4, <1>5, <1>9, <2>1
  <2>2. CASE x # id
    <3>1. snd[x] = senders[x]
      BY <1>4, <2>2
    <3>2. /\ snd[x] \in Receivers /\ pc[snd[x]] = "registering"
          /\ ~Asked(snd[x]) /\ MessageId[snd[x]] = x
      BY <1>8, <1>12, <3>1
    <3>3. snd[x] # other /\ snd[x] # r
      BY <1>1, <1>9, <2>2, <3>2
    <3> QED
      BY <1>1, <1>5, <3>2, <3>3
  <2> QED
    BY <2>1, <2>2
<1>13. \A p \in Receivers \ {r} : Asked(p) => pcs[p] = pc[p]
  BY <1>5, <1>9
<1>14. \A p \in Receivers : pcs[p] = "asking" => pc[p] = "asking" /\ p # r
  BY <1>1, <1>5
<1>15. Accounted(r, q, snd, levels, pcs, Holding)
  <2>1. levels \in [Level -> Occupied \cup {Empty}]
    BY <1>2
  <2>2. q \in SUBSET (Ids \X (1 .. MAX_REMAINING)) /\ snd \in [Ids -> Receivers \cup {None}]
    BY <1>3, <1>4
  <2>3. pcs \in [Receivers -> {"idle", "registering", "activated", "asking",
                              "granted", "finished", "panicked"}]
    BY <1>5
  <2>4. \A p \in Holding : \/ pcs[p] \in {"activated", "asking", "granted"}
                           \/ pcs[p] = "finished" /\ AskedIn(mailbox', p)
    BY <1>11
  <2>5. \A x \in Ids : snd[x] # None =>
          /\ pcs[snd[x]] = "registering" /\ ~AskedIn(mailbox', snd[x])
          /\ MessageId[snd[x]] = x
    BY <1>12, Zenon
  <2> HIDE DEF r
  <2> QED
    BY <1>10, <1>13, <1>14, <2>1, <2>2, <2>3, <2>4, <2>5, Zenon DEF Accounted
<1>16. SharedInv' /\ \A p \in Receivers : pc'[p] # pcs[p] => pcs[p] = "registering"
  BY <1>6, <1>15, SharedActivation
<1> QED
  BY <1>5, <1>9, <1>16 DEF WaitersMove

LEMMA UnregisterShared ==
  ASSUME SharedInv, mailbox # <<>>, mailbox' = Tail(mailbox),
         NEW m, m = Head(mailbox), m.kind = "Unregister", HandleUnregister(m)
  PROVE  SharedInv' /\ WaitersMove
<1> DEFINE r == m.receiver
           id == MessageId[r]
<1>1. /\ r \in Receivers /\ Asked(r) /\ ~AskedIn(mailbox', r)
      /\ \A p \in Receivers \ {r} : AskedIn(mailbox', p) <=> Asked(p)
      /\ pc[r] = "finished"
  BY TakenRequest
<1>2. /\ senders \in [Ids -> Receivers \cup {None}]
      /\ levels \in [Level -> Occupied \cup {Empty}]
      /\ pc \in [Receivers -> {"idle", "registering", "activated", "asking",
                               "granted", "finished", "panicked"}]
      /\ queue \in SUBSET (Ids \X (1 .. MAX_REMAINING))
  BY DEF SharedInv, TypeOK
<1>3. Holding \in SUBSET Receivers /\ HeldBy(levels, Holding)
  BY DEF Holding, SharedInv
<1>4. \A p \in Holding \ {r} :
        \/ pc[p] \in {"activated", "asking", "granted"}
        \/ pc[p] = "finished" /\ AskedIn(mailbox', p)
  BY <1>1 DEF Holding
<1>5. \A x \in Ids : senders[x] # None =>
        /\ pc[senders[x]] = "registering" /\ ~AskedIn(mailbox', senders[x])
        /\ MessageId[senders[x]] = x
  BY <1>1, <1>2 DEF SharedInv, SendersTrue, Sleeps
<1>6. CASE Positions(levels, id) = {}
  <2>1. /\ pc' = pc /\ remaining' = remaining /\ queue' = queue
        /\ senders' = senders /\ levels' = levels
    BY <1>6 DEF HandleUnregister, IsMessagePosition, clientVars, managerVars
  <2>2. mailbox' \in Seq(Request) /\ RequestsTrue'
    BY <1>1, <2>1, Taking DEF SharedInv
  <2>3. HeldBy(levels, Holding \ {r})
    BY <1>1, <1>2, <1>3, <1>6, HeldByOthers
  <2>4. Holding \ {r} \subseteq Holding' /\ Holding' \in SUBSET Receivers
    BY <1>1, <2>1 DEF Holding, Asked
  <2>5. HeldBy(levels, Holding')
    BY <1>3, <2>3, <2>4, HeldByMore
  <2>6. HeldBy(levels, Holding)'
    BY <2>1, <2>5 DEF HeldBy, Holds
  <2>7. SendersTrue'
    BY <1>5, <2>1 DEF SendersTrue, Sleeps, Asked
  <2>8. TypeOK'
    BY <2>1, <2>2 DEF SharedInv, TypeOK
  <2> QED
    BY <2>1, <2>2, <2>6, <2>7, <2>8 DEF SharedInv, WaitersMove
<1>7. CASE Positions(levels, id) # {}
  <2>1. PICK i \in Level :
          /\ IsMessagePosition(levels, id, i)
          /\ TryActivate(queue, senders, [levels EXCEPT ![i] = Empty], pc)
          /\ remaining' = remaining
    BY <1>7 DEF HandleUnregister
  <2> DEFINE lev == [levels EXCEPT ![i] = Empty]
  <2>2. HeldBy(lev, Holding \ {r})
    BY <1>1, <1>2, <1>3, <2>1, HeldByOthers DEF IsMessagePosition
  <2>3. lev \in [Level -> Occupied \cup {Empty}] /\ Holding \ {r} \in SUBSET Receivers
    BY <1>2, <1>3
  <2>4. TryActivate(queue, senders, lev, pc) /\ remaining' = remaining
    BY <2>1
  <2>5. \A p \in Receivers : pc[p] = "asking" => p # r
    BY <1>1
  <2> HIDE DEF lev
  <2>6. Accounted(r, queue, senders, lev, pc, Holding \ {r})
    <3> HIDE DEF r
    <3>1. \A p \in Receivers \ {r} : Asked(p) => pc[p] = pc[p]
      OBVIOUS
    <3>2. \A p \in Receivers : pc[p] = "asking" => pc[p] = "asking" /\ p # r
      BY <2>5
    <3>3. /\ queue \in SUBSET (Ids \X (1 .. MAX_REMAINING))
          /\ senders \in [Ids -> Receivers \cup {None}]
          /\ pc \in [Receivers -> {"idle", "registering", "activated", "asking",
                                   "granted", "finished", "panicked"}]
      BY <1>2
    <3> QED
      BY <1>4, <1>5, <2>2, <2>3, <3>1, <3>2, <3>3, Zenon DEF Accounted
  <2>7. SharedInv' /\ \A p \in Receivers : pc'[p] # pc[p] => pc[p] = "registering"
    BY <2>4, <2>6, SharedActivation
  <2> QED
    BY <2>7 DEF WaitersMove
<1> QED
  BY <1>6, <1>7

LEMMA GetShared ==
  ASSUME SharedInv, mailbox # <<>>, mailbox' = Tail(mailbox),
         NEW m, m = Head(mailbox), m.kind = "Get", HandleGet(m)
  PROVE  SharedInv' /\ WaitersMove
<1> DEFINE r == m.receiver
           id == MessageId[r]
<1>1. /\ r \in Receivers /\ Asked(r) /\ ~AskedIn(mailbox', r)
      /\ \A p \in Receivers \ {r} : AskedIn(mailbox', p) <=> Asked(p)
      /\ pc[r] = "asking" /\ m.remaining = remaining[r]
  BY TakenRequest
<1>2. /\ senders \in [Ids -> Receivers \cup {None}]
      /\ MessageId \in [Receivers -> Ids]
      /\ remaining \in [Receivers -> 1 .. MAX_REMAINING]
      /\ levels \in [Level -> Occupied \cup {Empty}]
      /\ pc \in [Receivers -> {"idle", "registering", "activated", "asking",
                               "granted", "finished", "panicked"}]
  BY PriorityAssumption DEF SharedInv, TypeOK
<1>3. Holding \in SUBSET Receivers /\ HeldBy(levels, Holding)
  BY DEF Holding, SharedInv
<1>4. \E to \in {"granted", "panicked"} :
        /\ pc' = [pc EXCEPT ![r] = to]
        /\ remaining' = remaining /\ queue' = queue /\ senders' = senders
        /\ levels' \in [Level -> Occupied \cup {Empty}]
        /\ HeldBy(levels', IF to = "granted" THEN Holding ELSE Holding \ {r})
  <2>1. ASSUME NEW i \in Level,
               IsMessagePosition(levels, id, i),
               levels' \in SortPriorityLevels([levels EXCEPT ![i] = <<id, m.remaining>>])
        PROVE  levels' \in [Level -> Occupied \cup {Empty}] /\ HeldBy(levels', Holding)
    <3> DEFINE entry == <<id, m.remaining>>
               lev == [levels EXCEPT ![i] = entry]
    <3>1. levels[i] # Empty /\ levels[i][1] = id
      BY <2>1 DEF IsMessagePosition, Positions
    <3>2. entry[1] = id /\ entry \in Occupied
      <4>1. entry \in Ids \X (1 .. MAX_REMAINING)
        BY <1>1, <1>2
      <4> QED
        BY <4>1, OccupiedNotEmpty
    <3>3. levels' \in SortPriorityLevels(lev)
      BY <2>1
    <3> HIDE DEF entry
    <3>4. /\ lev \in [Level -> Occupied \cup {Empty}]
          /\ \A j \in Level : lev[j] = IF j = i THEN entry ELSE levels[j]
      BY <1>2, <3>2
    <3> HIDE DEF lev
    <3>5. \A j \in Level : lev[j] # Empty => levels[j] # Empty /\ lev[j][1] = levels[j][1]
      BY <3>1, <3>2, <3>4
    <3>6. HeldBy(lev, Holding)
      BY <1>3, <3>5 DEF HeldBy, Holds
    <3> QED
      BY <1>3, <3>3, <3>4, <3>6, HeldSorted, SortKeeps
  <2>2. Positions(levels, id) = {} => HeldBy(levels, Holding \ {r})
    BY <1>1, <1>2, <1>3, HeldByOthers
  <2> QED
    BY <1>2, <2>1, <2>2 DEF HandleGet, managerVars
<1>5. PICK to \in {"granted", "panicked"} :
        /\ pc' = [pc EXCEPT ![r] = to]
        /\ remaining' = remaining /\ queue' = queue /\ senders' = senders
        /\ levels' \in [Level -> Occupied \cup {Empty}]
        /\ HeldBy(levels', IF to = "granted" THEN Holding ELSE Holding \ {r})
  BY <1>4
<1>6. /\ pc' \in [Receivers -> {"idle", "registering", "activated", "asking",
                                "granted", "finished", "panicked"}]
      /\ pc'[r] = to /\ \A p \in Receivers \ {r} : pc'[p] = pc[p]
  BY <1>1, <1>2, <1>5
<1>7. mailbox' \in Seq(Request) /\ RequestsTrue'
  BY <1>1, <1>5, <1>6, Taking DEF SharedInv
<1>8. TypeOK'
  BY <1>5, <1>6, <1>7 DEF SharedInv, TypeOK
<1>10. SendersTrue'
  <2> SUFFICES ASSUME NEW x \in Ids, senders[x] # None
               PROVE  /\ pc'[senders[x]] = "registering" /\ ~AskedIn(mailbox', senders[x])
                      /\ MessageId[senders[x]] = x
    BY <1>5 DEF SendersTrue, Sleeps, Asked
  <2>1. senders[x] \in Receivers
    BY <1>2
  <2>2. Sleeps(senders[x]) /\ MessageId[senders[x]] = x
    BY DEF SharedInv, SendersTrue
  <2>3. senders[x] # r
    BY <1>1, <2>2 DEF Sleeps
  <2> QED
    BY <1>1, <1>6, <2>1, <2>2, <2>3 DEF Sleeps
<1>11. /\ (IF to = "granted" THEN Holding ELSE Holding \ {r}) \subseteq Holding'
       /\ Holding' \in SUBSET Receivers
  <2>4. \A p \in Receivers :
          p \in Holding' <=> \/ pc'[p] \in {"activated", "asking", "granted"}
                             \/ pc'[p] = "finished" /\ AskedIn(mailbox', p)
    BY DEF Holding, Asked
  <2>1. ASSUME NEW p \in Holding, p # r
        PROVE  p \in Holding'
    BY <1>1, <1>6, <2>1, <2>4 DEF Holding
  <2>2. to = "granted" => r \in Holding'
    BY <1>1, <1>6 DEF Holding, Asked
  <2>3. Holding' \in SUBSET Receivers
    BY DEF Holding
  <2> QED
    BY <2>1, <2>2, <2>3
<1>12. HeldBy(levels', Holding')
  BY <1>3, <1>5, <1>11, HeldByMore
<1>13. HeldBy(levels, Holding)'
  BY <1>12 DEF HeldBy, Holds
<1> QED
  BY <1>1, <1>6, <1>7, <1>8, <1>10, <1>13 DEF SharedInv, WaitersMove

\* A receiver sends a request: register_priority from idle, get_priority once it is
\* woken or has a grant, unregister_priority when it ends.
Requests(r, kind, to, n, left) ==
  \/ kind = "Register" /\ pc[r] = "idle" /\ to = "registering" /\ left = n
  \/ kind = "Get" /\ pc[r] \in {"activated", "granted"} /\ to = "asking" /\ left = n
  \/ kind = "Unregister" /\ pc[r] = "granted" /\ to = "finished" /\ left = remaining[r]

Requesting(r, kind, to, n, left) ==
  /\ kind \in {"Register", "Get", "Unregister"}
  /\ n \in 0 .. MAX_REMAINING /\ left \in 1 .. MAX_REMAINING
  /\ Requests(r, kind, to, n, left)
  /\ pc' = [pc EXCEPT ![r] = to]
  /\ remaining' = [remaining EXCEPT ![r] = left]
  /\ Send(kind, r, n)
  /\ UNCHANGED managerVars

LEMMA ReceiverRequests ==
  ASSUME TypeOK, NEW r \in Receivers,
         \/ AskFirst(r)
         \/ Unregister(r)
         \/ \E n \in 1 .. MAX_REMAINING : Register(r, n) \/ AskNext(r, n)
  PROVE  \E kind, to, n, left : Requesting(r, kind, to, n, left)
<1>1. /\ remaining \in [Receivers -> 1 .. MAX_REMAINING] /\ MAX_REMAINING \in Nat
  BY PriorityAssumption DEF TypeOK
<1>2. /\ remaining[r] \in 1 .. MAX_REMAINING /\ 0 \in 0 .. MAX_REMAINING
      /\ 1 .. MAX_REMAINING \subseteq 0 .. MAX_REMAINING
      /\ remaining = [remaining EXCEPT ![r] = remaining[r]]
  BY <1>1
<1>3. ASSUME AskFirst(r)
      PROVE  Requesting(r, "Get", "asking", remaining[r], remaining[r])
  BY <1>2, <1>3 DEF AskFirst, Requesting, Requests
<1>4. ASSUME Unregister(r)
      PROVE  Requesting(r, "Unregister", "finished", 0, remaining[r])
  BY <1>2, <1>4 DEF Unregister, Requesting, Requests
<1>5. ASSUME NEW n \in 1 .. MAX_REMAINING, Register(r, n)
      PROVE  Requesting(r, "Register", "registering", n, n)
  BY <1>2, <1>5 DEF Register, Requesting, Requests
<1>6. ASSUME NEW n \in 1 .. MAX_REMAINING, AskNext(r, n)
      PROVE  Requesting(r, "Get", "asking", n, n)
  BY <1>2, <1>6 DEF AskNext, Requesting, Requests
<1> QED
  BY <1>3, <1>4, <1>5, <1>6

LEMMA RequestShared ==
  ASSUME SharedInv, NEW r \in Receivers, NEW kind, NEW to, NEW n, NEW left,
         Requesting(r, kind, to, n, left)
  PROVE  SharedInv'
<1> USE DEF Requesting, Requests
<1>1. /\ pc \in [Receivers -> {"idle", "registering", "activated", "asking",
                               "granted", "finished", "panicked"}]
      /\ remaining \in [Receivers -> 1 .. MAX_REMAINING]
      /\ senders \in [Ids -> Receivers \cup {None}]
      /\ pc[r] # "registering"
  BY DEF SharedInv, TypeOK
<1>2. ~Asked(r)
  BY QuietReceivers DEF SharedInv
<1>3. /\ pc'[r] = to /\ remaining'[r] = left
      /\ \A q \in Receivers \ {r} : pc'[q] = pc[q] /\ remaining'[q] = remaining[q]
  BY <1>1
<1>4. queue' = queue /\ senders' = senders /\ levels' = levels
  BY DEF managerVars
<1>5. /\ mailbox' \in Seq(Request)
      /\ RequestsTrue'
      /\ \A q \in Receivers : Asked(q)' <=> Asked(q) \/ q = r
  <2>1. /\ kind = "Register" => pc'[r] = "registering" /\ n = remaining'[r]
        /\ kind = "Get" => pc'[r] = "asking" /\ n = remaining'[r]
        /\ kind = "Unregister" => pc'[r] = "finished"
    BY <1>3
  <2> QED
    BY <1>2, <1>3, <2>1, Sending DEF SharedInv
<1>6. TypeOK'
  BY <1>1, <1>4, <1>5 DEF SharedInv, TypeOK
<1>7. SendersTrue'
  <2> SUFFICES ASSUME NEW x \in Ids, senders[x] # None
               PROVE  /\ pc'[senders[x]] = "registering" /\ ~AskedIn(mailbox', senders[x])
                      /\ MessageId[senders[x]] = x
    BY <1>4 DEF SendersTrue, Sleeps, Asked
  <2>1. senders[x] \in Receivers
    BY <1>1
  <2>2. Sleeps(senders[x]) /\ MessageId[senders[x]] = x
    BY DEF SharedInv, SendersTrue
  <2> QED
    BY <1>1, <1>3, <1>5, <2>1, <2>2 DEF Sleeps, Asked
<1>8. Holding \subseteq Holding' /\ Holding \in SUBSET Receivers /\ Holding' \in SUBSET Receivers
  BY <1>3, <1>5 DEF Holding
<1>9. HeldBy(levels, Holding')
  BY <1>8, HeldByMore DEF SharedInv
<1>10. HeldBy(levels, Holding)'
  BY <1>4, <1>9 DEF HeldBy, Holds
<1> QED
  BY <1>5, <1>6, <1>7, <1>10 DEF SharedInv

LEMMA InitShared ==
  ASSUME Init
  PROVE  SharedInv
<1> USE DEF Init
<1>1. /\ MAX_REMAINING \in 1 .. MAX_REMAINING
      /\ <<>> \in Seq(Request) /\ Len(mailbox) = 0
  BY PriorityAssumption
<1>2. TypeOK
  BY <1>1 DEF TypeOK
<1>3. RequestsTrue
  BY <1>1 DEF RequestsTrue
<1>4. SendersTrue
  BY DEF SendersTrue
<1>5. HeldBy(levels, Holding)
  <2> DEFINE nobody == [i \in Level |-> None]
  <2>1. nobody \in [Level -> Receivers \cup {None}]
    OBVIOUS
  <2>2. \A i \in Level : levels[i] = Empty
    OBVIOUS
  <2> HIDE DEF nobody
  <2>3. Holds(levels, Holding, nobody)
    BY <2>2 DEF Holds
  <2> QED
    BY <2>1, <2>3 DEF HeldBy
<1> QED
  BY <1>2, <1>3, <1>4, <1>5 DEF SharedInv

LEMMA HandleShared ==
  ASSUME SharedInv, Handle
  PROVE  SharedInv' /\ WaitersMove
<1>1. /\ mailbox # <<>> /\ mailbox' = Tail(mailbox)
      /\ \/ Head(mailbox).kind = "Register"   /\ HandleRegister(Head(mailbox))
         \/ Head(mailbox).kind = "Get"        /\ HandleGet(Head(mailbox))
         \/ Head(mailbox).kind = "Unregister" /\ HandleUnregister(Head(mailbox))
  BY DEF Handle
<1> QED
  BY <1>1, RegisterShared, GetShared, UnregisterShared

LEMMA NextShared ==
  ASSUME SharedInv, [Next]_vars
  PROVE  SharedInv'
<1>1. CASE Handle
  BY <1>1, HandleShared
<1>2. ASSUME NEW r \in Receivers,
             \/ AskFirst(r)
             \/ Unregister(r)
             \/ \E n \in 1 .. MAX_REMAINING : Register(r, n) \/ AskNext(r, n)
      PROVE  SharedInv'
  BY <1>2, ReceiverRequests, RequestShared DEF SharedInv
<1>3. CASE UNCHANGED vars
  <2>1. /\ pc' = pc /\ remaining' = remaining /\ mailbox' = mailbox
        /\ queue' = queue /\ senders' = senders /\ levels' = levels
    BY <1>3 DEF vars
  <2>2. TypeOK'
    BY <2>1 DEF SharedInv, TypeOK
  <2>3. RequestsTrue'
    BY <2>1 DEF SharedInv, RequestsTrue, Asked, AskedIn
  <2>4. SendersTrue'
    BY <2>1 DEF SharedInv, SendersTrue, Sleeps, Asked
  <2>5. Holding' = Holding
    BY <2>1 DEF Holding, Asked
  <2>6. HeldBy(levels, Holding)'
    BY <2>1, <2>5 DEF SharedInv, HeldBy, Holds
  <2> QED
    BY <2>2, <2>3, <2>4, <2>6 DEF SharedInv
<1> QED
  BY <1>1, <1>2, <1>3 DEF Next

\* An occupied level has a holder that uses it or has asked to give it back.
LEMMA HeldNotLeaked == SharedInv => NoLeakedLevel
<1> SUFFICES ASSUME SharedInv, NEW i \in Level, levels[i] # Empty
             PROVE  \E r \in Receivers :
                      /\ MessageId[r] = levels[i][1]
                      /\ \/ pc[r] \in {"activated", "asking", "granted"}
                         \/ \E k \in 1 .. Len(mailbox) :
                              mailbox[k].kind = "Unregister" /\ mailbox[k].receiver = r
  BY DEF NoLeakedLevel
<1>1. PICK r \in Holding : MessageId[r] = levels[i][1]
  BY DEF SharedInv, HeldBy, Holds
<1>2. CASE pc[r] \in {"activated", "asking", "granted"}
  BY <1>1, <1>2 DEF Holding
<1>3. CASE pc[r] = "finished" /\ Asked(r)
  <2>1. PICK k \in 1 .. Len(mailbox) : mailbox[k].receiver = r
    BY <1>3 DEF Asked, AskedIn
  <2>2. mailbox[k] \in Request
    BY ElementOfSeq DEF SharedInv, TypeOK
  <2>3. mailbox[k].kind = "Unregister"
    BY <1>3, <2>1, <2>2 DEF SharedInv, RequestsTrue, Request
  <2> QED
    BY <1>1, <2>1, <2>3 DEF Holding
<1> QED
  BY <1>1, <1>2, <1>3 DEF Holding

-----------------------------------------------------------------------------
(* Activation keeps the invariant *)

\* What the first half of a handler, which changes q, snd and lev and takes a
\* request from the mailbox, leaves to try_activate_messages.
Ready(q, snd, lev) ==
  /\ q \in SUBSET (Ids \X (1 .. MAX_REMAINING)) /\ IsFiniteSet(q)
  /\ snd \in [Ids -> Receivers \cup {None}]
  /\ lev \in [Level -> Occupied \cup {Empty}]
  /\ OneEach(lev)
  /\ \A e \in q : \E r \in Receivers :
       /\ e = <<MessageId[r], remaining[r]>>
       /\ pc[r] = "registering" /\ ~AskedIn(mailbox', r)
       /\ snd[MessageId[r]] = r
  /\ \A id \in Ids : snd[id] # None =>
       /\ pc[snd[id]] = "registering" /\ ~AskedIn(mailbox', snd[id])
       /\ MessageId[snd[id]] = id
  /\ \A r \in Receivers : pc[r] = "registering" =>
       \/ \E k \in 1 .. Len(mailbox') :
            mailbox'[k].kind = "Register" /\ mailbox'[k].receiver = r
       \/ /\ snd[MessageId[r]] = r
          /\ <<MessageId[r], remaining[r]>> \in q
  /\ \A r \in Receivers : Started(r) =>
       (HasLevel(lev, MessageId[r]) <=>
          \/ pc[r] \in {"activated", "asking", "granted"}
          \/ pc[r] = "finished" /\ AskedIn(mailbox', r))
  /\ \A i \in Level : lev[i] # Empty =>
       \E r \in Receivers : Started(r) /\ lev[i][1] = MessageId[r]
  /\ \A i \in Level : lev[i] # Empty =>
       \A r \in Receivers : Started(r) /\ lev[i][1] = MessageId[r] /\ pc[r] # "asking" =>
         lev[i][2] = remaining[r]

LEMMA ActivationKeeps ==
  ASSUME OwnIds, TypeOK, AlwaysAnswered, remaining' = remaining,
         NEW q, NEW snd, NEW lev, Ready(q, snd, lev), TryActivate(q, snd, lev, pc)
  PROVE  /\ Holders'
         /\ LevelsTrue'
         /\ QueueTrue'
         /\ NoLostWakeup'
         /\ AlwaysAnswered'
         /\ WorkConserving'
         /\ \A r \in Receivers :
              \/ pc'[r] = pc[r]
              \/ pc[r] = "registering" /\ ~AskedIn(mailbox', r) /\ pc'[r] = "activated"
         /\ \A r \in Receivers : pc[r] = "registering" /\ pc'[r] = "activated" =>
              \A e \in queue' : remaining[r] <= e[2]
<1> DEFINE entry(r) == <<MessageId[r], remaining[r]>>
<1>1. /\ MessageId \in [Receivers -> Ids]
      /\ remaining \in [Receivers -> 1 .. MAX_REMAINING]
      /\ None \notin Receivers
  BY PriorityAssumption DEF TypeOK
<1>2. \A r \in Receivers : entry(r)[1] = MessageId[r] /\ entry(r)[2] = remaining[r]
  OBVIOUS
<1>3. \A e \in q : \E r \in Receivers :
        e = entry(r) /\ pc[r] = "registering" /\ ~AskedIn(mailbox', r) /\ snd[MessageId[r]] = r
  BY DEF Ready
<1> HIDE DEF entry
<1>4. \A e \in q : snd[e[1]] # None
  BY <1>1, <1>2, <1>3
<1>5. \A e, f \in q : e[1] = f[1] => e = f
  BY <1>2, <1>3 DEF OwnIds, Started
<1>6. \A e \in q : ~HasLevel(lev, e[1])
  BY <1>2, <1>3 DEF Ready, Started
<1>0. /\ q \in SUBSET (Ids \X (1 .. MAX_REMAINING)) /\ IsFiniteSet(q)
      /\ snd \in [Ids -> Receivers \cup {None}]
      /\ lev \in [Level -> Occupied \cup {Empty}]
      /\ OneEach(lev)
  BY DEF Ready
<1>7. PICK act \in SUBSET q :
        /\ queue' = q \ act
        /\ senders' = [id \in Ids |-> IF \E e \in act : e[1] = id THEN None ELSE snd[id]]
        /\ pc' = [r \in Receivers |->
                    IF \E e \in act : snd[e[1]] = r THEN "activated" ELSE pc[r]]
        /\ levels' \in [Level -> Occupied \cup {Empty}]
        /\ OneEach(levels')
        /\ Sorted(levels')
        /\ \A i \in Level : levels'[i] # Empty =>
             levels'[i] \in act \/ \E j \in Level : levels'[i] = lev[j]
        /\ \A e \in act : \E i \in Level : levels'[i] = e
        /\ \A j \in Level : lev[j] # Empty => \E i \in Level : levels'[i] = lev[j]
        /\ \A e \in act, f \in q \ act : e[2] <= f[2]
        /\ EmptyPositions(levels') # {} => q \ act = {}
  <2>1. \E act \in SUBSET q : Activates(act, q, snd, lev)
    BY <1>0, <1>4, <1>5, <1>6, Activation
  <2> QED
    BY <2>1 DEF Activates
<1>8. \A e \in act : e # Empty
  BY <1>7, OccupiedNotEmpty DEF Ready
\* The receivers that are woken are those whose entry left the queue.
<1>9. \A r \in Receivers : (\E e \in act : snd[e[1]] = r) <=>
        entry(r) \in act /\ pc[r] = "registering" /\ ~AskedIn(mailbox', r)
  <2>1. ASSUME NEW r \in Receivers, NEW e \in act, snd[e[1]] = r
        PROVE  entry(r) \in act /\ pc[r] = "registering" /\ ~AskedIn(mailbox', r)
    <3>1. PICK p \in Receivers :
            e = entry(p) /\ pc[p] = "registering" /\ ~AskedIn(mailbox', p) /\ snd[MessageId[p]] = p
      BY <1>3, <1>7, <2>1
    <3>2. p = r
      BY <1>2, <2>1, <3>1
    <3> QED
      BY <2>1, <3>1, <3>2
  <2>2. ASSUME NEW r \in Receivers, entry(r) \in act, pc[r] = "registering"
        PROVE  \E e \in act : snd[e[1]] = r
    <3>1. PICK p \in Receivers :
            entry(r) = entry(p) /\ pc[p] = "registering" /\ snd[MessageId[p]] = p
      BY <1>3, <1>7, <2>2
    <3>2. p = r
      BY <1>2, <2>2, <3>1 DEF OwnIds, Started
    <3> QED
      BY <1>2, <2>2, <3>1, <3>2
  <2> QED
    BY <2>1, <2>2
<1>10. \A r \in Receivers :
         pc'[r] = IF entry(r) \in act /\ pc[r] = "registering" /\ ~AskedIn(mailbox', r)
                  THEN "activated" ELSE pc[r]
  BY <1>7, <1>9
\* An entry of act belongs to the receiver whose id it has.
<1>12. \A e \in act : \A r \in Receivers : Started(r) /\ e[1] = MessageId[r] =>
         e = entry(r) /\ pc[r] = "registering" /\ ~AskedIn(mailbox', r)
  BY <1>2, <1>3, <1>7 DEF OwnIds, Started
<1>21. \A r \in Receivers : Started(r)' <=> Started(r)
  BY <1>10 DEF Started
<1>13. Holders'
  <2> SUFFICES ASSUME NEW r \in Receivers, Started(r)
               PROVE  HasLevel(levels', MessageId[r]) <=>
                        \/ pc'[r] \in {"activated", "asking", "granted"}
                        \/ pc'[r] = "finished" /\ AskedIn(mailbox', r)
    BY <1>21 DEF Holders, Asked
  <2>1. HasLevel(levels', MessageId[r]) <=>
          HasLevel(lev, MessageId[r]) \/ \E e \in act : e[1] = MessageId[r]
    BY <1>7, <1>8 DEF HasLevel
  <2>2. (\E e \in act : e[1] = MessageId[r]) <=>
          entry(r) \in act /\ pc[r] = "registering" /\ ~AskedIn(mailbox', r)
    BY <1>2, <1>12
  <2>3. HasLevel(lev, MessageId[r]) <=>
          \/ pc[r] \in {"activated", "asking", "granted"}
          \/ pc[r] = "finished" /\ AskedIn(mailbox', r)
    BY DEF Ready
  <2> QED
    BY <1>10, <2>1, <2>2, <2>3
<1>14. LevelsTrue'
  <2>1. ASSUME NEW i \in Level, levels'[i] # Empty
        PROVE  /\ \E r \in Receivers : Started(r) /\ levels'[i][1] = MessageId[r]
               /\ \A r \in Receivers :
                    Started(r) /\ levels'[i][1] = MessageId[r] /\ pc'[r] # "asking" =>
                      levels'[i][2] = remaining[r]
    <3>1. CASE levels'[i] \in act
      BY <1>2, <1>3, <1>7, <1>12, <3>1 DEF Started
    <3>2. CASE \E j \in Level : levels'[i] = lev[j]
      <4>1. PICK j \in Level : levels'[i] = lev[j]
        BY <3>2
      <4>2. \E r \in Receivers : Started(r) /\ lev[j][1] = MessageId[r]
        BY <2>1, <4>1 DEF Ready
      <4>3. \A r \in Receivers : pc[r] = "asking" => pc'[r] = "asking"
        BY <1>10
      <4>4. \A r \in Receivers : Started(r) /\ lev[j][1] = MessageId[r] /\ pc[r] # "asking" =>
              lev[j][2] = remaining[r]
        BY <2>1, <4>1 DEF Ready
      <4> QED
        BY <4>1, <4>2, <4>3, <4>4
    <3> QED
      BY <1>7, <2>1, <3>1, <3>2
  <2> QED
    BY <1>7, <1>21, <2>1 DEF LevelsTrue
<1>15. \A r \in Receivers : entry(r) \in q \ act => pc'[r] = pc[r]
  BY <1>10
<1>16. QueueTrue'
  <2>1. IsFiniteSet(queue')
    BY <1>7, FS_Subset DEF Ready
  <2>2. ASSUME NEW e \in queue'
        PROVE  \E r \in Receivers :
                 /\ e = entry(r)
                 /\ pc'[r] = "registering" /\ ~AskedIn(mailbox', r)
                 /\ senders'[MessageId[r]] = r
    <3>1. PICK r \in Receivers :
            e = entry(r) /\ pc[r] = "registering" /\ ~AskedIn(mailbox', r) /\ snd[MessageId[r]] = r
      BY <1>3, <1>7, <2>2
    <3>2. ~ \E f \in act : f[1] = MessageId[r]
      BY <1>2, <1>7, <1>12, <2>2, <3>1 DEF Started
    <3>3. senders'[MessageId[r]] = r
      BY <1>1, <1>7, <3>1, <3>2
    <3> QED
      BY <1>7, <1>15, <2>2, <3>1, <3>3
  <2> QED
    BY <2>1, <2>2 DEF QueueTrue, Sleeps, Asked, entry
<1>17. NoLostWakeup'
  <2> SUFFICES ASSUME NEW r \in Receivers, pc'[r] = "registering"
               PROVE  \/ \E k \in 1 .. Len(mailbox') :
                           mailbox'[k].kind = "Register" /\ mailbox'[k].receiver = r
                      \/ /\ senders'[MessageId[r]] = r
                         /\ entry(r) \in queue'
    BY DEF NoLostWakeup, entry
  <2>1. pc[r] = "registering" /\ ~(entry(r) \in act /\ ~AskedIn(mailbox', r))
    BY <1>10
  <2>2. CASE \E k \in 1 .. Len(mailbox') :
               mailbox'[k].kind = "Register" /\ mailbox'[k].receiver = r
    BY <2>2
  <2>3. CASE snd[MessageId[r]] = r /\ entry(r) \in q
    <3>1. ~AskedIn(mailbox', r)
      BY <1>1, <2>3 DEF Ready
    <3>2. entry(r) \in queue' /\ ~ \E e \in act : e[1] = MessageId[r]
      BY <1>7, <1>12, <2>1, <2>3, <3>1 DEF Started
    <3> QED
      BY <1>1, <1>7, <2>3, <3>2
  <2> QED
    BY <2>1, <2>2, <2>3 DEF Ready, entry
<1>18. AlwaysAnswered'
  BY <1>10 DEF AlwaysAnswered
<1>19. WorkConserving'
  BY <1>7 DEF WorkConserving
<1>20. ASSUME NEW r \in Receivers, pc[r] = "registering", pc'[r] = "activated"
       PROVE  \A e \in queue' : remaining[r] <= e[2]
  BY <1>2, <1>7, <1>10, <1>20
<1> QED
  BY <1>10, <1>13, <1>14, <1>16, <1>17, <1>18, <1>19, <1>20

-----------------------------------------------------------------------------
(* Steps of the receivers *)

LEMMA RequestKeeps ==
  ASSUME OwnIds, OwnIds', IInv, SharedInv', NEW r \in Receivers,
         NEW kind, NEW to, NEW n, NEW left, Requesting(r, kind, to, n, left)
  PROVE  /\ IInv'
         /\ \A q \in Receivers : ~(pc[q] = "registering" /\ pc'[q] = "activated")
<1> USE DEF Requesting, Requests
<1>1. /\ pc \in [Receivers -> {"idle", "registering", "activated", "asking",
                               "granted", "finished", "panicked"}]
      /\ remaining \in [Receivers -> 1 .. MAX_REMAINING]
      /\ MessageId \in [Receivers -> Ids]
      /\ pc[r] # "registering"
  BY PriorityAssumption DEF IInv, SharedInv, TypeOK
<1>2. ~Asked(r)
  BY QuietReceivers DEF IInv, SharedInv
<1>3. /\ pc'[r] = to /\ remaining'[r] = left
      /\ \A q \in Receivers \ {r} : pc'[q] = pc[q] /\ remaining'[q] = remaining[q]
      /\ Started(r)'
      /\ \A q \in Receivers \ {r} : Started(q)' <=> Started(q)
  BY <1>1 DEF Started
<1>4. /\ queue' = queue /\ senders' = senders /\ levels' = levels
  BY DEF managerVars
<1>5. /\ mailbox' \in Seq(Request)
      /\ RequestsTrue'
      /\ \A q \in Receivers : Asked(q)' <=> Asked(q) \/ q = r
      /\ \A q \in Receivers \ {r} :
           (\E k \in 1 .. Len(mailbox) :
              mailbox[k].kind = "Register" /\ mailbox[k].receiver = q)
           => (\E k \in 1 .. Len(mailbox') :
                 mailbox'[k].kind = "Register" /\ mailbox'[k].receiver = q)
      /\ \E k \in 1 .. Len(mailbox') : mailbox'[k].kind = kind /\ mailbox'[k].receiver = r
  <2>1. /\ kind \in {"Register", "Get", "Unregister"}
        /\ kind = "Register" => pc'[r] = "registering" /\ n = remaining'[r]
        /\ kind = "Get" => pc'[r] = "asking" /\ n = remaining'[r]
        /\ kind = "Unregister" => pc'[r] = "finished"
    BY <1>3
  <2> QED
    BY <1>2, <1>3, <2>1, Sending DEF IInv, SharedInv
\* A receiver that registers has no level yet: the levels are those of others.
<1>14. pc[r] = "idle" => ~HasLevel(levels, MessageId[r])
  <2> SUFFICES ASSUME pc[r] = "idle", NEW i \in Level,
                      levels[i] # Empty, levels[i][1] = MessageId[r]
               PROVE  FALSE
    BY DEF HasLevel
  <2>1. PICK q \in Receivers : Started(q) /\ MessageId[q] = MessageId[r]
    BY DEF IInv, LevelsTrue
  <2>2. q # r /\ Started(q)'
    BY <1>3, <2>1 DEF Started
  <2> QED
    BY <1>3, <2>1, <2>2 DEF OwnIds
<1>7. Holders'
  <2> SUFFICES ASSUME NEW q \in Receivers, Started(q)'
               PROVE  HasLevel(levels, MessageId[q]) <=>
                        \/ pc'[q] \in {"activated", "asking", "granted"}
                        \/ pc'[q] = "finished" /\ Asked(q)'
    BY <1>4 DEF Holders
  <2>1. Started(q) =>
          (HasLevel(levels, MessageId[q]) <=>
             \/ pc[q] \in {"activated", "asking", "granted"}
             \/ pc[q] = "finished" /\ Asked(q))
    BY DEF IInv, Holders
  <2>2. CASE q = r
    BY <1>3, <1>5, <1>14, <2>1, <2>2 DEF Started
  <2>3. CASE q # r
    BY <1>3, <1>5, <2>1, <2>3
  <2> QED
    BY <2>2, <2>3
<1>8. LevelsTrue'
  <2>1. ASSUME NEW i \in Level, levels[i] # Empty, NEW q \in Receivers, Started(q)',
               levels[i][1] = MessageId[q], pc'[q] # "asking"
        PROVE  levels[i][2] = remaining'[q]
    <3>1. CASE q # r
      BY <1>3, <2>1, <3>1 DEF IInv, LevelsTrue
    <3>2. CASE q = r
      <4>1. HasLevel(levels, MessageId[r])
        BY <2>1, <3>2 DEF HasLevel
      <4>2. pc[r] # "idle"
        BY <1>14, <4>1
      <4> QED
        BY <1>3, <2>1, <3>2, <4>2 DEF IInv, LevelsTrue, Started
    <3> QED
      BY <3>1, <3>2
  <2>2. ASSUME NEW i \in Level, levels[i] # Empty
        PROVE  \E q \in Receivers : Started(q)' /\ levels[i][1] = MessageId[q]
    BY <1>3, <2>2 DEF IInv, LevelsTrue
  <2> QED
    BY <1>4, <2>1, <2>2 DEF IInv, LevelsTrue
<1>9. \A q \in Receivers : Sleeps(q) => q # r /\ Sleeps(q)' /\ remaining'[q] = remaining[q]
  BY <1>1, <1>3, <1>5 DEF Sleeps
<1>10. QueueTrue'
  <2>1. ASSUME NEW e \in queue
        PROVE  \E q \in Receivers :
                 /\ e = <<MessageId[q], remaining'[q]>>
                 /\ Sleeps(q)'
                 /\ senders[MessageId[q]] = q
    BY <1>9 DEF IInv, QueueTrue
  <2> QED
    BY <1>4, <2>1 DEF IInv, QueueTrue, Sleeps, Asked
<1>11. NoLostWakeup'
  <2> SUFFICES ASSUME NEW q \in Receivers, pc'[q] = "registering"
               PROVE  \/ \E k \in 1 .. Len(mailbox') :
                           mailbox'[k].kind = "Register" /\ mailbox'[k].receiver = q
                      \/ /\ senders[MessageId[q]] = q
                         /\ <<MessageId[q], remaining'[q]>> \in queue
    BY <1>4 DEF NoLostWakeup
  <2>1. CASE q = r
    BY <1>3, <1>5, <2>1
  <2>2. CASE q # r
    <3>1. pc[q] = "registering" /\ remaining'[q] = remaining[q]
      BY <1>3, <2>2
    <3>2. \/ \E k \in 1 .. Len(mailbox) :
               mailbox[k].kind = "Register" /\ mailbox[k].receiver = q
          \/ /\ senders[MessageId[q]] = q
             /\ <<MessageId[q], remaining[q]>> \in queue
      BY <3>1 DEF IInv, NoLostWakeup
    <3> QED
      BY <1>5, <2>2, <3>1, <3>2
  <2> QED
    BY <2>1, <2>2
<1>12. AlwaysAnswered'
  BY <1>3 DEF IInv, AlwaysAnswered
<1>13. WorkConserving'
  BY <1>4 DEF IInv, WorkConserving
<1> QED
  BY <1>3, <1>7, <1>8, <1>10, <1>11, <1>12, <1>13 DEF IInv

-----------------------------------------------------------------------------
(* Steps of the actor *)

\* A handler that ends in try_activate_messages.
LEMMA ActivatingHandler ==
  ASSUME OwnIds, IInv, SharedInv', remaining' = remaining,
         NEW q, NEW snd, NEW lev, Ready(q, snd, lev), TryActivate(q, snd, lev, pc)
  PROVE  /\ IInv'
         /\ \A r \in Receivers : pc[r] = "registering" /\ pc'[r] = "activated" =>
              \A e \in queue' : remaining[r] <= e[2]
  BY ActivationKeeps DEF IInv, SharedInv

LEMMA RegisterHandled ==
  ASSUME OwnIds, IInv, SharedInv', mailbox # <<>>, mailbox' = Tail(mailbox),
         NEW m, m = Head(mailbox), m.kind = "Register", HandleRegister(m)
  PROVE  /\ IInv'
         /\ \A r \in Receivers : pc[r] = "registering" /\ pc'[r] = "activated" =>
              \A e \in queue' : remaining[r] <= e[2]
<1> DEFINE r == m.receiver
           id == MessageId[r]
           entry == <<id, m.remaining>>
           snd == [senders EXCEPT ![id] = r]
<1>1. /\ r \in Receivers /\ Asked(r)
      /\ pc[r] = "registering" /\ m.remaining = remaining[r]
  BY TakenRequest DEF IInv
<1>2. /\ MessageId \in [Receivers -> Ids] /\ None \notin Receivers
      /\ remaining \in [Receivers -> 1 .. MAX_REMAINING]
      /\ senders \in [Ids -> Receivers \cup {None}]
      /\ levels \in [Level -> Occupied \cup {Empty}]
      /\ pc \in [Receivers -> {"idle", "registering", "activated", "asking",
                               "granted", "finished", "panicked"}]
  BY PriorityAssumption DEF IInv, SharedInv, TypeOK
<1>3. /\ snd \in [Ids -> Receivers \cup {None}] /\ snd[id] = r
      /\ \A x \in Ids \ {id} : snd[x] = senders[x]
  BY <1>1, <1>2
\* No message is registered under the same id, so nobody is woken by its sender.
<1>4. senders[id] = None
  <2>1. ASSUME senders[id] # None PROVE FALSE
    <3>1. Sleeps(senders[id]) /\ MessageId[senders[id]] = id /\ senders[id] \in Receivers
      BY <1>1, <1>2, <2>1 DEF IInv, SharedInv, SendersTrue
    <3>2. senders[id] = r
      BY <1>1, <3>1 DEF OwnIds, Started, Sleeps
    <3> QED
      BY <1>1, <3>1, <3>2 DEF Sleeps
  <2> QED
    BY <2>1
<1>5. [q \in Receivers |-> IF q = senders[id] THEN "activated" ELSE pc[q]] = pc
  BY <1>2, <1>4
<1>6. TryActivate(queue \cup {entry}, snd, levels, pc) /\ remaining' = remaining
  <2>1. /\ TryActivate(queue \cup {entry}, snd, levels,
                       [q \in Receivers |-> IF q = senders[id] THEN "activated" ELSE pc[q]])
        /\ remaining' = remaining
    BY DEF HandleRegister
  <2> HIDE DEF entry, snd
  <2> QED
    BY <1>5, <2>1
<1>7. \A q \in Receivers : Sleeps(q) => q # r /\ MessageId[q] # id /\ ~AskedIn(mailbox', q)
  BY <1>1, TakenAsked DEF IInv, SharedInv, OwnIds, Started, Sleeps, Asked
<1>8. ~AskedIn(mailbox', r)
  BY <1>1, TakenAsked DEF IInv, SharedInv, Asked
<1>9. \A q \in Receivers \ {r} : AskedIn(mailbox', q) <=> Asked(q)
  BY TakenAsked DEF IInv, SharedInv, Asked
<1>10. Ready(queue \cup {entry}, snd, levels)
  <2>1. /\ queue \cup {entry} \in SUBSET (Ids \X (1 .. MAX_REMAINING))
        /\ IsFiniteSet(queue \cup {entry})
    <3>1. entry \in Ids \X (1 .. MAX_REMAINING)
      BY <1>1, <1>2
    <3>2. queue \subseteq Ids \X (1 .. MAX_REMAINING) /\ IsFiniteSet(queue)
      BY DEF IInv, SharedInv, TypeOK, QueueTrue
    <3> HIDE DEF entry
    <3> QED
      BY <3>1, <3>2, FS_AddElement
  <2>2. ASSUME NEW e \in queue \cup {entry}
        PROVE  \E q \in Receivers :
                 /\ e = <<MessageId[q], remaining[q]>>
                 /\ pc[q] = "registering" /\ ~AskedIn(mailbox', q)
                 /\ snd[MessageId[q]] = q
    <3>1. CASE e = entry
      BY <1>1, <1>3, <1>8, <3>1
    <3>2. CASE e \in queue
      <4>1. PICK q \in Receivers :
              e = <<MessageId[q], remaining[q]>> /\ Sleeps(q) /\ senders[MessageId[q]] = q
        BY <3>2 DEF IInv, QueueTrue
      <4>2. snd[MessageId[q]] = q
        BY <1>2, <1>3, <1>7, <4>1
      <4> QED
        BY <1>7, <4>1, <4>2 DEF Sleeps
    <3> QED
      BY <3>1, <3>2
  <2>3. ASSUME NEW x \in Ids, snd[x] # None
        PROVE  /\ pc[snd[x]] = "registering" /\ ~AskedIn(mailbox', snd[x])
               /\ MessageId[snd[x]] = x
    <3>1. CASE x = id
      BY <1>1, <1>3, <1>8, <3>1
    <3>2. CASE x # id
      <4>1. snd[x] = senders[x] /\ senders[x] \in Receivers
        BY <1>2, <1>3, <2>3, <3>2
      <4>2. Sleeps(senders[x]) /\ MessageId[senders[x]] = x
        BY <2>3, <4>1 DEF IInv, SharedInv, SendersTrue
      <4> QED
        BY <1>7, <4>1, <4>2 DEF Sleeps
    <3> QED
      BY <3>1, <3>2
  <2>4. ASSUME NEW q \in Receivers, pc[q] = "registering"
        PROVE  \/ \E k \in 1 .. Len(mailbox') :
                    mailbox'[k].kind = "Register" /\ mailbox'[k].receiver = q
               \/ /\ snd[MessageId[q]] = q
                  /\ <<MessageId[q], remaining[q]>> \in queue \cup {entry}
    <3>1. CASE q = r
      BY <1>1, <1>3, <3>1
    <3>2. CASE q # r
      <4>1. MessageId[q] # id /\ MessageId[q] \in Ids
        BY <1>1, <1>2, <2>4, <3>2 DEF OwnIds, Started
      <4>2. (\E k \in 1 .. Len(mailbox) :
               mailbox[k].kind = "Register" /\ mailbox[k].receiver = q)
            => (\E k \in 1 .. Len(mailbox') :
                  mailbox'[k].kind = "Register" /\ mailbox'[k].receiver = q)
        BY <3>2, TakenAsked DEF IInv, SharedInv
      <4>3. \/ \E k \in 1 .. Len(mailbox) :
                 mailbox[k].kind = "Register" /\ mailbox[k].receiver = q
            \/ /\ senders[MessageId[q]] = q
               /\ <<MessageId[q], remaining[q]>> \in queue
        BY <2>4 DEF IInv, NoLostWakeup
      <4> QED
        BY <1>3, <4>1, <4>2, <4>3
    <3> QED
      BY <3>1, <3>2
  <2>5. ASSUME NEW q \in Receivers, Started(q)
        PROVE  HasLevel(levels, MessageId[q]) <=>
                 \/ pc[q] \in {"activated", "asking", "granted"}
                 \/ pc[q] = "finished" /\ AskedIn(mailbox', q)
    BY <1>1, <1>9, <2>5 DEF IInv, Holders
  <2> HIDE DEF entry, snd
  <2> QED
    BY <1>2, <1>3, <2>1, <2>2, <2>3, <2>4, <2>5 DEF IInv, LevelsTrue, Ready
<1> HIDE DEF entry, snd
<1> QED
  BY <1>1, <1>6, <1>10, ActivatingHandler

LEMMA UnregisterHandled ==
  ASSUME OwnIds, IInv, SharedInv', mailbox # <<>>, mailbox' = Tail(mailbox),
         NEW m, m = Head(mailbox), m.kind = "Unregister", HandleUnregister(m)
  PROVE  /\ IInv'
         /\ \A r \in Receivers : pc[r] = "registering" /\ pc'[r] = "activated" =>
              \A e \in queue' : remaining[r] <= e[2]
<1> DEFINE r == m.receiver
           id == MessageId[r]
<1>1. r \in Receivers /\ Asked(r) /\ pc[r] = "finished"
  BY TakenRequest DEF IInv
<1>2. levels \in [Level -> Occupied \cup {Empty}]
  BY DEF IInv, SharedInv, TypeOK
<1>3. Positions(levels, id) # {}
  <2>1. HasLevel(levels, id)
    BY <1>1 DEF IInv, Holders, Started
  <2> QED
    BY <2>1 DEF HasLevel, Positions
<1>4. PICK i \in Level :
        /\ IsMessagePosition(levels, id, i)
        /\ TryActivate(queue, senders, [levels EXCEPT ![i] = Empty], pc)
        /\ remaining' = remaining
  BY <1>3 DEF HandleUnregister
<1> DEFINE lev == [levels EXCEPT ![i] = Empty]
<1>5. levels[i] # Empty /\ levels[i][1] = id
  BY <1>4 DEF IsMessagePosition, Positions
<1>6. /\ lev \in [Level -> Occupied \cup {Empty}]
      /\ lev[i] = Empty
      /\ \A j \in Level \ {i} : lev[j] = levels[j]
  BY <1>2
<1> HIDE DEF lev
<1>7. \A q \in Receivers \ {r} : AskedIn(mailbox', q) <=> Asked(q)
  BY TakenAsked DEF IInv, SharedInv, Asked
<1>8. ~AskedIn(mailbox', r)
  BY <1>1, TakenAsked DEF IInv, SharedInv, Asked
<1>9. \A j \in Level : lev[j] # Empty => j # i /\ lev[j] = levels[j] /\ levels[j] # Empty
  BY <1>6
<1>10. Ready(queue, senders, lev)
  <2>1. /\ queue \in SUBSET (Ids \X (1 .. MAX_REMAINING)) /\ IsFiniteSet(queue)
        /\ senders \in [Ids -> Receivers \cup {None}]
        /\ OneEach(lev)
    BY <1>9 DEF IInv, SharedInv, TypeOK, QueueTrue, LevelsTrue, OneEach
  <2>2. \A q \in Receivers : Sleeps(q) => pc[q] = "registering" /\ ~AskedIn(mailbox', q)
    BY <1>1, <1>7 DEF Sleeps
  <2>3. \A e \in queue : \E q \in Receivers :
          /\ e = <<MessageId[q], remaining[q]>>
          /\ pc[q] = "registering" /\ ~AskedIn(mailbox', q)
          /\ senders[MessageId[q]] = q
    BY <2>2 DEF IInv, QueueTrue
  <2>4. ASSUME NEW x \in Ids, senders[x] # None
        PROVE  /\ pc[senders[x]] = "registering" /\ ~AskedIn(mailbox', senders[x])
               /\ MessageId[senders[x]] = x
    BY <2>1, <2>2, <2>4 DEF IInv, SharedInv, SendersTrue
  <2>5. ASSUME NEW q \in Receivers, pc[q] = "registering"
        PROVE  \/ \E k \in 1 .. Len(mailbox') :
                    mailbox'[k].kind = "Register" /\ mailbox'[k].receiver = q
               \/ /\ senders[MessageId[q]] = q
                  /\ <<MessageId[q], remaining[q]>> \in queue
    <3>1. q # r
      BY <1>1, <2>5
    <3>2. (\E k \in 1 .. Len(mailbox) :
             mailbox[k].kind = "Register" /\ mailbox[k].receiver = q)
          => (\E k \in 1 .. Len(mailbox') :
                mailbox'[k].kind = "Register" /\ mailbox'[k].receiver = q)
      BY <3>1, TakenAsked DEF IInv, SharedInv
    <3>3. \/ \E k \in 1 .. Len(mailbox) :
               mailbox[k].kind = "Register" /\ mailbox[k].receiver = q
          \/ /\ senders[MessageId[q]] = q
             /\ <<MessageId[q], remaining[q]>> \in queue
      BY <2>5 DEF IInv, NoLostWakeup
    <3> QED
      BY <3>2, <3>3
  <2>6. ASSUME NEW q \in Receivers, Started(q)
        PROVE  HasLevel(lev, MessageId[q]) <=>
                 \/ pc[q] \in {"activated", "asking", "granted"}
                 \/ pc[q] = "finished" /\ AskedIn(mailbox', q)
    <3>1. HasLevel(levels, MessageId[q]) <=>
            \/ pc[q] \in {"activated", "asking", "granted"}
            \/ pc[q] = "finished" /\ Asked(q)
      BY <2>6 DEF IInv, Holders
    <3>2. CASE q = r
      <4>1. ~HasLevel(lev, id)
        BY <1>5, <1>9 DEF IInv, LevelsTrue, OneEach, HasLevel
      <4> QED
        BY <1>1, <1>8, <3>2, <4>1
    <3>3. CASE q # r
      <4>1. MessageId[q] # id
        BY <1>1, <2>6, <3>3 DEF OwnIds, Started
      <4>2. HasLevel(lev, MessageId[q]) <=> HasLevel(levels, MessageId[q])
        BY <1>5, <1>6, <1>9, <4>1 DEF HasLevel
      <4> QED
        BY <1>7, <3>1, <3>3, <4>2
    <3> QED
      BY <3>2, <3>3
  <2>7. \A j \in Level : lev[j] # Empty =>
          \E q \in Receivers : Started(q) /\ lev[j][1] = MessageId[q]
    BY <1>9 DEF IInv, LevelsTrue
  <2>8. \A j \in Level : lev[j] # Empty =>
          \A q \in Receivers : Started(q) /\ lev[j][1] = MessageId[q] /\ pc[q] # "asking" =>
            lev[j][2] = remaining[q]
    BY <1>9 DEF IInv, LevelsTrue
  <2> QED
    BY <1>6, <2>1, <2>3, <2>4, <2>5, <2>6, <2>7, <2>8 DEF Ready
<1>11. TryActivate(queue, senders, lev, pc)
  BY <1>4 DEF lev
<1> QED
  BY <1>1, <1>4, <1>10, <1>11, ActivatingHandler

LEMMA GetHandled ==
  ASSUME OwnIds, IInv, SharedInv', mailbox # <<>>, mailbox' = Tail(mailbox),
         NEW m, m = Head(mailbox), m.kind = "Get", HandleGet(m)
  PROVE  /\ IInv'
         /\ \A q \in Receivers : ~(pc[q] = "registering" /\ pc'[q] = "activated")
<1> DEFINE r == m.receiver
           id == MessageId[r]
<1>1. r \in Receivers /\ Asked(r) /\ pc[r] = "asking" /\ m.remaining = remaining[r]
  BY TakenRequest DEF IInv
<1>2. /\ levels \in [Level -> Occupied \cup {Empty}]
      /\ MessageId \in [Receivers -> Ids]
      /\ remaining \in [Receivers -> 1 .. MAX_REMAINING]
      /\ pc \in [Receivers -> {"idle", "registering", "activated", "asking",
                               "granted", "finished", "panicked"}]
  BY PriorityAssumption DEF IInv, SharedInv, TypeOK
\* A receiver that asks has a level, so it is answered.
<1>3. Positions(levels, id) # {}
  <2>1. HasLevel(levels, id)
    BY <1>1 DEF IInv, Holders, Started
  <2> QED
    BY <2>1 DEF HasLevel, Positions
<1>4. PICK i \in Level :
        /\ IsMessagePosition(levels, id, i)
        /\ levels' \in SortPriorityLevels([levels EXCEPT ![i] = <<id, m.remaining>>])
        /\ pc' = [pc EXCEPT ![r] = "granted"]
        /\ remaining' = remaining /\ queue' = queue /\ senders' = senders
  BY <1>3 DEF HandleGet
<1> DEFINE entry == <<id, m.remaining>>
           lev == [levels EXCEPT ![i] = entry]
<1>5. levels[i] # Empty /\ levels[i][1] = id
  BY <1>4 DEF IsMessagePosition, Positions
<1>6. entry[1] = id /\ entry[2] = remaining[r] /\ entry \in Occupied /\ entry # Empty
  <2>1. entry \in Ids \X (1 .. MAX_REMAINING)
    BY <1>1, <1>2
  <2> QED
    BY <1>1, <2>1, OccupiedNotEmpty
<1>7. levels' \in SortPriorityLevels(lev)
  BY <1>4
<1> HIDE DEF entry
<1>8. /\ lev \in [Level -> Occupied \cup {Empty}]
      /\ lev[i] = entry
      /\ \A j \in Level \ {i} : lev[j] = levels[j]
  BY <1>2, <1>6
<1> HIDE DEF lev
<1>9. \A j \in Level : (lev[j] # Empty <=> levels[j] # Empty)
                       /\ (lev[j] # Empty => lev[j][1] = levels[j][1])
  BY <1>5, <1>6, <1>8
<1>10. OneEach(lev)
  BY <1>9 DEF IInv, LevelsTrue, OneEach
<1>11. /\ levels' \in [Level -> Occupied \cup {Empty}]
       /\ Sorted(levels') /\ OneEach(levels')
       /\ \A k \in Level : \E j \in Level : levels'[k] = lev[j]
       /\ \A j \in Level : \E k \in Level : levels'[k] = lev[j]
  BY <1>7, <1>8, <1>10, SortKeeps
<1>12. /\ pc'[r] = "granted"
       /\ \A q \in Receivers \ {r} : pc'[q] = pc[q]
       /\ \A q \in Receivers : Started(q)' <=> Started(q)
  BY <1>1, <1>2, <1>4 DEF Started
<1>14. \A q \in Receivers : Asked(q)' <=> Asked(q) /\ q # r
  BY TakenAsked DEF IInv, SharedInv
<1>16. Holders'
  <2> SUFFICES ASSUME NEW q \in Receivers, Started(q)
               PROVE  HasLevel(levels', MessageId[q]) <=>
                        \/ pc'[q] \in {"activated", "asking", "granted"}
                        \/ pc'[q] = "finished" /\ Asked(q)'
    BY <1>12 DEF Holders
  <2>1. HasLevel(levels', MessageId[q]) <=> HasLevel(levels, MessageId[q])
    <3>1. ASSUME NEW k \in Level, levels'[k] # Empty, levels'[k][1] = MessageId[q]
          PROVE  HasLevel(levels, MessageId[q])
      <4>1. PICK j \in Level : levels'[k] = lev[j]
        BY <1>11
      <4> QED
        BY <1>9, <3>1, <4>1 DEF HasLevel
    <3>2. ASSUME NEW j \in Level, levels[j] # Empty, levels[j][1] = MessageId[q]
          PROVE  HasLevel(levels', MessageId[q])
      <4>1. PICK k \in Level : levels'[k] = lev[j]
        BY <1>11
      <4>2. lev[j] # Empty /\ lev[j][1] = levels[j][1]
        BY <1>9, <3>2
      <4> QED
        BY <3>2, <4>1, <4>2 DEF HasLevel
    <3> QED
      BY <3>1, <3>2 DEF HasLevel
  <2>2. HasLevel(levels, MessageId[q]) <=>
          \/ pc[q] \in {"activated", "asking", "granted"}
          \/ pc[q] = "finished" /\ Asked(q)
    BY DEF IInv, Holders
  <2> QED
    BY <1>1, <1>12, <1>14, <2>1, <2>2
<1>17. LevelsTrue'
  <2>1. ASSUME NEW k \in Level, levels'[k] # Empty
        PROVE  /\ \E q \in Receivers : Started(q) /\ levels'[k][1] = MessageId[q]
               /\ \A q \in Receivers :
                    Started(q) /\ levels'[k][1] = MessageId[q] /\ pc'[q] # "asking" =>
                      levels'[k][2] = remaining[q]
    <3>1. PICK j \in Level : levels'[k] = lev[j]
      BY <1>11
    <3>2. levels[j] # Empty /\ levels'[k][1] = levels[j][1]
      BY <1>9, <2>1, <3>1
    <3>3. CASE j = i
      BY <1>1, <1>5, <1>6, <1>8, <3>1, <3>3 DEF OwnIds, Started
    <3>4. CASE j # i
      <4>1. levels'[k] = levels[j] /\ levels[j][1] # id
        BY <1>5, <1>8, <3>1, <3>2, <3>4 DEF IInv, LevelsTrue, OneEach
      <4> QED
        BY <1>12, <3>2, <4>1 DEF IInv, LevelsTrue
    <3> QED
      BY <3>3, <3>4
  <2> QED
    BY <1>4, <1>11, <1>12, <2>1 DEF LevelsTrue
<1>18. \A q \in Receivers : Sleeps(q) => q # r /\ Sleeps(q)'
  BY <1>1, <1>12, <1>14 DEF Sleeps
<1>19. QueueTrue'
  <2>1. \A e \in queue : \E q \in Receivers :
          /\ e = <<MessageId[q], remaining[q]>>
          /\ Sleeps(q)'
          /\ senders[MessageId[q]] = q
    BY <1>18 DEF IInv, QueueTrue
  <2> QED
    BY <1>4, <2>1 DEF IInv, QueueTrue, Sleeps, Asked
<1>20. NoLostWakeup'
  <2> SUFFICES ASSUME NEW q \in Receivers, pc'[q] = "registering"
               PROVE  \/ \E k \in 1 .. Len(mailbox') :
                           mailbox'[k].kind = "Register" /\ mailbox'[k].receiver = q
                      \/ /\ senders[MessageId[q]] = q
                         /\ <<MessageId[q], remaining[q]>> \in queue
    BY <1>4 DEF NoLostWakeup
  <2>1. q # r /\ pc[q] = "registering"
    BY <1>12
  <2>2. (\E k \in 1 .. Len(mailbox) :
           mailbox[k].kind = "Register" /\ mailbox[k].receiver = q)
        => (\E k \in 1 .. Len(mailbox') :
              mailbox'[k].kind = "Register" /\ mailbox'[k].receiver = q)
    BY <2>1, TakenAsked DEF IInv, SharedInv
  <2>3. \/ \E k \in 1 .. Len(mailbox) :
             mailbox[k].kind = "Register" /\ mailbox[k].receiver = q
        \/ /\ senders[MessageId[q]] = q
           /\ <<MessageId[q], remaining[q]>> \in queue
    BY <2>1 DEF IInv, NoLostWakeup
  <2> QED
    BY <2>2, <2>3
<1>21. AlwaysAnswered'
  BY <1>12 DEF IInv, AlwaysAnswered
<1>22. WorkConserving'
  <2>1. EmptyPositions(levels') # {} => EmptyPositions(levels) # {}
    <3>1. ASSUME NEW k \in Level, levels'[k] = Empty
          PROVE  \E j \in Level : levels[j] = Empty
      <4>1. PICK j \in Level : levels'[k] = lev[j]
        BY <1>11
      <4> QED
        BY <1>9, <3>1, <4>1
    <3> QED
      BY <3>1 DEF EmptyPositions
  <2> QED
    BY <1>4, <2>1 DEF IInv, WorkConserving
<1>23. \A q \in Receivers : ~(pc[q] = "registering" /\ pc'[q] = "activated")
  BY <1>12
<1> QED
  BY <1>16, <1>17, <1>19, <1>20, <1>21, <1>22, <1>23 DEF IInv

-----------------------------------------------------------------------------
(* The invariant is inductive *)

LEMMA InitIInv ==
  ASSUME Init
  PROVE  IInv
<1> USE DEF Init
<1>1. Len(mailbox) = 0 /\ \A i \in Level : levels[i] = Empty
  OBVIOUS
<1>2. SharedInv
  BY InitShared
<1>3. Holders
  BY <1>1 DEF Holders, HasLevel, Started
<1>4. LevelsTrue
  BY <1>1 DEF LevelsTrue, OneEach, Sorted, Before
<1>5. QueueTrue
  BY FS_EmptySet DEF QueueTrue
<1>6. NoLostWakeup /\ AlwaysAnswered /\ WorkConserving
  BY DEF NoLostWakeup, AlwaysAnswered, WorkConserving
<1> QED
  BY <1>2, <1>3, <1>4, <1>5, <1>6 DEF IInv

LEMMA NextIInv ==
  ASSUME OwnIds, OwnIds', IInv, [Next]_vars
  PROVE  /\ IInv'
         /\ \A r \in Receivers : pc[r] = "registering" /\ pc'[r] = "activated" =>
              \A e \in queue' : remaining[r] <= e[2]
<1>1. SharedInv'
  BY NextShared DEF IInv
<1>2. CASE Handle
  <2>1. /\ mailbox # <<>> /\ mailbox' = Tail(mailbox)
        /\ \/ Head(mailbox).kind = "Register"   /\ HandleRegister(Head(mailbox))
           \/ Head(mailbox).kind = "Get"        /\ HandleGet(Head(mailbox))
           \/ Head(mailbox).kind = "Unregister" /\ HandleUnregister(Head(mailbox))
    BY <1>2 DEF Handle
  <2> QED
    BY <1>1, <2>1, RegisterHandled, GetHandled, UnregisterHandled
<1>3. ASSUME NEW r \in Receivers,
             \/ AskFirst(r)
             \/ Unregister(r)
             \/ \E n \in 1 .. MAX_REMAINING : Register(r, n) \/ AskNext(r, n)
      PROVE  /\ IInv'
             /\ \A q \in Receivers : ~(pc[q] = "registering" /\ pc'[q] = "activated")
  <2>1. PICK kind, to, n, left : Requesting(r, kind, to, n, left)
    BY <1>3, ReceiverRequests DEF IInv, SharedInv
  <2> QED
    BY <1>1, <2>1, RequestKeeps
<1>4. CASE UNCHANGED vars
  <2>1. /\ pc' = pc /\ remaining' = remaining /\ mailbox' = mailbox
        /\ queue' = queue /\ senders' = senders /\ levels' = levels
    BY <1>4 DEF vars
  <2>2. Holders' /\ LevelsTrue'
    BY <2>1, Zenon DEF IInv, Holders, HasLevel, Started, Asked, LevelsTrue, OneEach, Sorted
  <2>3. QueueTrue' /\ NoLostWakeup'
    BY <2>1, Zenon DEF IInv, QueueTrue, Sleeps, Asked, NoLostWakeup
  <2>4. AlwaysAnswered' /\ WorkConserving'
    BY <2>1, Zenon DEF IInv, AlwaysAnswered, WorkConserving, EmptyPositions
  <2>5. \A r \in Receivers : ~(pc[r] = "registering" /\ pc'[r] = "activated")
    BY <2>1
  <2> QED
    BY <1>1, <2>2, <2>3, <2>4, <2>5, Zenon DEF IInv
<1> QED
  BY <1>2, <1>3, <1>4 DEF Next

-----------------------------------------------------------------------------
(* Theorems *)

\* The part of the invariant that needs nothing of the ids.
THEOREM SharedInvariance ==
  Spec => []SharedInv
<1>1. Init => SharedInv
  BY InitShared
<1>2. SharedInv /\ [Next]_vars => SharedInv'
  BY NextShared
<1> QED
  BY <1>1, <1>2, PTL DEF Spec

\* Every variable stays in its type: what waits has at least a byte to receive, and
\* a level is empty or holds an id with what remains.
THEOREM TypeCorrect ==
  Spec => []TypeOK
<1>1. SharedInv => TypeOK
  BY DEF SharedInv
<1> QED
  BY <1>1, SharedInvariance, PTL

\* Every level is held for a receiver that uses it or whose unregister_priority is
\* in the mailbox.
THEOREM LevelsAccountedFor ==
  Spec => []NoLeakedLevel
  BY SharedInvariance, HeldNotLeaked, PTL

\* The whole invariant, when each receiver registers under an id of its own.
THEOREM Invariance ==
  Spec /\ []OwnIds => []IInv
<1>1. Init => IInv
  BY InitIInv
<1>2. IInv /\ OwnIds /\ OwnIds' /\ [Next]_vars => IInv'
  BY NextIInv
<1> QED
  BY <1>1, <1>2, PTL DEF Spec

\* get_scheduled_priority never unwraps a dropped channel: a receiver that asks has
\* a level.
THEOREM NeverPanics ==
  Spec /\ []OwnIds => []AlwaysAnswered
<1>1. IInv => AlwaysAnswered
  BY DEF IInv
<1> QED
  BY <1>1, Invariance, PTL

\* try_activate_messages, called when a message registers or unregisters, leaves no
\* level empty while a message waits.
THEOREM NoIdleLevel ==
  Spec /\ []OwnIds => []WorkConserving
<1>1. IInv => WorkConserving
  BY DEF IInv
<1> QED
  BY <1>1, Invariance, PTL

\* Whoever sleeps on its oneshot channel can still be woken through it.
THEOREM WakeupsKept ==
  Spec /\ []OwnIds => []NoLostWakeup
<1>1. IInv => NoLostWakeup
  BY DEF IInv
<1> QED
  BY <1>1, Invariance, PTL

\* sort_priority_levels and the update before each grant keep the levels in the
\* order of what remains at the receivers.
THEOREM LevelsInOrder ==
  Spec /\ []OwnIds => []LevelsReflectReceivers
<1>1. ASSUME IInv PROVE LevelsReflectReceivers
  <2> SUFFICES ASSUME mailbox = <<>>,
                      NEW r \in Receivers, NEW q \in Receivers,
                      NEW i \in Level, NEW j \in Level,
                      i \in Positions(levels, MessageId[r]),
                      j \in Positions(levels, MessageId[q]),
                      i < j, pc[r] # "idle", pc[q] # "idle"
               PROVE  remaining[r] >= remaining[q]
    BY DEF LevelsReflectReceivers
  <2>1. /\ levels[i] # Empty /\ levels[i][1] = MessageId[r]
        /\ levels[j] # Empty /\ levels[j][1] = MessageId[q]
    BY DEF Positions
  <2>2. pc[r] # "asking" /\ pc[q] # "asking"
    <3>1. Len(mailbox) = 0
      OBVIOUS
    <3> QED
      BY <1>1, <3>1 DEF IInv, SharedInv, RequestsTrue, Asked, AskedIn
  <2>3. levels[i][2] = remaining[r] /\ levels[j][2] = remaining[q]
    BY <1>1, <2>1, <2>2 DEF IInv, LevelsTrue, Started
  <2>4. ~(levels[j][2] > levels[i][2])
    BY <1>1, <2>1 DEF IInv, LevelsTrue, Sorted, Before
  <2>5. remaining[r] \in Int /\ remaining[q] \in Int
    BY <1>1, PriorityAssumption DEF IInv, SharedInv, TypeOK
  <2> QED
    BY <2>3, <2>4, <2>5
<1> QED
  BY <1>1, Invariance, PTL

\* priority_queue.pop returns the shortest message: whoever is woken leaves nobody
\* waiting that registered with less.
THEOREM ShortestIsFirst ==
  Spec /\ []OwnIds => ShortestFirst
<1>1. IInv /\ OwnIds /\ OwnIds' /\ [Next]_vars =>
        [\A r \in Receivers : pc[r] = "registering" /\ pc'[r] = "activated" =>
           \A e \in queue' : remaining[r] <= e[2]]_vars
  BY NextIInv
<1> QED
  BY <1>1, Invariance, PTL DEF Spec, ShortestFirst

=============================================================================
