---------------------- MODULE UnscheduledPrioritiesProofs ----------------------
(***************************************************************************)
(* Theorems about UnscheduledPriorities for any number of hosts, messages   *)
(* and receivers, any lengths, sample size and number of levels.            *)
(***************************************************************************)
EXTENDS UnscheduledPriorities, FiniteSetTheorems, SequenceTheorems,
        WellFoundedInduction, TLAPS

-----------------------------------------------------------------------------
(* Least elements and division *)

\* A set of naturals has a least element.
LEMMA Least ==
  ASSUME NEW T \in SUBSET Nat, T # {}
  PROVE  \E x \in T : \A y \in T : x <= y
<1>1. IsWellFoundedOn(OpToRel(<, Nat), Nat)
  BY NatLessThanWellFounded
<1>2. PICK x \in T : \A y \in T : <<y, x>> \notin OpToRel(<, Nat)
  BY <1>1, WFMin
<1>3. ASSUME NEW y \in T
      PROVE  ~ (y < x)
  <2>1. <<y, x>> \notin {ss \in Nat \X Nat : ss[1] < ss[2]}
    BY <1>2 DEF OpToRel
  <2>2. <<y, x>> \in Nat \X Nat
    OBVIOUS
  <2>3. ~ (<<y, x>>[1] < <<y, x>>[2])
    BY <2>1, <2>2
  <2> QED
    BY <2>3
<1>4. x \in T
  BY <1>2
<1>5. \A y \in T : x <= y
  BY <1>3, <1>4
<1> QED
  BY <1>4, <1>5

\* ...which is its Min.
LEMMA MinIsLeast ==
  ASSUME NEW T \in SUBSET Nat, T # {}
  PROVE  Min(T) \in T /\ \A y \in T : Min(T) <= y
BY Least DEF Min

\* Division with remainder.
LEMMA Division ==
  ASSUME NEW a \in Nat, NEW b \in Nat \ {0}
  PROVE  /\ a \div b \in Nat
         /\ a % b \in 0 .. b - 1
         /\ a = b * (a \div b) + (a % b)
OBVIOUS

\* A product grows with either factor.
LEMMA Larger ==
  ASSUME NEW l \in Nat, NEW a \in Int, NEW b \in Int, a <= b
  PROVE  l * a <= l * b
<1>1. l * (b - a) >= 0
  OBVIOUS
<1>2. l * (b - a) = l * b - l * a
  OBVIOUS
<1> QED
  BY <1>1, <1>2

\* Lengths and sizes are numbers.
LEMMA Sizes ==
  /\ Lengths \in SUBSET Nat /\ RTT_BYTES \in Nat /\ LEVELS \in Nat \ {0}
  /\ SAMPLE_SIZE \in Nat /\ SAMPLE_SIZE >= 2
<1>1. \A n \in 1 .. LengthLimit - 1 : n \in Nat
  OBVIOUS
<1>2. Lengths \in SUBSET Nat
  BY <1>1, WorkloadAssumption
<1>3. LEVELS \in Nat \ {0}
  <2>1. LEVELS \in 2 .. 8
    BY WorkloadAssumption
  <2> QED
    BY <2>1
<1>4. SAMPLE_SIZE \in Nat /\ SAMPLE_SIZE >= 2
  BY WorkloadAssumption
<1>5. RTT_BYTES \in Nat
  BY WorkloadAssumption
<1> QED
  BY <1>2, <1>3, <1>4, <1>5

\* The default partitions are equal shares of a round trip's bytes.
LEMMA DefaultCutsType == DefaultCuts \in Cuts
<1>1. RTT_BYTES \div LEVELS \in Nat
  BY Division, Sizes
<1>2. ASSUME NEW i \in Partition
      PROVE  i * (RTT_BYTES \div LEVELS) \in Nat
  BY <1>1, WorkloadAssumption DEF Partition
<1> QED
  BY <1>2 DEF DefaultCuts, Cuts

-----------------------------------------------------------------------------
(* Lookups *)

\* The priority of a message to a known host fits a DSCP, and does not grow with
\* the length.
LEMMA KnownFalls ==
  ASSUME NEW cuts \in Cuts, NEW n \in Nat, NEW m \in Nat, n <= m
  PROVE  /\ KnownPriority(cuts, n) \in 0 .. 63
         /\ KnownPriority(cuts, n) >= KnownPriority(cuts, m)
<1> DEFINE Fits(k) == {i \in Partition : k <= cuts[i]}
<1>1. Fits(n) \in SUBSET Nat /\ Fits(m) \in SUBSET Nat
  BY WorkloadAssumption DEF Partition
<1>2. Fits(m) \subseteq Fits(n)
  BY DEF Cuts
<1>3. /\ Fits(n) # {} => Min(Fits(n)) \in Fits(n) /\ \A y \in Fits(n) : Min(Fits(n)) <= y
      /\ Fits(m) # {} => Min(Fits(m)) \in Fits(m)
  BY <1>1, MinIsLeast
<1>4. \A i \in Partition : i \in 1 .. LEVELS - 1
  BY DEF Partition
<1>5. /\ KnownPriority(cuts, n) =
           IF Fits(n) # {} THEN 56 - 8 * (Min(Fits(n)) - 1) ELSE 64 - 8 * (LEVELS - 1)
      /\ KnownPriority(cuts, m) =
           IF Fits(m) # {} THEN 56 - 8 * (Min(Fits(m)) - 1) ELSE 64 - 8 * (LEVELS - 1)
  BY DEF KnownPriority
<1>6. /\ Fits(n) # {} => Min(Fits(n)) \in 1 .. LEVELS - 1
      /\ Fits(m) # {} => Min(Fits(m)) \in 1 .. LEVELS - 1
      /\ Fits(m) # {} => Fits(n) # {} /\ Min(Fits(n)) <= Min(Fits(m))
  BY <1>2, <1>3, <1>4
<1>7. LEVELS \in 2 .. 8
  BY WorkloadAssumption
<1> HIDE DEF Fits
<1>8. CASE Fits(m) # {}
  BY <1>5, <1>6, <1>7, <1>8
<1>9. CASE Fits(m) = {} /\ Fits(n) # {}
  BY <1>5, <1>6, <1>7, <1>9
<1>10. CASE Fits(m) = {} /\ Fits(n) = {}
  BY <1>5, <1>7, <1>10
<1> QED
  BY <1>8, <1>9, <1>10

\* So for a host that is not known.
LEMMA UnknownFalls ==
  ASSUME NEW n \in Nat, NEW m \in Nat, n <= m
  PROVE  /\ UnknownPriority(n) \in 0 .. 63
         /\ UnknownPriority(n) >= UnknownPriority(m)
<1> DEFINE Fits(k) == {i \in Partition : k <= i * (RTT_BYTES \div LEVELS)}
<1>1. Fits(n) \in SUBSET Nat /\ Fits(m) \in SUBSET Nat
  BY WorkloadAssumption DEF Partition
<1>2. Fits(m) \subseteq Fits(n)
  BY DefaultCutsType DEF DefaultCuts, Cuts
<1>3. /\ Fits(n) # {} => Min(Fits(n)) \in Fits(n) /\ \A y \in Fits(n) : Min(Fits(n)) <= y
      /\ Fits(m) # {} => Min(Fits(m)) \in Fits(m)
  BY <1>1, MinIsLeast
<1>4. \A i \in Partition : i \in 1 .. LEVELS - 1
  BY DEF Partition
<1>5. /\ UnknownPriority(n) =
           IF Fits(n) # {} THEN 64 - 8 * Min(Fits(n)) ELSE 64 - 8 * LEVELS
      /\ UnknownPriority(m) =
           IF Fits(m) # {} THEN 64 - 8 * Min(Fits(m)) ELSE 64 - 8 * LEVELS
  BY DEF UnknownPriority
<1>6. /\ Fits(n) # {} => Min(Fits(n)) \in 1 .. LEVELS - 1
      /\ Fits(m) # {} => Min(Fits(m)) \in 1 .. LEVELS - 1
      /\ Fits(m) # {} => Fits(n) # {} /\ Min(Fits(n)) <= Min(Fits(m))
  BY <1>2, <1>3, <1>4
<1>7. LEVELS \in 2 .. 8
  BY WorkloadAssumption
<1> HIDE DEF Fits
<1>8. CASE Fits(m) # {}
  BY <1>5, <1>6, <1>7, <1>8
<1>9. CASE Fits(m) = {} /\ Fits(n) # {}
  BY <1>5, <1>6, <1>7, <1>9
<1>10. CASE Fits(m) = {} /\ Fits(n) = {}
  BY <1>5, <1>7, <1>10
<1> QED
  BY <1>8, <1>9, <1>10

\* Up to the last partition the two lookups agree when the partitions are the
\* default ones.
LEMMA LookupsAgree ==
  ASSUME NEW n \in Nat, n <= DefaultCuts[LEVELS - 1]
  PROVE  KnownPriority(DefaultCuts, n) = UnknownPriority(n)
<1> DEFINE Fits == {i \in Partition : n <= i * (RTT_BYTES \div LEVELS)}
<1>1. \A i \in Partition : DefaultCuts[i] = i * (RTT_BYTES \div LEVELS)
  BY DEF DefaultCuts
<1>2. LEVELS - 1 \in Partition
  BY WorkloadAssumption DEF Partition
<1>3. Fits # {} /\ Fits \in SUBSET Nat
  BY <1>1, <1>2 DEF Partition
<1>4. Min(Fits) \in Nat
  BY <1>3, MinIsLeast
<1>5. {i \in Partition : n <= DefaultCuts[i]} = Fits
  BY <1>1
<1>6. KnownPriority(DefaultCuts, n) = 56 - 8 * (Min(Fits) - 1)
  BY <1>3, <1>5 DEF KnownPriority
<1>7. UnknownPriority(n) = 64 - 8 * Min(Fits)
  BY <1>3 DEF UnknownPriority
<1> HIDE DEF Fits
<1> QED
  BY <1>4, <1>6, <1>7

-----------------------------------------------------------------------------
(* Quantiles *)

\* The cuts that the samples may give.
LEMMA PartitionsOfSamples ==
  ASSUME NEW v, NEW c \in PriorityLevelPartitions(v)
  PROVE  c \in Cuts
<1>1. CASE Len(v) < SAMPLE_SIZE
  <2>1. c = DefaultCuts
    BY <1>1 DEF PriorityLevelPartitions
  <2> QED
    BY <2>1, DefaultCutsType
<1>2. CASE ~ (Len(v) < SAMPLE_SIZE)
  <2> DEFINE values == UNION {Quantiles(v, i) : i \in Partition}
  <2>1. c \in [Partition -> values] /\ \A i \in Partition : c[i] \in Quantiles(v, i)
    BY <1>2 DEF PriorityLevelPartitions
  <2>2. \A i \in Partition : Quantiles(v, i) \subseteq Nat
    BY DEF Quantiles
  <2> HIDE DEF values
  <2> QED
    BY <2>1, <2>2 DEF Cuts
<1> QED
  BY <1>1, <1>2

\* Division rounds down, and up.
LEMMA Rounded ==
  ASSUME NEW l \in Nat \ {0}, NEW x \in Nat, NEW b \in Nat
  PROVE  /\ l * b <= x => b <= x \div l
         /\ x <= l * b => (x + l - 1) \div l <= b
<1>1. ASSUME NEW y \in Nat, NEW k \in Nat, l * k <= y
      PROVE  k <= y \div l
  <2> DEFINE q == y \div l
             r == y % l
  <2>1. q \in Nat /\ r \in 0 .. l - 1 /\ y = l * q + r
    BY Division
  <2> HIDE DEF q, r
  <2>2. ASSUME q < k
        PROVE  FALSE
    <3>1. l * (q + 1) <= l * k
      BY <2>1, <2>2
    <3>2. l * (q + 1) = l * q + l
      BY <2>1
    <3> QED
      BY <3>1, <3>2, <2>1, <1>1
  <2> QED
    BY <2>1, <2>2 DEF q
<1>2. ASSUME x <= l * b
      PROVE  (x + l - 1) \div l <= b
  <2> DEFINE y == x + l - 1
             q == y \div l
             r == y % l
  <2>1. y \in Nat
    OBVIOUS
  <2>2. q \in Nat /\ r \in 0 .. l - 1 /\ y = l * q + r
    <3> HIDE DEF y
    <3> QED
      BY <2>1, Division
  <2>3. l * b \in Nat /\ y < l * b + l
    BY <1>2
  <2> HIDE DEF q, r, y
  <2>4. ASSUME b < q
        PROVE  FALSE
    <3>1. l * (b + 1) <= l * q
      BY <2>2, <2>4
    <3>2. l * (b + 1) = l * b + l
      OBVIOUS
    <3> QED
      BY <3>1, <3>2, <2>1, <2>2, <2>3
  <2> QED
    BY <2>2, <2>4 DEF q, y
<1> QED
  BY <1>1, <1>2

-----------------------------------------------------------------------------
(* Insertion *)

InOrder(v) == \A i, j \in DOMAIN v : i < j => v[i] <= v[j]

Times(v, n) == Cardinality({i \in DOMAIN v : v[i] = n})

\* How many samples go before n.
Before(v, n) == Cardinality({i \in DOMAIN v : v[i] < n})

\* In an ordered sequence these are the first ones.
LEMMA PlaceOf ==
  ASSUME NEW v \in Seq(Nat), InOrder(v), NEW n \in Nat
  PROVE  /\ Before(v, n) \in 0 .. Len(v)
         /\ \A i \in 1 .. Len(v) : v[i] < n <=> i <= Before(v, n)
<1> DEFINE len == Len(v)
           T == {i \in 1 .. len + 1 : i <= len => ~ (v[i] < n)}
<1>1. len \in Nat /\ DOMAIN v = 1 .. len /\ \A i \in 1 .. len : v[i] \in Nat
  BY LenProperties, ElementOfSeq
<1> HIDE DEF len
<1>2. T \in SUBSET Nat /\ len + 1 \in T
  BY <1>1
<1>3. PICK x \in T : \A y \in T : x <= y
  <2> HIDE DEF T
  <2> QED
    BY <1>2, Least
<1>4. x \in 1 .. len + 1 /\ (x <= len => ~ (v[x] < n))
  BY <1>3
<1>5. ASSUME NEW i \in 1 .. len
      PROVE  v[i] < n <=> i <= x - 1
  <2>1. CASE i < x
    <3>1. i \notin T
      BY <2>1, <1>1, <1>3, <1>4
    <3> QED
      BY <3>1, <2>1, <1>1, <1>4
  <2>2. CASE i = x
    BY <2>2, <1>1, <1>4
  <2>3. CASE i > x
    <3>1. v[x] <= v[i] /\ ~ (v[x] < n)
      BY <2>3, <1>1, <1>4, SMTT(30) DEF InOrder
    <3> QED
      BY <3>1, <2>3, <1>1, <1>4
  <2> QED
    BY <2>1, <2>2, <2>3, <1>1, <1>4
<1>6. {i \in DOMAIN v : v[i] < n} = 1 .. x - 1
  BY <1>1, <1>4, <1>5
<1>7. Before(v, n) = x - 1
  <2>1. Cardinality(1 .. x - 1) = IF 1 > x - 1 THEN 0 ELSE (x - 1) - 1 + 1
    BY <1>1, <1>4, FS_Interval
  <2>2. Before(v, n) = Cardinality({i \in DOMAIN v : v[i] < n})
    BY DEF Before
  <2>3. Before(v, n) = Cardinality(1 .. x - 1)
    BY <2>2, <1>6
  <2> QED
    BY <2>1, <2>3, <1>1, <1>4
<1> QED
  BY <1>1, <1>4, <1>5, <1>7 DEF len

\* What insertion gives.
LEMMA InsertedValue ==
  ASSUME NEW S \in SUBSET Nat, NEW v \in Seq(S), InOrder(v), NEW n \in S
  PROVE  /\ Inserted(v, n) \in Seq(S)
         /\ Len(Inserted(v, n)) = Len(v) + 1
         /\ \A i \in 1 .. Len(v) + 1 :
              Inserted(v, n)[i] = IF i <= Before(v, n) THEN v[i]
                                  ELSE IF i = Before(v, n) + 1 THEN n ELSE v[i - 1]
<1> DEFINE k == Before(v, n)
           len == Len(v)
           a == SubSeq(v, 1, k)
           b == SubSeq(v, k + 1, len)
<1>1. len \in Nat /\ \A i \in 1 .. len : v[i] \in S /\ v[i] \in Nat
  BY LenProperties, ElementOfSeq
<1>2. v \in Seq(Nat)
  BY <1>1, LenProperties, IsASeq
<1>3. k \in 0 .. len
  BY <1>2, PlaceOf
<1>4. Inserted(v, n) = (a \o <<n>>) \o b
  <2>1. Inserted(v, n) = InsertAt(v, 1 + k, n)
    BY DEF Inserted, Before
  <2>2. (1 + k) - 1 = k /\ 1 + k = k + 1
    BY <1>3
  <2> QED
    BY <2>1, <2>2 DEF InsertAt
<1> HIDE DEF k, len
<1>5. /\ a \in Seq(S) /\ Len(a) = k /\ \A i \in 1 .. k : a[i] = v[i]
      /\ b \in Seq(S) /\ Len(b) = len - k
      /\ \A i \in 1 .. len - k : b[i] = v[k + i]
  <2>1. \A i \in 1 .. k : v[i] \in S
    BY <1>1, <1>3
  <2>2. \A i \in k + 1 .. len : v[i] \in S
    BY <1>1, <1>3
  <2>3. k \in Int /\ len \in Int /\ k + 1 \in Int
    BY <1>1, <1>3
  <2>4. /\ a \in Seq(S) /\ Len(a) = IF 1 <= k THEN k - 1 + 1 ELSE 0
        /\ \A i \in 1 .. k - 1 + 1 : a[i] = v[1 + i - 1]
    BY <2>1, <2>3, SubSeqProperties
  <2>5. /\ b \in Seq(S) /\ Len(b) = IF k + 1 <= len THEN len - (k + 1) + 1 ELSE 0
        /\ \A i \in 1 .. len - (k + 1) + 1 : b[i] = v[k + 1 + i - 1]
    BY <2>2, <2>3, SubSeqProperties
  <2> HIDE DEF a, b
  <2> QED
    BY <2>4, <2>5, <1>1, <1>3
<1>6. <<n>> \in Seq(S) /\ Len(<<n>>) = 1 /\ <<n>>[1] = n
  OBVIOUS
<1> HIDE DEF a, b
<1> DEFINE c == a \o <<n>>
<1>7. /\ c \in Seq(S) /\ Len(c) = k + 1
      /\ \A i \in 1 .. k + 1 : c[i] = IF i <= k THEN v[i] ELSE n
  <2>1. /\ c \in Seq(S) /\ Len(c) = Len(a) + Len(<<n>>)
        /\ \A i \in 1 .. Len(a) + Len(<<n>>) :
             c[i] = IF i <= Len(a) THEN a[i] ELSE <<n>>[i - Len(a)]
    BY <1>5, <1>6, ConcatProperties
  <2> HIDE DEF c
  <2> QED
    BY <2>1, <1>3, <1>5, <1>6
<1> HIDE DEF c
<1>8. /\ c \o b \in Seq(S) /\ Len(c \o b) = Len(c) + Len(b)
      /\ \A i \in 1 .. Len(c) + Len(b) : (c \o b)[i] = IF i <= Len(c) THEN c[i] ELSE b[i - Len(c)]
  BY <1>5, <1>7, ConcatProperties, ZenonT(40)
<1>9. ASSUME NEW i \in 1 .. len + 1
      PROVE  (c \o b)[i] = IF i <= k THEN v[i] ELSE IF i = k + 1 THEN n ELSE v[i - 1]
  <2>1. CASE i <= k + 1
    BY <2>1, <1>1, <1>3, <1>5, <1>7, <1>8
  <2>2. CASE i > k + 1
    <3>1. (c \o b)[i] = b[i - (k + 1)]
      BY <2>2, <1>1, <1>3, <1>5, <1>7, <1>8, SMTT(30)
    <3>2. i - (k + 1) \in 1 .. len - k /\ k + (i - (k + 1)) = i - 1
      BY <2>2, <1>1, <1>3
    <3> QED
      BY <3>1, <3>2, <2>2, <1>3, <1>5
  <2>3. i <= k + 1 \/ i > k + 1
    BY <1>1, <1>3
  <2> QED
    BY <2>1, <2>2, <2>3
<1>10. Inserted(v, n) = c \o b
  BY <1>4 DEF c
<1>11. Len(c \o b) = len + 1
  BY <1>1, <1>3, <1>5, <1>7, <1>8
<1> QED
  BY <1>8, <1>9, <1>10, <1>11 DEF k, len

\* Insertion keeps the order...
LEMMA InsertedInOrder ==
  ASSUME NEW v \in Seq(Nat), InOrder(v), NEW n \in Nat
  PROVE  InOrder(Inserted(v, n))
<1> DEFINE w == Inserted(v, n)
           k == Before(v, n)
           len == Len(v)
<1>1. len \in Nat /\ DOMAIN v = 1 .. len /\ \A i \in 1 .. len : v[i] \in Nat
  BY LenProperties, ElementOfSeq
<1>2. k \in 0 .. len /\ \A i \in 1 .. len : v[i] < n <=> i <= k
  BY PlaceOf
<1>3. /\ w \in Seq(Nat) /\ Len(w) = len + 1
      /\ \A i \in 1 .. len + 1 :
           w[i] = IF i <= k THEN v[i] ELSE IF i = k + 1 THEN n ELSE v[i - 1]
  <2>1. Nat \in SUBSET Nat
    OBVIOUS
  <2> HIDE DEF w, k, len
  <2> QED
    BY <2>1, InsertedValue DEF w, k, len
<1>4. DOMAIN w = 1 .. len + 1
  BY <1>3, LenProperties
<1> HIDE DEF w, k, len
<1>5. ASSUME NEW i \in 1 .. len + 1, NEW j \in 1 .. len + 1, i < j
      PROVE  w[i] <= w[j]
  <2>1. CASE j <= k
    <3>1. w[i] = v[i] /\ w[j] = v[j] /\ i \in 1 .. len /\ j \in 1 .. len
      BY <2>1, <1>1, <1>2, <1>3, <1>5
    <3> QED
      BY <3>1, <1>1, <1>5 DEF InOrder
  <2>2. CASE i <= k /\ j = k + 1
    BY <2>2, <1>1, <1>2, <1>3, <1>5, SMTT(30)
  <2>3. CASE i <= k /\ j > k + 1
    <3>1. w[i] = v[i] /\ w[j] = v[j - 1] /\ i < j - 1 /\ i \in 1 .. len /\ j - 1 \in 1 .. len
      BY <2>3, <1>1, <1>2, <1>3, <1>5
    <3> QED
      BY <3>1, <1>1 DEF InOrder
  <2>4. CASE i = k + 1
    <3>1. w[i] = n /\ w[j] = v[j - 1] /\ j - 1 \in 1 .. len /\ ~ (j - 1 <= k)
      BY <2>4, <1>1, <1>2, <1>3, <1>5
    <3> QED
      BY <3>1, <1>1, <1>2
  <2>5. CASE i > k + 1
    <3>0. ~ (i <= k) /\ i # k + 1 /\ ~ (j <= k) /\ j # k + 1
      BY <2>5, <1>1, <1>2, <1>5
    <3>1. w[i] = v[i - 1] /\ w[j] = v[j - 1]
      BY <3>0, <1>3
    <3>2. i - 1 \in 1 .. len /\ j - 1 \in 1 .. len /\ i - 1 < j - 1
      BY <2>5, <1>1, <1>2, <1>5
    <3> QED
      BY <3>1, <3>2, <1>1 DEF InOrder
  <2> QED
    BY <2>1, <2>2, <2>3, <2>4, <2>5, <1>1, <1>2, <1>5
<1> QED
  BY <1>4, <1>5 DEF InOrder, w

\* The occurrences of a number among the samples are finitely many.
LEMMA TimesType ==
  ASSUME NEW v \in Seq(Nat), NEW m
  PROVE  IsFiniteSet({i \in DOMAIN v : v[i] = m}) /\ Times(v, m) \in Nat
<1>1. DOMAIN v = 1 .. Len(v) /\ Len(v) \in Nat
  BY LenProperties
<1>2. IsFiniteSet(1 .. Len(v))
  BY <1>1, FS_Interval
<1>3. {i \in DOMAIN v : v[i] = m} \in SUBSET (1 .. Len(v))
  BY <1>1
<1>4. IsFiniteSet({i \in DOMAIN v : v[i] = m})
  BY <1>2, <1>3, FS_Subset
<1> QED
  BY <1>4, FS_CardinalityType DEF Times

\* ...and adds one occurrence of what it inserts.
LEMMA InsertedTimes ==
  ASSUME NEW v \in Seq(Nat), InOrder(v), NEW n \in Nat, NEW m
  PROVE  Times(Inserted(v, n), m) = Times(v, m) + (IF m = n THEN 1 ELSE 0)
<1> DEFINE w == Inserted(v, n)
           k == Before(v, n)
           len == Len(v)
           A == {i \in DOMAIN v : v[i] = m}
           B == {i \in DOMAIN w : w[i] = m}
           C == B \ {k + 1}
           f == [i \in A |-> IF i <= k THEN i ELSE i + 1]
<1>1. len \in Nat /\ DOMAIN v = 1 .. len /\ \A i \in 1 .. len : v[i] \in Nat
  BY LenProperties, ElementOfSeq
<1>2. k \in 0 .. len
  BY PlaceOf
<1>3. /\ w \in Seq(Nat) /\ Len(w) = len + 1
      /\ \A i \in 1 .. len + 1 :
           w[i] = IF i <= k THEN v[i] ELSE IF i = k + 1 THEN n ELSE v[i - 1]
  <2>1. Nat \in SUBSET Nat
    OBVIOUS
  <2> HIDE DEF w, k, len
  <2> QED
    BY <2>1, InsertedValue DEF w, k, len
<1>4. DOMAIN w = 1 .. len + 1
  BY <1>3, LenProperties
<1>5. IsFiniteSet(A) /\ Times(v, m) = Cardinality(A) /\ Cardinality(A) \in Nat
  BY TimesType DEF Times
<1>6. Times(w, m) = Cardinality(B)
  BY DEF Times
<1> HIDE DEF w, k, len
<1>7. \A i \in A : i \in 1 .. len /\ v[i] = m
  BY <1>1
<1>8. \A i : i \in B <=> i \in 1 .. len + 1 /\ w[i] = m
  BY <1>4
<1> HIDE DEF B
<1>9. ASSUME NEW i \in A
      PROVE  f[i] \in C
  <2>1. CASE i <= k
    <3>1. f[i] = i /\ i \in 1 .. len + 1 /\ i # k + 1
      BY <2>1, <1>1, <1>2, <1>7
    <3>2. w[i] = m
      BY <3>1, <2>1, <1>3, <1>7
    <3> QED
      BY <3>1, <3>2, <1>8
  <2>2. CASE i > k
    <3>1. f[i] = i + 1 /\ i + 1 \in 1 .. len + 1 /\ i + 1 > k + 1 /\ (i + 1) - 1 = i
      BY <2>2, <1>1, <1>2, <1>7
    <3>2. w[i + 1] = v[i]
      BY <3>1, <1>2, <1>3
    <3> QED
      BY <3>1, <3>2, <1>1, <1>2, <1>7, <1>8
  <2> QED
    BY <2>1, <2>2, <1>1, <1>2, <1>7
<1>10. ASSUME NEW i \in A, NEW j \in A, f[i] = f[j]
       PROVE  i = j
  BY <1>1, <1>2, <1>7, <1>10
<1>11. ASSUME NEW j \in C
       PROVE  \E i \in A : f[i] = j
  <2>1. j \in 1 .. len + 1 /\ w[j] = m /\ j # k + 1
    BY <1>8
  <2>2. CASE j <= k
    <3>1. j \in A
      BY <2>1, <2>2, <1>1, <1>2, <1>3
    <3> QED
      BY <3>1, <2>2
  <2>3. CASE j > k + 1
    <3>1. j - 1 \in 1 .. len /\ ~ (j - 1 <= k) /\ (j - 1) + 1 = j
      BY <2>1, <2>3, <1>1, <1>2
    <3>2. v[j - 1] = m
      BY <2>1, <2>3, <1>2, <1>3
    <3>3. j - 1 \in A
      BY <3>1, <3>2, <1>1
    <3>4. f[j - 1] = j
      BY <3>1, <3>3
    <3> QED
      BY <3>3, <3>4
  <2>4. j <= k \/ j > k + 1
    BY <2>1, <1>1, <1>2
  <2> QED
    BY <2>2, <2>3, <2>4
<1>12. ExistsBijection(A, C)
  <2>1. f \in [A -> C]
    BY <1>9
  <2>2. \A j \in C : \E i \in A : f[i] = j
    BY <1>11
  <2>3. \A i, j \in A : f[i] = f[j] => i = j
    BY <1>10
  <2> HIDE DEF A, C, f
  <2>4. f \in Bijection(A, C)
    BY <2>1, <2>2, <2>3 DEF Bijection, Injection, Surjection, IsInjective
  <2> QED
    BY <2>4 DEF ExistsBijection
<1> HIDE DEF A
<1>13. IsFiniteSet(C) /\ Cardinality(C) = Cardinality(A)
  BY <1>5, <1>12, FS_Bijection
<1>14. k + 1 \in B <=> m = n
  BY <1>1, <1>2, <1>3, <1>8
<1>15. CASE m = n
  <2>1. B = C \cup {k + 1} /\ k + 1 \notin C
    BY <1>14, <1>15
  <2> HIDE DEF C
  <2>2. Cardinality(C \cup {k + 1}) = Cardinality(C) + 1
    BY <2>1, <1>13, FS_AddElement
  <2> QED
    BY <2>1, <2>2, <1>5, <1>6, <1>13, <1>15 DEF w
<1>16. CASE m # n
  <2>1. B = C
    BY <1>14, <1>16
  <2> HIDE DEF C
  <2> QED
    BY <2>1, <1>5, <1>6, <1>13, <1>16 DEF w
<1> QED
  BY <1>15, <1>16

-----------------------------------------------------------------------------
(* Shares *)

\* An interpolation, rounded either way, is not outside its neighbours.
LEMMA Neighbours ==
  ASSUME NEW v \in Seq(Nat), v # <<>>, InOrder(v),
         NEW p \in Nat, p <= LEVELS * (Len(v) - 1)
  PROVE  LET x == Interpolation(v, p)
             q == p \div LEVELS + 1
             t == (p + LEVELS - 1) \div LEVELS + 1
         IN  /\ x \in Nat
             /\ q \in 1 .. Len(v) /\ v[q] <= x \div LEVELS
             /\ t \in 1 .. Len(v) /\ (x + LEVELS - 1) \div LEVELS <= v[t]
<1> DEFINE n == Len(v)
           d == p \div LEVELS
           r == p % LEVELS
           u == (p + LEVELS - 1) \div LEVELS
           x == Interpolation(v, p)
<1>1. n \in Nat \ {0} /\ DOMAIN v = 1 .. n
  BY EmptySeq, LenProperties
<1>2. LEVELS \in Nat \ {0}
  BY WorkloadAssumption
<1>3. d \in Nat /\ r \in 0 .. LEVELS - 1 /\ p = LEVELS * d + r
  BY <1>2, Division
<1>4. x = v[d + 1] * (LEVELS - r) + v[u + 1] * r
  BY DEF Interpolation
<1>5. u \in Nat
  <2>1. p + LEVELS - 1 \in Nat
    BY <1>2
  <2> QED
    BY <2>1, <1>2, Division
<1>6. u <= n - 1
  <2> DEFINE m == n - 1
  <2>1. m \in Nat /\ p <= LEVELS * m
    BY <1>1
  <2> HIDE DEF m
  <2>2. u <= m
    BY <2>1, <1>2, Rounded
  <2> QED
    BY <2>2 DEF m
<1>7. d <= u
  <2>1. LEVELS * d \in Nat /\ LEVELS * d <= p + LEVELS - 1 /\ p + LEVELS - 1 \in Nat
    <3> HIDE DEF d, r
    <3> QED
      BY <1>2, <1>3
  <2> QED
    BY <2>1, <1>2, <1>3, Rounded
<1> DEFINE a == v[d + 1]
           b == v[u + 1]
<1> HIDE DEF n, d, r, u, x
<1>8. d + 1 \in 1 .. n /\ u + 1 \in 1 .. n
  BY <1>1, <1>3, <1>5, <1>6, <1>7
<1>9. a \in Nat /\ b \in Nat /\ a <= b
  <2>1. a \in Nat /\ b \in Nat
    BY <1>8, ElementOfSeq DEF n
  <2>2. CASE d = u
    BY <2>1, <2>2
  <2>3. CASE d < u
    <3>1. d + 1 \in DOMAIN v /\ u + 1 \in DOMAIN v /\ d + 1 < u + 1
      BY <2>3, <1>1, <1>3, <1>5, <1>8
    <3> QED
      BY <2>1, <3>1, Zenon DEF InOrder
  <2> QED
    BY <2>1, <2>2, <2>3, <1>3, <1>5, <1>7
<1> HIDE DEF a, b
<1>10. x \in Nat /\ LEVELS * a <= x /\ x <= LEVELS * b
  <2> DEFINE s == LEVELS - r
  <2>1. s \in Nat /\ r \in Nat /\ LEVELS = s + r
    BY <1>2, <1>3
  <2>2. x = a * s + b * r
    BY <1>4 DEF a, b
  <2> HIDE DEF s
  <2>3. /\ a * s \in Nat /\ b * r \in Nat /\ a * r \in Nat /\ b * s \in Nat
        /\ a * r <= b * r /\ a * s <= b * s
    BY <2>1, <1>9
  <2>4. LEVELS * a = a * s + a * r /\ LEVELS * b = b * s + b * r
    BY <2>1, <1>9
  <2> QED
    BY <2>2, <2>3, <2>4
<1>11. a <= x \div LEVELS /\ (x + LEVELS - 1) \div LEVELS <= b
  BY <1>2, <1>9, <1>10, Rounded
<1> QED
  BY <1>8, <1>10, <1>11 DEF n, d, u, x, a, b

\* Samples in order are shared out by the cuts they may give.
LEMMA Shares ==
  ASSUME NEW v \in Seq(Nat), InOrder(v), Len(v) >= SAMPLE_SIZE,
         NEW c \in PriorityLevelPartitions(v), NEW i \in Partition
  PROVE  /\ LEVELS * (Cardinality({k \in DOMAIN v : v[k] < c[i]}) - 1) <= (Len(v) - 1) * i
         /\ LEVELS * Cardinality({k \in DOMAIN v : v[k] <= c[i] + 2}) >= (Len(v) - 1) * i
<1> DEFINE n == Len(v)
           pos == (n - 1) * i
           low == Interpolation(v, pos - 1) \div LEVELS
           high == (Interpolation(v, pos + 1) + LEVELS - 1) \div LEVELS
           shorter == {k \in DOMAIN v : v[k] < c[i]}
           upTo == {k \in DOMAIN v : v[k] <= c[i] + 2}
<1>1. n \in Nat /\ n >= 2 /\ DOMAIN v = 1 .. n /\ \A k \in 1 .. n : v[k] \in Nat
  BY WorkloadAssumption, LenProperties, ElementOfSeq
<1>2. LEVELS \in Nat \ {0} /\ i \in Nat /\ i >= 1 /\ i <= LEVELS - 1
  BY WorkloadAssumption DEF Partition
<1>3. /\ pos \in Nat /\ pos - 1 \in Nat /\ pos + 1 \in Nat
      /\ pos + 1 <= LEVELS * (n - 1) /\ pos - 1 <= LEVELS * (n - 1)
  <2>1. pos \in Nat /\ pos >= n - 1
    BY <1>1, <1>2, SMTT(30)
  <2>2. pos <= (n - 1) * (LEVELS - 1)
    BY <1>1, <1>2
  <2>3. (n - 1) * (LEVELS - 1) = LEVELS * (n - 1) - (n - 1)
    BY <1>1, <1>2
  <2>4. LEVELS * (n - 1) \in Nat
    BY <1>1, <1>2
  <2> HIDE DEF pos
  <2> QED
    BY <2>1, <2>2, <2>3, <2>4, <1>1
<1>4. c[i] \in Nat /\ low - 2 <= c[i] /\ c[i] <= high
  <2>1. c[i] \in Quantiles(v, i)
    BY <1>1, WorkloadAssumption DEF PriorityLevelPartitions
  <2>2. c[i] \in (low - 2 .. high) \cap Nat
    BY <2>1 DEF Quantiles
  <2> HIDE DEF low, high
  <2> QED
    BY <2>2
<1> DEFINE q == (pos - 1) \div LEVELS + 1
           t == (pos + 1 + LEVELS - 1) \div LEVELS + 1
<1>5. v # <<>>
  BY <1>1
<1> HIDE DEF pos
<1>6. low \in Nat /\ q \in 1 .. n /\ v[q] <= low
  <2> DEFINE p == pos - 1
  <2>1. p \in Nat /\ p <= LEVELS * (Len(v) - 1)
    BY <1>3
  <2> HIDE DEF p
  <2>2. /\ Interpolation(v, p) \in Nat
        /\ p \div LEVELS + 1 \in 1 .. Len(v)
        /\ v[p \div LEVELS + 1] <= Interpolation(v, p) \div LEVELS
    BY <2>1, <1>5, Neighbours
  <2>3. Interpolation(v, p) \div LEVELS \in Nat
    BY <2>2, <1>2, Division
  <2> QED
    BY <2>2, <2>3 DEF p
<1>7. high \in Nat /\ t \in 1 .. n /\ high <= v[t]
  <2> DEFINE p == pos + 1
  <2>1. p \in Nat /\ p <= LEVELS * (Len(v) - 1)
    BY <1>3
  <2> HIDE DEF p
  <2>2. /\ Interpolation(v, p) \in Nat
        /\ (p + LEVELS - 1) \div LEVELS + 1 \in 1 .. Len(v)
        /\ (Interpolation(v, p) + LEVELS - 1) \div LEVELS
             <= v[(p + LEVELS - 1) \div LEVELS + 1]
    BY <2>1, <1>5, Neighbours
  <2> DEFINE x == Interpolation(v, p)
             y == x + LEVELS - 1
  <2>3. x \in Nat
    BY <2>2
  <2> HIDE DEF x
  <2>4. y \in Nat
    BY <2>3, <1>2
  <2> HIDE DEF y
  <2>5. y \div LEVELS \in Nat
    BY <2>4, <1>2, Division
  <2> QED
    BY <2>2, <2>5 DEF p, x, y
<1>8. pos <= LEVELS * q
  <2> DEFINE d == (pos - 1) \div LEVELS
             r == (pos - 1) % LEVELS
  <2>1. d \in Nat /\ r \in 0 .. LEVELS - 1 /\ pos - 1 = LEVELS * d + r
    BY <1>2, <1>3, Division
  <2>2. q = d + 1
    OBVIOUS
  <2> HIDE DEF d, r, q
  <2>3. LEVELS * q = LEVELS * d + LEVELS
    BY <2>1, <2>2, <1>2
  <2> QED
    BY <2>1, <2>3, <1>2, <1>3
<1>9. LEVELS * (t - 2) <= pos
  <2> DEFINE y == pos + 1 + LEVELS - 1
             d == y \div LEVELS
             r == y % LEVELS
  <2>1. y \in Nat /\ y = pos + LEVELS
    BY <1>2, <1>3
  <2>2. d \in Nat /\ r \in 0 .. LEVELS - 1 /\ y = LEVELS * d + r
    <3> HIDE DEF y
    <3> QED
      BY <2>1, <1>2, Division
  <2>3. t = d + 1
    OBVIOUS
  <2> HIDE DEF d, r, t, y
  <2>4. LEVELS * (t - 2) = LEVELS * d - LEVELS
    BY <2>2, <2>3, <1>2
  <2> QED
    BY <2>1, <2>2, <2>4, <1>2, <1>3
<1> HIDE DEF q, t, low, high
<1>10. shorter \subseteq 1 .. t - 1
  <2>1. ASSUME NEW k \in shorter, ~ (k <= t - 1)
        PROVE  FALSE
    <3>1. k \in 1 .. n /\ v[k] < c[i]
      BY <1>1
    <3>2. v[t] <= v[k]
      <4>1. CASE k = t
        BY <4>1, <1>1, <1>7
      <4>2. CASE t < k
        BY <4>2, <3>1, <1>1, <1>7 DEF InOrder
      <4> QED
        BY <4>1, <4>2, <2>1, <3>1, <1>7
    <3> QED
      BY <3>1, <3>2, <1>1, <1>4, <1>7
  <2> QED
    BY <2>1, <1>1, <1>7
<1>11. 1 .. q \subseteq upTo
  <2>1. ASSUME NEW k \in 1 .. q
        PROVE  k \in DOMAIN v /\ v[k] <= c[i] + 2
    <3>1. k \in 1 .. n
      BY <1>6
    <3>2. v[k] <= v[q]
      <4>1. CASE k = q
        BY <4>1, <1>1, <1>6
      <4>2. CASE k < q
        BY <4>2, <3>1, <1>1, <1>6 DEF InOrder
      <4> QED
        BY <4>1, <4>2, <3>1, <1>6
    <3> QED
      BY <3>1, <3>2, <1>1, <1>4, <1>6
  <2> QED
    BY <2>1
<1>12. Cardinality(shorter) \in Nat /\ Cardinality(shorter) <= t - 1
  <2>1. IsFiniteSet(1 .. t - 1) /\ Cardinality(1 .. t - 1) = t - 1
    <3> DEFINE m == t - 1
    <3>1. m \in Nat
      BY <1>7
    <3> HIDE DEF m
    <3>2. IsFiniteSet(1 .. m) /\ Cardinality(1 .. m) = m
      BY <3>1, FS_Interval
    <3> QED
      BY <3>2 DEF m
  <2> HIDE DEF shorter
  <2>2. IsFiniteSet(shorter) /\ Cardinality(shorter) <= Cardinality(1 .. t - 1)
    BY <2>1, <1>10, FS_Subset
  <2> QED
    BY <2>1, <2>2, FS_CardinalityType
<1>13. Cardinality(upTo) \in Nat /\ Cardinality(upTo) >= q
  <2>1. IsFiniteSet(1 .. n)
    BY <1>1, FS_Interval
  <2>2. upTo \subseteq 1 .. n
    BY <1>1
  <2>3. Cardinality(1 .. q) = q
    BY <1>6, FS_Interval
  <2> HIDE DEF upTo
  <2>4. IsFiniteSet(upTo)
    BY <2>1, <2>2, FS_Subset
  <2>5. Cardinality(1 .. q) <= Cardinality(upTo)
    BY <2>4, <1>11, FS_Subset
  <2> QED
    BY <2>3, <2>4, <2>5, FS_CardinalityType
<1> HIDE DEF shorter, upTo
<1>14. LEVELS * (Cardinality(shorter) - 1) <= pos
  <2>1. LEVELS * (Cardinality(shorter) - 1) <= LEVELS * (t - 2)
    <3>1. /\ Cardinality(shorter) - 1 \in Int /\ t - 2 \in Int
          /\ Cardinality(shorter) - 1 <= t - 2
      BY <1>7, <1>12
    <3> QED
      BY <3>1, <1>2, Larger
  <2> QED
    BY <2>1, <1>2, <1>3, <1>7, <1>9, <1>12
<1>15. LEVELS * Cardinality(upTo) >= pos
  <2>1. LEVELS * q <= LEVELS * Cardinality(upTo)
    <3>1. q \in Int /\ Cardinality(upTo) \in Int /\ q <= Cardinality(upTo)
      BY <1>6, <1>13
    <3> QED
      BY <3>1, <1>2, Larger
  <2> QED
    BY <2>1, <1>2, <1>3, <1>6, <1>8, <1>13
<1> QED
  BY <1>14, <1>15 DEF pos, shorter, upTo

-----------------------------------------------------------------------------
(* The inductive invariant *)

\* Each host's cuts are some that its samples may give.
CutsTrue == \A h \in Hosts : workload[h] \in PriorityLevelPartitions(message_lengths[h])

IInv == TypeOK /\ SamplesInOrder /\ PartitionsAreTheHosts /\ CutsTrue

Sender   == [from : Hosts, to : Hosts, length : Lengths,
             workload : Cuts \cup {None}, priority : 0 .. 63]
Receiver(n) == [message : 1 .. n, workload : Cuts \cup {None}]

\* The senders and receivers as functions.
LEMMA TypesOfTasks ==
  ASSUME TypeOK
  PROVE  /\ sends \in Seq(Sender) /\ DOMAIN sends = 1 .. Len(sends) /\ Len(sends) \in Nat
         /\ receives \in Seq(Receiver(Len(sends)))
         /\ DOMAIN receives = 1 .. Len(receives) /\ Len(receives) \in Nat
         /\ \A s \in DOMAIN sends :
              /\ sends[s].from \in Hosts /\ sends[s].to \in Hosts
              /\ sends[s].length \in Lengths /\ sends[s].workload \in Cuts \cup {None}
              /\ sends[s] \in Sender
         /\ \A r \in DOMAIN receives :
              /\ receives[r].message \in DOMAIN sends
              /\ receives[r].workload \in Cuts \cup {None}
              /\ receives[r] \in Receiver(Len(sends))
<1>1. /\ sends \in Seq(Sender) /\ DOMAIN sends = 1 .. Len(sends) /\ Len(sends) \in Nat
      /\ receives \in Seq(Receiver(Len(sends)))
  <2>1. sends \in Seq(Sender)
    BY DEF TypeOK, Sender
  <2>2. DOMAIN sends = 1 .. Len(sends) /\ Len(sends) \in Nat
    BY <2>1, LenProperties
  <2> QED
    BY <2>1, <2>2 DEF TypeOK, Receiver
<1>2. DOMAIN receives = 1 .. Len(receives) /\ Len(receives) \in Nat
  BY <1>1, LenProperties
<1>3. ASSUME NEW s \in DOMAIN sends
      PROVE  sends[s] \in Sender
  BY <1>1, ElementOfSeq
<1>4. ASSUME NEW r \in DOMAIN receives
      PROVE  receives[r] \in Receiver(Len(sends))
  BY <1>1, <1>2, ElementOfSeq
<1>5. ASSUME NEW s \in DOMAIN sends
      PROVE  /\ sends[s].from \in Hosts /\ sends[s].to \in Hosts
             /\ sends[s].length \in Lengths /\ sends[s].workload \in Cuts \cup {None}
  BY <1>3 DEF Sender
<1>6. ASSUME NEW r \in DOMAIN receives
      PROVE  receives[r].message \in DOMAIN sends /\ receives[r].workload \in Cuts \cup {None}
  BY <1>1, <1>4 DEF Receiver
<1> QED
  BY <1>1, <1>2, <1>3, <1>4, <1>5, <1>6

\* A sequence of receivers of the first messages is one of receivers of more.
LEMMA MoreMessages ==
  ASSUME NEW n \in Nat, NEW m \in Nat, n <= m, NEW q \in Seq(Receiver(n))
  PROVE  q \in Seq(Receiver(m))
<1>1. Receiver(n) \subseteq Receiver(m)
  BY DEF Receiver
<1>2. Len(q) \in Nat /\ \A i \in 1 .. Len(q) : q[i] \in Receiver(m)
  BY <1>1, ElementOfSeq, LenProperties
<1> QED
  BY <1>2, IsASeq, LenProperties

\* What the tasks have obtained stays as it is: a message, whom it is from and
\* for, and a workload once it is there.
Grows ==
  /\ DOMAIN sends \subseteq DOMAIN sends' /\ DOMAIN receives \subseteq DOMAIN receives'
  /\ \A s \in DOMAIN sends :
       /\ sends'[s].from = sends[s].from /\ sends'[s].to = sends[s].to
       /\ sends'[s].length = sends[s].length
       /\ sends[s].workload # None => sends'[s].workload = sends[s].workload
  /\ \A r \in DOMAIN receives :
       /\ receives'[r].message = receives[r].message
       /\ receives[r].workload # None => receives'[r].workload = receives[r].workload

\* The lengths that host h counted which are n.
CountedOf(h, n) == {r \in Counted(h) : sends[receives[r].message].length = n}

\* Host g sent the workload c to host h.
SentTo(h, g, c) ==
  \/ \E s \in DOMAIN sends :
       sends[s].from = g /\ sends[s].to = h /\ sends[s].workload = c
  \/ \E r \in DOMAIN receives :
       /\ sends[receives[r].message].from = h /\ sends[receives[r].message].to = g
       /\ receives[r].workload = c

\* The two invariants in these terms.
LEMMA InTheseTerms ==
  /\ SamplesInOrder <=>
       \A h \in Hosts : /\ InOrder(message_lengths[h])
                        /\ \A n \in Lengths :
                             Times(message_lengths[h], n) = Cardinality(CountedOf(h, n))
  /\ PartitionsAreTheHosts <=>
       \A h, g \in Hosts : partitions[h][g] # None => SentTo(h, g, partitions[h][g])
<1>1. SamplesInOrder <=>
       \A h \in Hosts : /\ InOrder(message_lengths[h])
                        /\ \A n \in Lengths :
                             Times(message_lengths[h], n) = Cardinality(CountedOf(h, n))
  BY DEF SamplesInOrder, InOrder, Times, CountedOf
<1>2. PartitionsAreTheHosts <=>
       \A h, g \in Hosts : partitions[h][g] # None => SentTo(h, g, partitions[h][g])
  BY DEF PartitionsAreTheHosts, SentTo
<1> QED
  BY <1>1, <1>2

\* What was sent stays sent.
LEMMA SentStays ==
  ASSUME TypeOK, Grows, NEW h, NEW g, NEW c, c # None, SentTo(h, g, c)
  PROVE  SentTo(h, g, c)'
<1>1. CASE \E s \in DOMAIN sends :
             sends[s].from = g /\ sends[s].to = h /\ sends[s].workload = c
  <2>1. PICK s \in DOMAIN sends :
               sends[s].from = g /\ sends[s].to = h /\ sends[s].workload = c
    BY <1>1
  <2>2. /\ s \in DOMAIN sends'
        /\ sends'[s].from = g /\ sends'[s].to = h /\ sends'[s].workload = c
    BY <2>1 DEF Grows
  <2> QED
    BY <2>2 DEF SentTo
<1>2. CASE \E r \in DOMAIN receives :
             /\ sends[receives[r].message].from = h /\ sends[receives[r].message].to = g
             /\ receives[r].workload = c
  <2>1. PICK r \in DOMAIN receives :
             /\ sends[receives[r].message].from = h /\ sends[receives[r].message].to = g
             /\ receives[r].workload = c
    BY <1>2
  <2>2. receives[r].message \in DOMAIN sends
    BY TypesOfTasks
  <2>3. /\ r \in DOMAIN receives' /\ receives'[r].workload = c
        /\ receives'[r].message = receives[r].message
    BY <2>1 DEF Grows
  <2>4. /\ sends'[receives'[r].message].from = h
        /\ sends'[receives'[r].message].to = g
    BY <2>1, <2>2, <2>3 DEF Grows
  <2> QED
    BY <2>3, <2>4 DEF SentTo
<1> QED
  BY <1>1, <1>2 DEF SentTo

\* A step that counts no message keeps what has been counted.
LEMMA CountedKept ==
  ASSUME TypeOK, Grows,
         \A r \in DOMAIN receives' : receives'[r].workload # None =>
           r \in DOMAIN receives /\ receives[r].workload # None
  PROVE  \A h, n : CountedOf(h, n)' = CountedOf(h, n)
<1>1. ASSUME NEW r \in DOMAIN receives
      PROVE  /\ r \in DOMAIN receives'
             /\ sends'[receives'[r].message].to = sends[receives[r].message].to
             /\ sends'[receives'[r].message].length = sends[receives[r].message].length
             /\ receives[r].workload # None => receives'[r].workload # None
  <2>1. receives[r].message \in DOMAIN sends
    BY TypesOfTasks
  <2> QED
    BY <2>1 DEF Grows
<1>2. ASSUME NEW h, NEW n, NEW r
      PROVE  r \in CountedOf(h, n)' <=> r \in CountedOf(h, n)
  <2>1. r \in CountedOf(h, n)' <=>
          /\ r \in DOMAIN receives' /\ receives'[r].workload # None
          /\ sends'[receives'[r].message].to = h /\ sends'[receives'[r].message].length = n
    BY DEF CountedOf, Counted
  <2>2. r \in CountedOf(h, n) <=>
          /\ r \in DOMAIN receives /\ receives[r].workload # None
          /\ sends[receives[r].message].to = h /\ sends[receives[r].message].length = n
    BY DEF CountedOf, Counted
  <2> QED
    BY <2>1, <2>2, <1>1
<1> QED
  BY <1>2

LEMMA SamplesKept ==
  ASSUME TypeOK, SamplesInOrder, Grows, message_lengths' = message_lengths,
         \A r \in DOMAIN receives' : receives'[r].workload # None =>
           r \in DOMAIN receives /\ receives[r].workload # None
  PROVE  SamplesInOrder'
<1>1. \A h, n : CountedOf(h, n)' = CountedOf(h, n)
  BY CountedKept
<1>2. \A h \in Hosts : /\ InOrder(message_lengths[h])
                       /\ \A n \in Lengths :
                            Times(message_lengths[h], n) = Cardinality(CountedOf(h, n))
  BY InTheseTerms
<1>3. ASSUME NEW h \in Hosts
      PROVE  /\ InOrder(message_lengths[h])'
             /\ \A n \in Lengths :
                  Times(message_lengths[h], n)' = Cardinality(CountedOf(h, n))'
  <2>1. InOrder(message_lengths[h])'
    BY <1>2 DEF InOrder
  <2>2. ASSUME NEW n \in Lengths
        PROVE  Times(message_lengths[h], n)' = Cardinality(CountedOf(h, n))'
    <3>1. Times(message_lengths[h], n)' = Times(message_lengths[h], n)
      BY DEF Times
    <3>2. Cardinality(CountedOf(h, n))' = Cardinality(CountedOf(h, n))
      BY <1>1
    <3> QED
      BY <3>1, <3>2, <1>2
  <2> QED
    BY <2>1, <2>2
<1> QED
  BY <1>3 DEF SamplesInOrder, InOrder, Times, CountedOf

\* A step that puts no partitions keeps them true.
LEMMA PartitionsKept ==
  ASSUME TypeOK, PartitionsAreTheHosts, Grows, UNCHANGED partitions
  PROVE  PartitionsAreTheHosts'
<1>1. ASSUME NEW h \in Hosts, NEW g \in Hosts, partitions[h][g] # None
      PROVE  SentTo(h, g, partitions[h][g])'
  <2> DEFINE c == partitions[h][g]
  <2>1. SentTo(h, g, c)
    BY <1>1, InTheseTerms
  <2>2. c' = c
    OBVIOUS
  <2> QED
    BY <2>1, <2>2, <1>1, SentStays
<1> QED
  BY <1>1 DEF PartitionsAreTheHosts, SentTo

-----------------------------------------------------------------------------
(* Steps *)

LEMMA NoneIsNoCuts == None \notin Cuts
BY WorkloadAssumption DEF Cuts, Partition

LEMMA InitIInv ==
  ASSUME Init
  PROVE  IInv
<1>1. TypeOK
  <2>1. <<>> \in Seq(Lengths)
    OBVIOUS
  <2>2. message_lengths \in [Hosts -> Seq(Lengths)] /\ workload \in [Hosts -> Cuts]
    BY <2>1, DefaultCutsType DEF Init
  <2>3. partitions \in [Hosts -> [Hosts -> Cuts \cup {None}]]
    BY DEF Init
  <2>4. sends = <<>> /\ receives = <<>>
    BY DEF Init
  <2> QED
    BY <2>2, <2>3, <2>4 DEF TypeOK
<1>2. SamplesInOrder
  <2>1. ASSUME NEW h \in Hosts
        PROVE  InOrder(message_lengths[h])
    BY DEF Init, InOrder
  <2>2. ASSUME NEW h \in Hosts, NEW n \in Lengths
        PROVE  Times(message_lengths[h], n) = Cardinality(CountedOf(h, n))
    <3>1. {i \in DOMAIN message_lengths[h] : message_lengths[h][i] = n} = {}
      BY DEF Init
    <3>2. CountedOf(h, n) = {}
      BY DEF Init, CountedOf, Counted
    <3> QED
      BY <3>1, <3>2 DEF Times
  <2> QED
    BY <2>1, <2>2, InTheseTerms
<1>3. PartitionsAreTheHosts
  BY DEF Init, PartitionsAreTheHosts
<1>4. CutsTrue
  <2>1. ASSUME NEW h \in Hosts
        PROVE  workload[h] \in PriorityLevelPartitions(message_lengths[h])
    <3>1. message_lengths[h] = <<>> /\ workload[h] = DefaultCuts
      BY <2>1 DEF Init
    <3>2. Len(message_lengths[h]) < SAMPLE_SIZE
      BY <3>1, WorkloadAssumption
    <3> QED
      BY <3>1, <3>2 DEF PriorityLevelPartitions
  <2> QED
    BY <2>1 DEF CutsTrue
<1> QED
  BY <1>1, <1>2, <1>3, <1>4 DEF IInv

\* A lookup answers with a number of six bits.
LEMMA PriorityType ==
  ASSUME TypeOK, NEW h \in Hosts, NEW g \in Hosts, NEW n \in Nat
  PROVE  UnscheduledPriority(h, g, n) \in 0 .. 63
<1>1. partitions[h][g] \in Cuts \cup {None}
  BY DEF TypeOK
<1>2. CASE partitions[h][g] = None
  BY <1>2, UnknownFalls DEF UnscheduledPriority
<1>3. CASE partitions[h][g] # None
  <2>1. partitions[h][g] \in Cuts
    BY <1>1, <1>3
  <2> QED
    BY <2>1, <1>3, KnownFalls DEF UnscheduledPriority
<1> QED
  BY <1>2, <1>3

\* A lookup changes nothing that is stored; the sender has no workload yet.
LEMMA StartSenderIInv ==
  ASSUME IInv, NEW h \in Hosts, NEW g \in Hosts, NEW n \in Lengths, StartSender(h, g, n)
  PROVE  IInv'
<1> DEFINE new == [from |-> h, to |-> g, length |-> n, workload |-> None,
                   priority |-> UnscheduledPriority(h, g, n)]
<1>1. TypeOK /\ SamplesInOrder /\ PartitionsAreTheHosts /\ CutsTrue
  BY DEF IInv
<1>2. /\ sends' = Append(sends, new)
      /\ UNCHANGED <<message_lengths, workload, partitions, receives>>
  BY DEF StartSender
<1>3. n \in Nat
  BY WorkloadAssumption
<1>4. new \in Sender
  BY <1>1, <1>3, PriorityType DEF Sender
<1>5. /\ sends \in Seq(Sender) /\ Len(sends) \in Nat /\ DOMAIN sends = 1 .. Len(sends)
      /\ receives \in Seq(Receiver(Len(sends)))
  BY <1>1, TypesOfTasks
<1> HIDE DEF new
<1>6. /\ sends' \in Seq(Sender) /\ Len(sends') = Len(sends) + 1
      /\ \A i \in 1 .. Len(sends) : sends'[i] = sends[i]
  BY <1>2, <1>4, <1>5, AppendProperties
<1>7. DOMAIN sends' = 1 .. Len(sends) + 1
  BY <1>6, LenProperties
<1>8. Grows
  BY <1>2, <1>5, <1>6, <1>7 DEF Grows
<1>9. TypeOK'
  <2>1. receives' \in Seq(Receiver(Len(sends) + 1))
    BY <1>2, <1>5, MoreMessages
  <2>2. /\ message_lengths' \in [Hosts -> Seq(Lengths)] /\ workload' \in [Hosts -> Cuts]
        /\ partitions' \in [Hosts -> [Hosts -> Cuts \cup {None}]]
    BY <1>1, <1>2 DEF TypeOK
  <2> QED
    BY <2>1, <2>2, <1>6, <1>7 DEF TypeOK, Sender, Receiver
<1>10. SamplesInOrder'
  BY <1>1, <1>2, <1>8, SamplesKept
<1>11. PartitionsAreTheHosts'
  BY <1>1, <1>2, <1>8, PartitionsKept
<1>12. CutsTrue'
  BY <1>1, <1>2 DEF CutsTrue
<1> QED
  BY <1>9, <1>10, <1>11, <1>12 DEF IInv

\* The sender obtains its host's cuts.
LEMMA GetWorkloadIInv ==
  ASSUME IInv, NEW s \in DOMAIN sends, GetWorkload(s)
  PROVE  IInv'
<1>1. TypeOK /\ SamplesInOrder /\ PartitionsAreTheHosts /\ CutsTrue
  BY DEF IInv
<1>2. /\ sends[s].workload = None
      /\ sends' = [sends EXCEPT ![s].workload = workload[sends[s].from]]
      /\ UNCHANGED <<message_lengths, workload, partitions, receives>>
  BY DEF GetWorkload
<1>3. /\ sends \in Seq(Sender) /\ Len(sends) \in Nat /\ DOMAIN sends = 1 .. Len(sends)
      /\ sends[s] \in Sender /\ sends[s].from \in Hosts
      /\ receives \in Seq(Receiver(Len(sends)))
  BY <1>1, TypesOfTasks
<1>4. workload[sends[s].from] \in Cuts
  BY <1>1, <1>3 DEF TypeOK
<1> DEFINE new == [sends[s] EXCEPT !.workload = workload[sends[s].from]]
<1>5. new \in Sender /\ new.from = sends[s].from /\ new.to = sends[s].to
      /\ new.length = sends[s].length
  BY <1>3, <1>4 DEF Sender
<1>6. sends' = [sends EXCEPT ![s] = new]
  BY <1>2
<1> HIDE DEF new
<1>7. /\ sends' \in Seq(Sender) /\ Len(sends') = Len(sends)
      /\ \A i \in DOMAIN sends : sends'[i] = IF i = s THEN new ELSE sends[i]
  BY <1>3, <1>5, <1>6, ExceptSeq
<1>8. DOMAIN sends' = DOMAIN sends
  BY <1>6
<1>9. Grows
  BY <1>2, <1>5, <1>7, <1>8 DEF Grows
<1>10. TypeOK'
  BY <1>1, <1>2, <1>7, <1>8 DEF TypeOK, Sender
<1>11. SamplesInOrder'
  BY <1>1, <1>2, <1>9, SamplesKept
<1>12. PartitionsAreTheHosts'
  BY <1>1, <1>2, <1>9, PartitionsKept
<1>13. CutsTrue'
  BY <1>1, <1>2 DEF CutsTrue
<1> QED
  BY <1>10, <1>11, <1>12, <1>13 DEF IInv

\* A put of what its host sent.
LEMMA PutTrue ==
  ASSUME TypeOK, PartitionsAreTheHosts, Grows,
         NEW h \in Hosts, NEW g \in Hosts, NEW c \in Cuts, SentTo(h, g, c), Put(h, g, c)
  PROVE  /\ PartitionsAreTheHosts'
         /\ partitions' \in [Hosts -> [Hosts -> Cuts \cup {None}]]
<1>1. partitions \in [Hosts -> [Hosts -> Cuts \cup {None}]]
  BY DEF TypeOK
<1>2. c # None
  BY NoneIsNoCuts
<1>3. /\ partitions' \in [Hosts -> [Hosts -> Cuts \cup {None}]]
      /\ \A x, y \in Hosts :
           partitions'[x][y] = IF x = h /\ y = g THEN c ELSE partitions[x][y]
  BY <1>1 DEF Put
<1>4. ASSUME NEW x \in Hosts, NEW y \in Hosts, partitions'[x][y] # None
      PROVE  SentTo(x, y, partitions[x][y])'
  <2>1. CASE x = h /\ y = g
    <3>1. partitions'[x][y] = c
      BY <2>1, <1>3
    <3>2. SentTo(x, y, c)'
      BY <2>1, <1>2, SentStays
    <3> QED
      BY <3>1, <3>2 DEF SentTo
  <2>2. CASE ~ (x = h /\ y = g)
    <3> DEFINE d == partitions[x][y]
    <3>1. d' = d /\ d # None
      BY <2>2, <1>3, <1>4
    <3>2. SentTo(x, y, d)
      BY <3>1, InTheseTerms
    <3>3. PICK e : e = d
      OBVIOUS
    <3>4. SentTo(x, y, e)'
      BY <3>1, <3>2, <3>3, SentStays
    <3> QED
      BY <3>1, <3>3, <3>4 DEF SentTo
  <2> QED
    BY <2>1, <2>2
<1>5. PartitionsAreTheHosts'
  BY <1>4 DEF PartitionsAreTheHosts, SentTo
<1> QED
  BY <1>3, <1>5

\* A new receiver puts what the datagram brought under the datagram's source.
LEMMA CreateReceiverIInv ==
  ASSUME IInv, NEW s \in DOMAIN sends, CreateReceiver(s)
  PROVE  IInv'
<1> DEFINE new == [message |-> s, workload |-> None]
           c == sends[s].workload
<1>1. TypeOK /\ SamplesInOrder /\ PartitionsAreTheHosts /\ CutsTrue
  BY DEF IInv
<1>2. /\ c # None
      /\ receives' = Append(receives, new)
      /\ Put(sends[s].to, sends[s].from, c)
      /\ UNCHANGED <<message_lengths, workload, sends>>
  BY DEF CreateReceiver
<1>3. /\ DOMAIN sends = 1 .. Len(sends)
      /\ sends[s].from \in Hosts /\ sends[s].to \in Hosts /\ c \in Cuts \cup {None}
      /\ receives \in Seq(Receiver(Len(sends)))
      /\ DOMAIN receives = 1 .. Len(receives) /\ Len(receives) \in Nat
  BY <1>1, TypesOfTasks
<1>4. new \in Receiver(Len(sends)) /\ new.workload = None
  BY <1>3 DEF Receiver
<1> HIDE DEF new
<1>5. /\ receives' \in Seq(Receiver(Len(sends))) /\ Len(receives') = Len(receives) + 1
      /\ \A i \in 1 .. Len(receives) : receives'[i] = receives[i]
      /\ receives'[Len(receives) + 1] = new
  BY <1>2, <1>3, <1>4, AppendProperties
<1>6. DOMAIN receives' = 1 .. Len(receives) + 1
  BY <1>5, LenProperties
<1>7. Grows
  BY <1>2, <1>3, <1>5, <1>6 DEF Grows
<1>8. ASSUME NEW r \in DOMAIN receives', receives'[r].workload # None
      PROVE  r \in DOMAIN receives /\ receives[r].workload # None
  <2>1. r # Len(receives) + 1
    BY <1>4, <1>5, <1>8
  <2>2. r \in 1 .. Len(receives)
    BY <2>1, <1>3, <1>6
  <2> QED
    BY <2>2, <1>3, <1>5, <1>8
<1>9. SamplesInOrder'
  BY <1>1, <1>2, <1>7, <1>8, SamplesKept
<1>10. PartitionsAreTheHosts' /\ partitions' \in [Hosts -> [Hosts -> Cuts \cup {None}]]
  <2>1. SentTo(sends[s].to, sends[s].from, c)
    BY DEF SentTo
  <2>2. c \in Cuts
    BY <1>2, <1>3
  <2> HIDE DEF c
  <2> QED
    BY <2>1, <2>2, <1>1, <1>2, <1>3, <1>7, PutTrue
<1>11. TypeOK'
  BY <1>1, <1>2, <1>3, <1>5, <1>10 DEF TypeOK, Receiver
<1>12. CutsTrue'
  BY <1>1, <1>2 DEF CutsTrue
<1> QED
  BY <1>9, <1>10, <1>11, <1>12 DEF IInv

\* A reply puts the receiver's workload under the destination.
LEMMA ReceiveReplyIInv ==
  ASSUME IInv, NEW r \in DOMAIN receives, ReceiveReply(r)
  PROVE  IInv'
<1> DEFINE msg == sends[receives[r].message]
           c == receives[r].workload
<1>1. TypeOK /\ SamplesInOrder /\ PartitionsAreTheHosts /\ CutsTrue
  BY DEF IInv
<1>2. /\ c # None
      /\ Put(msg.from, msg.to, c)
      /\ UNCHANGED <<message_lengths, workload, sends, receives>>
  BY DEF ReceiveReply
<1>3. msg.from \in Hosts /\ msg.to \in Hosts /\ c \in Cuts
  BY <1>1, <1>2, TypesOfTasks
<1>4. Grows
  BY <1>2 DEF Grows
<1>5. SamplesInOrder'
  BY <1>1, <1>2, <1>4, SamplesKept
<1>6. PartitionsAreTheHosts' /\ partitions' \in [Hosts -> [Hosts -> Cuts \cup {None}]]
  <2>1. SentTo(msg.from, msg.to, c)
    BY DEF SentTo
  <2> HIDE DEF msg, c
  <2> QED
    BY <2>1, <1>1, <1>2, <1>3, <1>4, PutTrue
<1>7. TypeOK'
  BY <1>1, <1>2, <1>6 DEF TypeOK
<1>8. CutsTrue'
  BY <1>1, <1>2 DEF CutsTrue
<1> QED
  BY <1>5, <1>6, <1>7, <1>8 DEF IInv

\* A receiver has its message's length counted by its host, and gets the new cuts.
LEMMA UpdateWorkloadIInv ==
  ASSUME IInv, NEW r \in DOMAIN receives, UpdateWorkload(r)
  PROVE  IInv'
<1> DEFINE msg == sends[receives[r].message]
           h == msg.to
           n == msg.length
           v == message_lengths[h]
           w == Inserted(v, n)
<1>1. TypeOK /\ SamplesInOrder /\ PartitionsAreTheHosts /\ CutsTrue
  BY DEF IInv
<1>2. /\ DOMAIN sends = 1 .. Len(sends) /\ Len(sends) \in Nat
      /\ receives \in Seq(Receiver(Len(sends)))
      /\ DOMAIN receives = 1 .. Len(receives) /\ Len(receives) \in Nat
      /\ receives[r] \in Receiver(Len(sends)) /\ receives[r].message \in DOMAIN sends
      /\ h \in Hosts /\ n \in Lengths
  BY <1>1, TypesOfTasks
<1>3. /\ receives[r].workload = None
      /\ message_lengths' = [message_lengths EXCEPT ![h] = w]
      /\ UNCHANGED <<partitions, sends>>
  BY DEF UpdateWorkload
<1>4. message_lengths'[h] = w
  BY <1>1, <1>2, <1>3 DEF TypeOK
<1>5. PICK c \in PriorityLevelPartitions(w) :
        /\ workload' = [workload EXCEPT ![h] = c]
        /\ receives' = [receives EXCEPT ![r].workload = c]
  <2>1. \E c \in PriorityLevelPartitions(message_lengths'[h]) :
          /\ workload' = [workload EXCEPT ![h] = c]
          /\ receives' = [receives EXCEPT ![r].workload = c]
    BY DEF UpdateWorkload
  <2> HIDE DEF w, h
  <2> QED
    BY <2>1, <1>4
<1>6. v \in Seq(Lengths) /\ v \in Seq(Nat) /\ InOrder(v) /\ n \in Nat /\ Lengths \in SUBSET Nat
  <2>1. v \in Seq(Lengths) /\ n \in Nat /\ Lengths \in SUBSET Nat
    BY <1>1, <1>2, Sizes DEF TypeOK
  <2>2. Len(v) \in Nat /\ \A i \in 1 .. Len(v) : v[i] \in Nat
    BY <2>1, ElementOfSeq, LenProperties
  <2>3. v \in Seq(Nat)
    BY <2>1, <2>2, IsASeq, LenProperties
  <2>4. InOrder(v)
    BY <1>1, <1>2, InTheseTerms
  <2> QED
    BY <2>1, <2>3, <2>4
<1> HIDE DEF h, n, v
<1>7. w \in Seq(Lengths) /\ w \in Seq(Nat)
  <2>1. w \in Seq(Lengths)
    BY <1>2, <1>6, InsertedValue
  <2>2. Nat \in SUBSET Nat
    OBVIOUS
  <2>3. w \in Seq(Nat)
    BY <2>2, <1>6, InsertedValue
  <2> QED
    BY <2>1, <2>3
<1>8. InOrder(w) /\ \A m : Times(w, m) = Times(v, m) + (IF m = n THEN 1 ELSE 0)
  BY <1>6, InsertedInOrder, InsertedTimes
<1> HIDE DEF w
<1>9. c \in Cuts /\ c # None
  BY NoneIsNoCuts, PartitionsOfSamples
<1> DEFINE new == [receives[r] EXCEPT !.workload = c]
<1>10. /\ new \in Receiver(Len(sends)) /\ new.message = receives[r].message
       /\ new.workload = c
  BY <1>2, <1>9 DEF Receiver
<1>11. receives' = [receives EXCEPT ![r] = new]
  BY <1>5
<1> HIDE DEF new
<1>12. /\ receives' \in Seq(Receiver(Len(sends)))
       /\ \A i \in DOMAIN receives : receives'[i] = IF i = r THEN new ELSE receives[i]
       /\ DOMAIN receives' = DOMAIN receives
  BY <1>2, <1>10, <1>11, ExceptSeq
<1>13. Grows
  BY <1>3, <1>10, <1>12 DEF Grows
<1>14. TypeOK'
  <2>1. message_lengths' \in [Hosts -> Seq(Lengths)]
    BY <1>1, <1>3, <1>7 DEF TypeOK
  <2>2. workload' \in [Hosts -> Cuts]
    BY <1>1, <1>5, <1>9 DEF TypeOK
  <2>3. partitions' \in [Hosts -> [Hosts -> Cuts \cup {None}]]
    BY <1>1, <1>3 DEF TypeOK
  <2> QED
    BY <2>1, <2>2, <2>3, <1>1, <1>2, <1>3, <1>12 DEF TypeOK, Receiver
<1>15. SamplesInOrder'
  <2>1. ASSUME NEW x \in Hosts
        PROVE  InOrder(message_lengths[x])'
    <3>1. message_lengths'[x] = IF x = h THEN w ELSE message_lengths[x]
      BY <1>1, <1>3 DEF TypeOK
    <3>2. InOrder(message_lengths[x])
      BY <1>1, InTheseTerms
    <3>3. InOrder(message_lengths'[x])
      BY <3>1, <3>2, <1>8
    <3> QED
      BY <3>3 DEF InOrder
  <2>2. ASSUME NEW x \in Hosts, NEW m \in Lengths
        PROVE  Times(message_lengths[x], m)' = Cardinality(CountedOf(x, m))'
    <3>1. message_lengths'[x] = IF x = h THEN w ELSE message_lengths[x]
      BY <1>1, <1>3 DEF TypeOK
    <3>2. Times(message_lengths[x], m) = Cardinality(CountedOf(x, m))
      BY <1>1, InTheseTerms
    <3>3. ASSUME NEW i
          PROVE  i \in CountedOf(x, m)' <=>
                   i \in CountedOf(x, m) \/ (i = r /\ x = h /\ m = n)
      <4>1. i \in CountedOf(x, m)' <=>
              /\ i \in DOMAIN receives' /\ receives'[i].workload # None
              /\ sends'[receives'[i].message].to = x
              /\ sends'[receives'[i].message].length = m
        BY DEF CountedOf, Counted
      <4>2. i \in CountedOf(x, m) <=>
              /\ i \in DOMAIN receives /\ receives[i].workload # None
              /\ sends[receives[i].message].to = x
              /\ sends[receives[i].message].length = m
        BY DEF CountedOf, Counted
      <4>3. CASE i = r
        BY <4>1, <4>2, <4>3, <1>3, <1>9, <1>10, <1>12 DEF h, n
      <4>4. CASE i # r
        BY <4>1, <4>2, <4>4, <1>3, <1>12
      <4> QED
        BY <4>3, <4>4
    <3>4. CASE x = h /\ m = n
      <4>1. CountedOf(x, m)' = CountedOf(x, m) \cup {r}
        BY <3>3, <3>4
      <4>2. r \notin CountedOf(x, m)
        BY <1>3 DEF CountedOf, Counted
      <4>3. IsFiniteSet(CountedOf(x, m))
        <5>1. IsFiniteSet(1 .. Len(receives))
          BY <1>2, FS_Interval
        <5>2. CountedOf(x, m) \in SUBSET (1 .. Len(receives))
          BY <1>2 DEF CountedOf, Counted
        <5> QED
          BY <5>1, <5>2, FS_Subset
      <4>4. Cardinality(CountedOf(x, m) \cup {r}) = Cardinality(CountedOf(x, m)) + 1
        BY <4>2, <4>3, FS_AddElement
      <4>5. Times(message_lengths'[x], m) = Times(v, m) + 1
        BY <3>1, <3>4, <1>8
      <4>6. Times(v, m) = Times(message_lengths[x], m)
        BY <3>4 DEF v
      <4>7. Cardinality(CountedOf(x, m))' = Cardinality(CountedOf(x, m)) + 1
        BY <4>1, <4>4
      <4> QED
        BY <4>5, <4>6, <4>7, <3>2 DEF Times
    <3>5. CASE ~ (x = h /\ m = n)
      <4>1. CountedOf(x, m)' = CountedOf(x, m)
        BY <3>3, <3>5
      <4>2. Times(message_lengths'[x], m) = Times(message_lengths[x], m)
        <5>1. CASE x = h
          <6>1. m # n /\ message_lengths[x] = v
            BY <5>1, <3>5 DEF v
          <6>2. Times(v, m) \in Nat
            BY <1>6, TimesType
          <6> QED
            BY <6>1, <6>2, <5>1, <3>1, <1>8
        <5>2. CASE x # h
          BY <5>2, <3>1
        <5> QED
          BY <5>1, <5>2
      <4> QED
        BY <4>1, <4>2, <3>2 DEF Times
    <3> QED
      BY <3>4, <3>5
  <2> QED
    BY <2>1, <2>2 DEF SamplesInOrder, InOrder, Times, CountedOf
<1>16. PartitionsAreTheHosts'
  BY <1>1, <1>3, <1>13, PartitionsKept
<1>17. CutsTrue'
  <2>1. ASSUME NEW x \in Hosts
        PROVE  workload'[x] \in PriorityLevelPartitions(message_lengths'[x])
    <3>1. /\ message_lengths'[x] = IF x = h THEN w ELSE message_lengths[x]
          /\ workload'[x] = IF x = h THEN c ELSE workload[x]
      BY <1>1, <1>3, <1>5 DEF TypeOK
    <3> QED
      BY <3>1, <1>1, <1>5 DEF CutsTrue
  <2>2. ASSUME NEW x \in Hosts
        PROVE  PriorityLevelPartitions(message_lengths[x])'
                 = PriorityLevelPartitions(message_lengths'[x])
    BY DEF PriorityLevelPartitions, DefaultCuts, Quantiles, Interpolation
  <2> QED
    BY <2>1, <2>2 DEF CutsTrue
<1> QED
  BY <1>14, <1>15, <1>16, <1>17 DEF IInv

\* The invariant is inductive.
LEMMA NextIInv ==
  ASSUME IInv, [Next]_vars
  PROVE  IInv'
<1>1. ASSUME NEW h \in Hosts, NEW g \in Hosts, NEW n \in Lengths, StartSender(h, g, n)
      PROVE  IInv'
  BY <1>1, StartSenderIInv
<1>2. ASSUME NEW s \in DOMAIN sends, GetWorkload(s) \/ CreateReceiver(s)
      PROVE  IInv'
  BY <1>2, GetWorkloadIInv, CreateReceiverIInv
<1>3. ASSUME NEW r \in DOMAIN receives, UpdateWorkload(r) \/ ReceiveReply(r)
      PROVE  IInv'
  BY <1>3, UpdateWorkloadIInv, ReceiveReplyIInv
<1>4. CASE UNCHANGED vars
  <2>1. TypeOK /\ SamplesInOrder /\ PartitionsAreTheHosts /\ CutsTrue
    BY DEF IInv
  <2>2. UNCHANGED <<message_lengths, workload, partitions, sends, receives>>
    BY <1>4 DEF vars
  <2>3. Grows
    BY <2>2 DEF Grows
  <2>4. SamplesInOrder'
    BY <2>1, <2>2, <2>3, SamplesKept
  <2>5. PartitionsAreTheHosts'
    BY <2>1, <2>2, <2>3, PartitionsKept
  <2>6. TypeOK'
    BY <2>1, <2>2 DEF TypeOK
  <2>7. CutsTrue'
    BY <2>1, <2>2 DEF CutsTrue
  <2> QED
    BY <2>4, <2>5, <2>6, <2>7 DEF IInv
<1> QED
  BY <1>1, <1>2, <1>3, <1>4 DEF Next

-----------------------------------------------------------------------------
(* Theorems *)

\* The inductive invariant holds throughout, whatever order the network and the
\* actors choose.
THEOREM Invariance == Spec => []IInv
<1>1. Init => IInv
  BY InitIInv
<1>2. IInv /\ [Next]_vars => IInv'
  BY NextIInv
<1> QED
  BY <1>1, <1>2, PTL DEF Spec

\* The state of the WorkloadManagers, the PriorityManagers and the tasks is well
\* formed; among other things, a priority fits the six bits of a DSCP.
THEOREM TypeCorrect == Spec => []TypeOK
<1>1. IInv => TypeOK
  BY DEF IInv
<1> QED
  BY <1>1, Invariance, PTL

\* The samples of a WorkloadManager stay in the order its binary search needs, and
\* are the lengths counted, each as often as it was counted.
THEOREM SamplesAreOrdered == Spec => []SamplesInOrder
<1>1. IInv => SamplesInOrder
  BY DEF IInv
<1> QED
  BY <1>1, Invariance, PTL

\* What a PriorityManager has stored of a host is a workload that host sent to it,
\* though workloads arrive late and repeatedly.
THEOREM PartitionsAreTrue == Spec => []PartitionsAreTheHosts
<1>1. IInv => PartitionsAreTheHosts
  BY DEF IInv
<1> QED
  BY <1>1, Invariance, PTL

\* For any samples and levels the cuts share the samples out, whatever the f32
\* arithmetic of quantile() makes of them within Quantiles.
THEOREM SharesAreEqual == Spec => []EqualShares
<1>1. ASSUME IInv
      PROVE  EqualShares
  <2>1. TypeOK /\ SamplesInOrder /\ CutsTrue
    BY <1>1 DEF IInv
  <2>2. ASSUME NEW h \in Hosts, Len(message_lengths[h]) >= SAMPLE_SIZE, NEW i \in Partition
        PROVE  LET v == message_lengths[h]
               IN  /\ LEVELS * (Cardinality({k \in DOMAIN v : v[k] < workload[h][i]}) - 1)
                         <= (Len(v) - 1) * i
                   /\ LEVELS * Cardinality({k \in DOMAIN v : v[k] <= workload[h][i] + 2})
                         >= (Len(v) - 1) * i
    <3> DEFINE v == message_lengths[h]
    <3>1. v \in Seq(Lengths)
      BY <2>1 DEF TypeOK
    <3>2. Len(v) \in Nat /\ \A k \in 1 .. Len(v) : v[k] \in Nat
      BY <3>1, ElementOfSeq, LenProperties, Sizes
    <3>3. v \in Seq(Nat)
      BY <3>1, <3>2, IsASeq, LenProperties
    <3>4. workload[h] \in PriorityLevelPartitions(v)
      BY <2>1 DEF CutsTrue
    <3>5. InOrder(v)
      BY <2>1, InTheseTerms
    <3> HIDE DEF v
    <3> QED
      BY <2>2, <3>3, <3>4, <3>5, Shares DEF v
  <2> QED
    BY <2>2 DEF EqualShares
<1> QED
  BY <1>1, Invariance, PTL

\* Whatever cuts a host has stored of another, in order or not, a longer message to
\* it never gets the higher priority.
THEOREM LongerIsNeverHigher == Spec => []LongerNeverHigher
<1>1. ASSUME TypeOK
      PROVE  LongerNeverHigher
  <2>1. ASSUME NEW h \in Hosts, NEW g \in Hosts, NEW n \in 1 .. RTT_BYTES
        PROVE  UnscheduledPriority(h, g, n) >= UnscheduledPriority(h, g, n + 1)
    <3>1. n \in Nat /\ n + 1 \in Nat /\ n <= n + 1
      BY WorkloadAssumption
    <3>2. partitions[h][g] \in Cuts \cup {None}
      BY <1>1 DEF TypeOK
    <3>3. CASE partitions[h][g] = None
      BY <3>1, <3>3, UnknownFalls DEF UnscheduledPriority
    <3>4. CASE partitions[h][g] # None
      <4>1. partitions[h][g] \in Cuts
        BY <3>2, <3>4
      <4> QED
        BY <4>1, <3>1, <3>4, KnownFalls DEF UnscheduledPriority
    <3> QED
      BY <3>3, <3>4
  <2> QED
    BY <2>1 DEF LongerNeverHigher
<1> QED
  BY <1>1, TypeCorrect, PTL

\* The two places that compute the default partitions agree, up to the last one.
THEOREM DefaultsAreTheSame == Spec => []DefaultsAgree
<1>1. DefaultsAgree
  <2>1. ASSUME NEW h \in Hosts, NEW g \in Hosts, partitions[h][g] = DefaultCuts,
               NEW n \in 1 .. DefaultCuts[LEVELS - 1]
        PROVE  UnscheduledPriority(h, g, n) = UnknownPriority(n)
    <3>1. DefaultCuts # None
      BY DefaultCutsType, NoneIsNoCuts
    <3>2. LEVELS - 1 \in Partition
      BY WorkloadAssumption DEF Partition
    <3>3. DefaultCuts[LEVELS - 1] \in Nat
      BY <3>2, DefaultCutsType DEF Cuts
    <3>4. n \in Nat /\ n <= DefaultCuts[LEVELS - 1]
      BY <3>3
    <3> QED
      BY <3>1, <3>4, <2>1, LookupsAgree DEF UnscheduledPriority
  <2> QED
    BY <2>1 DEF DefaultsAgree
<1> QED
  BY <1>1, PTL

=============================================================================
