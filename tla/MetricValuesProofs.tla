------------------------- MODULE MetricValuesProofs -------------------------
(***************************************************************************)
(* The values of metrics: counters and gauges for every DBL_MAX, durations *)
(* for collections of every length and content, and that a metric's value  *)
(* behaves as a value of its type does alone.                              *)
(***************************************************************************)
EXTENDS MetricValues, DataLemmas, FiniteSetTheorems

-----------------------------------------------------------------------------
(* Counters and gauges *)

\* What the datagrams add up to.
LEMMA SignedRange ==
    ASSUME NEW d \in Datagram
    PROVE  Signed(d) \in -DblMax..DblMax
BY ValueAssumption DEF Datagram, Sign, Signed

\* Whatever a counter or gauge is sent, its value stays a finite double: the
\* overflow checks of update_counter_value and update_gauge_value suffice.
THEOREM FiniteCorrect == NumberSpec => []ValuesFinite
<1>1. NumberInit => ValuesFinite
  BY ValueAssumption DEF NumberInit, ValuesFinite, Datagram, Sign, NoStatus
<1>2. ValuesFinite /\ [NumberNext]_numberVars => ValuesFinite'
  <2> SUFFICES ASSUME ValuesFinite, [NumberNext]_numberVars PROVE ValuesFinite'
    OBVIOUS
  <2> USE ValueAssumption DEF ValuesFinite
  <2>1. CASE UNCHANGED numberVars
    BY <2>1 DEF numberVars
  <2>2. ASSUME NEW d \in Datagram, CreateCounter(d) PROVE ValuesFinite'
    BY <2>2, SignedRange DEF CreateCounter, Answer
  <2>3. ASSUME NEW d \in Datagram, UpdateCounter(d) PROVE ValuesFinite'
    <3>1. counter \in 0..DblMax
      BY <2>3 DEF UpdateCounter
    <3> DEFINE refused == Signed(d) < 0 \/ CounterOverflows(Signed(d))
    <3>2. CASE refused
      <4>1. counter' = counter /\ gauge' = gauge
        BY <2>3, <3>2 DEF UpdateCounter
      <4>2. datagram' = d /\ status' = [type |-> "counter", ok |-> FALSE]
        BY <2>3, <3>2 DEF UpdateCounter, Answer
      <4> QED BY <4>1, <4>2
    <3>3. CASE ~refused
      <4>1. counter + Signed(d) \in 0..DblMax
        BY <3>1, <3>3, SignedRange DEF CounterOverflows
      <4>2. counter' = counter + Signed(d) /\ gauge' = gauge
        BY <2>3, <3>3 DEF UpdateCounter
      <4>3. datagram' = d /\ status' = [type |-> "counter", ok |-> TRUE]
        BY <2>3, <3>3 DEF UpdateCounter, Answer
      <4> QED BY <4>1, <4>2, <4>3
    <3> QED BY <3>2, <3>3
  <2>4. ASSUME NEW d \in Datagram, CreateGauge(d) PROVE ValuesFinite'
    BY <2>4, SignedRange DEF CreateGauge, Answer
  <2>5. ASSUME NEW d \in Datagram, UpdateGauge(d) PROVE ValuesFinite'
    <3>1. gauge \in -DblMax..DblMax
      BY <2>5 DEF UpdateGauge
    <3>2. CASE GaugeRefuses(Signed(d))
      <4>1. counter' = counter /\ gauge' = gauge
        BY <2>5, <3>2 DEF UpdateGauge
      <4>2. datagram' = d /\ status' = [type |-> "gauge", ok |-> FALSE]
        BY <2>5, <3>2 DEF UpdateGauge, Answer
      <4> QED BY <4>1, <4>2
    <3>3. CASE ~GaugeRefuses(Signed(d))
      <4>1. gauge + Signed(d) \in -DblMax..DblMax
        BY <3>1, <3>3, SignedRange DEF GaugeRefuses
      <4>2. gauge' \in -DblMax..DblMax
        BY <2>5, <3>3, <4>1, SignedRange DEF UpdateGauge
      <4>3. counter' = counter
        BY <2>5 DEF UpdateGauge
      <4>4. datagram' = d /\ status' = [type |-> "gauge", ok |-> TRUE]
        BY <2>5, <3>3 DEF UpdateGauge, Answer
      <4> QED BY <4>2, <4>3, <4>4
    <3> QED BY <3>2, <3>3
  <2> QED BY <2>1, <2>2, <2>3, <2>4, <2>5 DEF NumberNext
<1> QED BY <1>1, <1>2, PTL DEF NumberSpec

\* Refused datagrams leave the values alone and no accepted one takes a counter
\* down: the sign check of create_counter_value and update_counter_value.
THEOREM CounterCorrect == NumberSpec => CounterNeverFalls
<1> DEFINE Step ==
        /\ counter # NoValue => counter' # NoValue /\ counter' >= counter
        /\ gauge # NoValue => gauge' # NoValue
        /\ ~status'.ok => counter' = counter /\ gauge' = gauge
<1>1. ValuesFinite /\ [NumberNext]_numberVars => [Step]_numberVars
  <2> SUFFICES ASSUME ValuesFinite, NumberNext PROVE Step
    OBVIOUS
  <2> PICK d \in Datagram :
         CreateCounter(d) \/ UpdateCounter(d) \/ CreateGauge(d) \/ UpdateGauge(d)
    BY DEF NumberNext
  <2>0. Signed(d) \in Int /\ (counter # NoValue => counter \in Int)
          /\ (gauge # NoValue => gauge \in Int)
    BY SignedRange, ValueAssumption DEF ValuesFinite
  <2>1. CASE CreateCounter(d)
    BY <2>0, <2>1 DEF CreateCounter, Answer
  <2>2. CASE UpdateCounter(d)
    BY <2>0, <2>2, ValueAssumption DEF UpdateCounter, Answer
  <2>3. CASE CreateGauge(d)
    BY <2>0, <2>3 DEF CreateGauge, Answer
  <2>4. CASE UpdateGauge(d)
    BY <2>0, <2>4, ValueAssumption DEF UpdateGauge, Answer
  <2> QED BY <2>1, <2>2, <2>3, <2>4
<1> QED BY <1>1, FiniteCorrect, PTL DEF NumberSpec, CounterNeverFalls

-----------------------------------------------------------------------------
(* What sorting a collection does *)

\* A value that belongs at place k of the sorted collection.
PlaceOf(s, v, k) == Below(s, v) < k /\ k <= UpTo(s, v)

\* Sets of places are finite, and there are at most as many as values.
LEMMA PlacesFinite ==
    ASSUME NEW n, NEW I, n \in Nat, I \subseteq 1..n
    PROVE  IsFiniteSet(I) /\ Cardinality(I) \in 0..n
<1>1. IsFiniteSet(1..n) /\ Cardinality(1..n) = n
  BY FS_Interval
<1>2. IsFiniteSet(I) /\ Cardinality(I) <= Cardinality(1..n)
  BY <1>1, FS_Subset
<1>3. Cardinality(I) \in Nat
  BY <1>2, FS_CardinalityType
<1>. QED
  BY <1>1, <1>2, <1>3

LEMMA FirstPlaces ==
    ASSUME NEW n, NEW m, n \in Nat, m \in 0..n
    PROVE  Cardinality({i \in 1..n : i <= m}) = m
<1>1. {i \in 1..n : i <= m} = 1..m
  OBVIOUS
<1>2. Cardinality(1..m) = m
  BY FS_Interval
<1>. QED
  BY <1>1, <1>2

\* The counts of a collection, and that the values up to v are those below and those equal.
LEMMA Counts ==
    ASSUME NEW s, NEW v, s \in Seq(Nat), v \in Nat
    PROVE  /\ Below(s, v) \in 0..Len(s) /\ UpTo(s, v) \in 0..Len(s) /\ EqualTo(s, v) \in Nat
           /\ UpTo(s, v) = Below(s, v) + EqualTo(s, v)
<1>. DEFINE B == {i \in DOMAIN s : s[i] < v}
            U == {i \in DOMAIN s : s[i] <= v}
            E == {i \in DOMAIN s : s[i] = v}
<1>1. DOMAIN s = 1..Len(s) /\ Len(s) \in Nat /\ \A i \in DOMAIN s : s[i] \in Nat
  OBVIOUS
<1>2. U = B \cup E /\ B \cap E = {}
  BY <1>1
<1>3. B \subseteq 1..Len(s) /\ U \subseteq 1..Len(s) /\ E \subseteq 1..Len(s)
  BY <1>1
<1>. HIDE DEF B, U, E
<1>4. /\ IsFiniteSet(B) /\ Cardinality(B) \in 0..Len(s)
      /\ IsFiniteSet(U) /\ Cardinality(U) \in 0..Len(s)
      /\ IsFiniteSet(E) /\ Cardinality(E) \in 0..Len(s)
  BY <1>1, <1>3, PlacesFinite
<1>5. Cardinality(B \cap E) = 0
  BY <1>2, FS_EmptySet
<1>6. Cardinality(B \cup E) = Cardinality(B) + Cardinality(E) - Cardinality(B \cap E)
  BY <1>4, FS_Union
<1>7. Cardinality(U) = Cardinality(B) + Cardinality(E)
  BY <1>1, <1>2, <1>4, <1>5, <1>6
<1>. QED
  BY <1>1, <1>4, <1>7 DEF Below, UpTo, EqualTo, B, U, E

\* The values up to v are among those below anything greater.
LEMMA UpToBelow ==
    ASSUME NEW s, NEW v, NEW w, s \in Seq(Nat), v \in Nat, w \in Nat, v < w
    PROVE  UpTo(s, v) <= Below(s, w)
<1>. DEFINE U == {i \in DOMAIN s : s[i] <= v}
            B == {i \in DOMAIN s : s[i] < w}
<1>1. \A i \in DOMAIN s : s[i] \in Nat
  OBVIOUS
<1>2. U \in SUBSET B /\ B \subseteq 1..Len(s) /\ Len(s) \in Nat
  BY <1>1
<1>. HIDE DEF U, B
<1>3. IsFiniteSet(B)
  BY <1>2, PlacesFinite
<1>4. Cardinality(U) <= Cardinality(B)
  BY <1>2, <1>3, FS_Subset
<1>. QED
  BY <1>4 DEF UpTo, Below, U, B

\* Some place of a nonempty set of places holds the greatest value of them.
LEMMA GreatestPlace ==
    ASSUME NEW s, NEW I, s \in Seq(Nat), I \subseteq DOMAIN s, I # {}
    PROVE  \E j \in I : \A i \in I : s[i] <= s[j]
<1>. DEFINE n == Len(s)
            T == {m \in 1..n : (\E i \in I : i <= m) =>
                                 \E j \in I : \A i \in I : i <= m => s[i] <= s[j]}
<1>1. n \in Nat /\ DOMAIN s = 1..n /\ \A i \in DOMAIN s : s[i] \in Nat
  OBVIOUS
<1>. HIDE DEF n
<1>2. ASSUME NEW m \in 1..n, m = 1 \/ m - 1 \in T
      PROVE  m \in T
  <2>. SUFFICES ASSUME NEW a \in I, a <= m
                PROVE  \E j \in I : \A i \in I : i <= m => s[i] <= s[j]
    OBVIOUS
  <2>1. \A i \in I : i \in 1..n /\ s[i] \in Nat
    BY <1>1
  <2>2. \A i \in I : i <= m => i <= m - 1 \/ i = m
    BY <2>1
  <2>3. CASE ~ \E i \in I : i <= m - 1
    <3>1. a = m /\ \A i \in I : i <= m => i = a
      BY <2>2, <2>3
    <3>. QED
      BY <2>1, <3>1
  <2>4. CASE \E i \in I : i <= m - 1
    <3>1. m # 1
      BY <2>1, <2>4
    <3>2. PICK j \in I : \A i \in I : i <= m - 1 => s[i] <= s[j]
      BY <1>2, <2>4, <3>1
    <3>3. CASE m \notin I
      BY <2>2, <3>2, <3>3
    <3>4. CASE m \in I /\ s[m] <= s[j]
      BY <2>2, <3>2, <3>4
    <3>5. CASE m \in I /\ ~(s[m] <= s[j])
      <4>1. s[j] \in Nat /\ s[m] \in Nat /\ s[j] <= s[m] /\ s[m] <= s[m]
        BY <2>1, <3>5
      <4>2. ASSUME NEW i \in I, i <= m PROVE s[i] <= s[m]
        <5>1. CASE i = m
          BY <4>1, <5>1
        <5>2. CASE i # m
          <6>1. s[i] <= s[j] /\ s[i] \in Nat
            BY <2>1, <2>2, <3>2, <4>2, <5>2
          <6>. QED
            BY <4>1, <6>1
        <5>. QED
          BY <5>1, <5>2
      <4>. QED
        BY <3>5, <4>2
    <3>. QED
      BY <3>3, <3>4, <3>5
  <2>. QED
    BY <2>3, <2>4
<1>. HIDE DEF T
<1>3. \A m \in 1..n : m \in T
  BY <1>1, <1>2, InductUpTo, Zenon
<1>4. n \in 1..n /\ \A i \in I : i <= n
  BY <1>1
<1>. QED
  BY <1>3, <1>4 DEF T

\* At every place of the sorted collection there is a value to put.
LEMMA PlaceExists ==
    ASSUME NEW s, NEW k, s \in Seq(Nat), k \in 1..Len(s)
    PROVE  \E v \in Range(s) : PlaceOf(s, v, k)
<1>. DEFINE T == {v \in Range(s) : k <= UpTo(s, v)}
<1>1. /\ Len(s) \in Nat /\ DOMAIN s = 1..Len(s) /\ \A i \in DOMAIN s : s[i] \in Nat
      /\ Range(s) = {s[i] : i \in DOMAIN s}
  BY DEF Range
<1>2. T # {}
  <2>1. PICK j \in DOMAIN s : \A i \in DOMAIN s : s[i] <= s[j]
    BY <1>1, GreatestPlace
  <2>2. {i \in DOMAIN s : s[i] <= s[j]} = {i \in 1..Len(s) : i <= Len(s)}
    BY <1>1, <2>1
  <2>3. UpTo(s, s[j]) = Len(s)
    BY <1>1, <2>2, FirstPlaces DEF UpTo
  <2>4. s[j] \in Range(s)
    BY <1>1
  <2>. QED
    BY <2>3, <2>4
<1>3. T \subseteq Nat
  BY <1>1
<1>4. PICK v \in T : \A w \in T : v <= w
  BY <1>2, <1>3, LeastNat
<1>5. v \in Range(s) /\ v \in Nat /\ k <= UpTo(s, v)
  BY <1>3
<1>6. Below(s, v) \in 0..Len(s)
  BY <1>5, Counts
<1>7. Below(s, v) < k
  <2>. SUFFICES ASSUME k <= Below(s, v) PROVE FALSE
    BY <1>1, <1>6
  <2>. DEFINE I == {i \in DOMAIN s : s[i] < v}
  <2>1. I # {}
    <3>1. Cardinality(I) # 0
      BY <1>1, <1>6 DEF Below
    <3>. QED
      BY <3>1, FS_EmptySet
  <2>2. PICK j \in I : \A i \in I : s[i] <= s[j]
    <3>1. I \subseteq DOMAIN s
      OBVIOUS
    <3>. HIDE DEF I
    <3>. QED
      BY <2>1, <3>1, GreatestPlace
  <2>3. s[j] \in Nat /\ s[j] < v /\ s[j] \in Range(s)
    BY <1>1
  <2>4. {i \in DOMAIN s : s[i] <= s[j]} = I
    BY <1>1, <1>5, <2>2, <2>3
  <2>5. UpTo(s, s[j]) = Below(s, v)
    BY <2>4 DEF UpTo, Below
  <2>6. s[j] \in T
    BY <2>3, <2>5
  <2>. QED
    BY <1>4, <1>5, <2>3, <2>6
<1>. QED
  BY <1>5, <1>7 DEF PlaceOf

\* Sorted puts that value there: what its CHOOSE picks exists.
LEMMA SortedPlaces ==
    ASSUME NEW s, s \in Seq(Nat)
    PROVE  /\ Sorted(s) \in Seq(Nat) /\ Len(Sorted(s)) = Len(s) /\ DOMAIN Sorted(s) = 1..Len(s)
           /\ \A k \in 1..Len(s) : /\ Sorted(s)[k] \in Range(s) /\ Sorted(s)[k] \in Nat
                                   /\ PlaceOf(s, Sorted(s)[k], k)
<1>1. Len(s) \in Nat /\ DOMAIN s = 1..Len(s) /\ Range(s) \subseteq Nat
  BY DEF Range
<1>2. ASSUME NEW k \in 1..Len(s)
      PROVE  Sorted(s)[k] \in Range(s) /\ PlaceOf(s, Sorted(s)[k], k)
  <2>1. Sorted(s)[k] = CHOOSE v \in Range(s) : PlaceOf(s, v, k)
    BY <1>1 DEF Sorted, PlaceOf
  <2>2. \E v \in Range(s) : PlaceOf(s, v, k)
    BY PlaceExists
  <2>. QED
    BY <2>1, <2>2
<1>3. DOMAIN Sorted(s) = 1..Len(s) /\ Sorted(s) = [k \in 1..Len(s) |-> Sorted(s)[k]]
  BY <1>1 DEF Sorted
<1>4. \A k \in 1..Len(s) : Sorted(s)[k] \in Nat
  BY <1>1, <1>2
<1>5. Sorted(s) \in [1..Len(s) -> Nat]
  BY <1>3, <1>4
<1>6. Sorted(s) \in Seq(Nat) /\ Len(Sorted(s)) = Len(s)
  BY <1>1, <1>5
<1>. QED
  BY <1>2, <1>3, <1>4, <1>6

\* Sorting keeps how many values are below, up to and equal to any given one.
LEMMA SortedCounts ==
    ASSUME NEW s, NEW v, s \in Seq(Nat), v \in Nat
    PROVE  /\ Below(Sorted(s), v) = Below(s, v)
           /\ UpTo(Sorted(s), v) = UpTo(s, v)
           /\ EqualTo(Sorted(s), v) = EqualTo(s, v)
<1>. DEFINE t == Sorted(s)
            n == Len(s)
<1>1. /\ t \in Seq(Nat) /\ Len(t) = n /\ DOMAIN t = 1..n /\ n \in Nat
      /\ \A k \in 1..n : t[k] \in Nat /\ PlaceOf(s, t[k], k)
  BY SortedPlaces
<1>. HIDE DEF t
<1>2. Below(s, v) \in 0..n /\ UpTo(s, v) \in 0..n /\ Below(s, v) <= UpTo(s, v)
  BY Counts
<1>. HIDE DEF n
<1>3. ASSUME NEW k \in 1..n
      PROVE  (t[k] < v <=> k <= Below(s, v)) /\ (t[k] <= v <=> k <= UpTo(s, v))
  <2>1. t[k] \in Nat /\ PlaceOf(s, t[k], k)
    BY <1>1
  <2>2. Below(s, t[k]) \in Int /\ UpTo(s, t[k]) \in Int
    BY <2>1, Counts
  <2>3. CASE t[k] < v
    <3>1. UpTo(s, t[k]) <= Below(s, v)
      BY <2>1, <2>3, UpToBelow
    <3>. QED
      BY <1>1, <1>2, <2>1, <2>2, <2>3, <3>1 DEF PlaceOf
  <2>4. CASE t[k] = v
    BY <1>1, <1>2, <2>1, <2>2, <2>4 DEF PlaceOf
  <2>5. CASE v < t[k]
    <3>1. UpTo(s, v) <= Below(s, t[k])
      BY <2>1, <2>5, UpToBelow
    <3>. QED
      BY <1>1, <1>2, <2>1, <2>2, <2>5, <3>1 DEF PlaceOf
  <2>. QED
    BY <2>1, <2>3, <2>4, <2>5
<1>4. Below(t, v) = Below(s, v)
  <2>1. {k \in DOMAIN t : t[k] < v} = {k \in 1..n : k <= Below(s, v)}
    BY <1>1, <1>3
  <2>2. Cardinality({k \in 1..n : k <= Below(s, v)}) = Below(s, v)
    BY <1>1, <1>2, FirstPlaces
  <2>. QED
    BY <2>1, <2>2 DEF Below
<1>5. UpTo(t, v) = UpTo(s, v)
  <2>1. {k \in DOMAIN t : t[k] <= v} = {k \in 1..n : k <= UpTo(s, v)}
    BY <1>1, <1>3
  <2>2. Cardinality({k \in 1..n : k <= UpTo(s, v)}) = UpTo(s, v)
    BY <1>1, <1>2, FirstPlaces
  <2>. QED
    BY <2>1, <2>2 DEF UpTo
<1>6. EqualTo(t, v) = EqualTo(s, v)
  <2>1. UpTo(t, v) = Below(t, v) + EqualTo(t, v) /\ EqualTo(t, v) \in Nat
    BY <1>1, Counts
  <2>2. UpTo(s, v) = Below(s, v) + EqualTo(s, v) /\ EqualTo(s, v) \in Nat
    BY Counts
  <2>3. Below(s, v) + EqualTo(t, v) = Below(s, v) + EqualTo(s, v)
    BY <1>4, <1>5, <2>1, <2>2, Zenon
  <2>4. Below(s, v) \in Int
    BY <1>1, <1>2
  <2>. QED
    BY <2>1, <2>2, <2>3, <2>4
<1>. QED
  BY <1>4, <1>5, <1>6 DEF t

\* A value is in a collection when the collection holds it once or more often.
LEMMA HeldOnce ==
    ASSUME NEW s, NEW v, s \in Seq(Nat)
    PROVE  v \in Range(s) <=> EqualTo(s, v) # 0
<1>. DEFINE E == {i \in DOMAIN s : s[i] = v}
<1>1. DOMAIN s = 1..Len(s) /\ Len(s) \in Nat /\ Range(s) = {s[i] : i \in DOMAIN s}
  BY DEF Range
<1>2. E \subseteq 1..Len(s) /\ (v \in Range(s) <=> E # {})
  BY <1>1
<1>. HIDE DEF E
<1>3. IsFiniteSet(E)
  BY <1>1, <1>2, PlacesFinite
<1>4. Cardinality(E) = 0 <=> E = {}
  BY <1>3, FS_EmptySet
<1>. QED
  BY <1>2, <1>4 DEF EqualTo, E

LEMMA SortedRange ==
    ASSUME NEW s, s \in Seq(Nat)
    PROVE  Range(Sorted(s)) = Range(s)
<1>1. Sorted(s) \in Seq(Nat)
  BY SortedPlaces
<1>2. Range(s) \subseteq Nat /\ Range(Sorted(s)) \subseteq Nat
  BY <1>1 DEF Range
<1>3. ASSUME NEW v \in Nat PROVE v \in Range(Sorted(s)) <=> v \in Range(s)
  <2>1. EqualTo(Sorted(s), v) = EqualTo(s, v)
    BY SortedCounts
  <2>2. v \in Range(Sorted(s)) <=> EqualTo(Sorted(s), v) # 0
    BY <1>1, HeldOnce
  <2>3. v \in Range(s) <=> EqualTo(s, v) # 0
    BY HeldOnce
  <2>. QED
    BY <2>1, <2>2, <2>3
<1>. QED
  BY <1>2, <1>3

\* Whatever order qsort leaves the values in, they are the same values; and each is
\* at its place if the sort is one the comparator suffices for.
LEMMA ArrangedValues ==
    ASSUME NEW s, NEW t, s \in Seq(Nat), t \in Arranged(s)
    PROVE  /\ t \in Seq(Nat) /\ Len(t) = Len(s) /\ DOMAIN t = 1..Len(s)
           /\ Range(t) = Range(s)
           /\ \A k \in 1..Len(s) : t[k] \in Range(s)
           /\ \A v \in Nat : EqualTo(t, v) = EqualTo(s, v)
           /\ MergeSort => /\ \A k \in 1..Len(s) : PlaceOf(s, t[k], k)
                           /\ \A v \in Nat : /\ Below(t, v) = Below(s, v)
                                             /\ UpTo(t, v) = UpTo(s, v)
<1>1. CASE MergeSort
  <2>1. t = Sorted(s)
    BY <1>1 DEF Arranged
  <2>2. Range(t) = Range(s)
    BY <2>1, SortedRange
  <2>3. /\ t \in Seq(Nat) /\ Len(t) = Len(s) /\ DOMAIN t = 1..Len(s)
        /\ \A k \in 1..Len(s) : t[k] \in Range(s) /\ PlaceOf(s, t[k], k)
    BY <2>1, SortedPlaces
  <2>4. \A v \in Nat : /\ EqualTo(t, v) = EqualTo(s, v)
                      /\ Below(t, v) = Below(s, v) /\ UpTo(t, v) = UpTo(s, v)
    BY <2>1, SortedCounts
  <2>. QED
    BY <2>2, <2>3, <2>4
<1>2. CASE ~MergeSort
  <2>1. t \in [DOMAIN s -> Range(s)] /\ \A v \in Range(s) : EqualTo(t, v) = EqualTo(s, v)
    BY <1>2 DEF Arranged
  <2>2. Range(s) \subseteq Nat /\ DOMAIN s = 1..Len(s) /\ Len(s) \in Nat
    BY DEF Range
  <2>3. /\ t \in Seq(Nat) /\ Len(t) = Len(s) /\ DOMAIN t = 1..Len(s)
        /\ \A k \in 1..Len(s) : t[k] \in Range(s)
    <3>1. t \in [1..Len(s) -> Nat]
      BY <2>1, <2>2
    <3>2. t \in Seq(Nat) /\ Len(t) = Len(s)
      BY <2>2, <3>1
    <3>. QED
      BY <2>1, <2>2, <3>1, <3>2
  <2>4. Range(t) \subseteq Range(s)
    BY <2>2, <2>3 DEF Range
  <2>5. ASSUME NEW v \in Nat PROVE EqualTo(t, v) = EqualTo(s, v)
    <3>1. CASE v \in Range(s)
      BY <2>1, <3>1
    <3>2. CASE v \notin Range(s)
      <4>1. v \notin Range(t)
        BY <2>4, <3>2
      <4>. QED
        BY <2>3, <3>2, <4>1, HeldOnce
    <3>. QED
      BY <3>1, <3>2
  <2>6. Range(s) \subseteq Range(t)
    <3>. SUFFICES ASSUME NEW v \in Range(s) PROVE v \in Range(t)
      OBVIOUS
    <3>1. v \in Nat /\ EqualTo(s, v) # 0
      BY <2>2, HeldOnce
    <3>. QED
      BY <2>3, <2>5, <3>1, HeldOnce
  <2>. QED
    BY <1>2, <2>3, <2>4, <2>5, <2>6
<1>. QED
  BY <1>1, <1>2

-----------------------------------------------------------------------------
(* What a duration answers *)

\* Median and percentiles are read from inside a collection of n values, at
\* places that do not decrease from one to the next.
LEMMA RanksOrdered ==
    ASSUME NEW n, n \in Nat \ {0}
    PROVE  /\ 1 <= MedianRank(n)
           /\ MedianRank(n) <= PercentileRank(90, n)
           /\ PercentileRank(90, n) <= PercentileRank(95, n)
           /\ PercentileRank(95, n) <= PercentileRank(99, n)
           /\ PercentileRank(99, n) <= n
BY Z3 DEF MedianRank, PercentileRank

LEMMA RankInside ==
    ASSUME NEW n, NEW instance, n \in Nat \ {0}, instance \in Quantiles
    PROVE  Rank(instance, n) \in 1..n
<1>1. /\ MedianRank(n) \in Int /\ PercentileRank(90, n) \in Int
      /\ PercentileRank(95, n) \in Int /\ PercentileRank(99, n) \in Int
  BY DEF MedianRank, PercentileRank
<1>2. /\ MedianRank(n) \in 1..n /\ PercentileRank(90, n) \in 1..n
      /\ PercentileRank(95, n) \in 1..n /\ PercentileRank(99, n) \in 1..n
  BY <1>1, RanksOrdered
<1>. QED
  BY <1>2 DEF Rank, Quantiles

\* What the answers are given the collection as it stands: each is one of its values,
\* and a quantile is the value at its place of the sorted collection.
AnswerRead(i, v) ==
    IF values = <<>> THEN v = EmptyAnswer(i)
    ELSE /\ v \in Range(values)
         /\ MergeSort /\ i \in Quantiles => PlaceOf(values, v, Rank(i, Len(values)))
         /\ i = "min" => \A other \in Range(values) : v <= other
         /\ i = "max" => \A other \in Range(values) : v >= other

AnswersRead ==
    /\ DOMAIN answers \subseteq Instance
    /\ \A i \in DOMAIN answers : AnswerRead(i, answers[i])

DurationInv ==
    /\ values \in Seq(Nat)
    /\ accepted \in [DOMAIN accepted -> Nat \ {0}]
    /\ DOMAIN accepted \subseteq Nat
    /\ AnswersRead
    /\ AcceptedIsHeld

\* A value added to the collection is one more equal to it, and to no other.
LEMMA AppendCounts ==
    ASSUME NEW s, NEW v, NEW w, s \in Seq(Nat), v \in Nat, w \in Nat
    PROVE  EqualTo(Append(s, v), w) = EqualTo(s, w) + (IF w = v THEN 1 ELSE 0)
<1>. DEFINE n == Len(s)
            E == {i \in DOMAIN s : s[i] = w}
            F == {i \in DOMAIN Append(s, v) : Append(s, v)[i] = w}
<1>1. n \in Nat /\ DOMAIN s = 1..n /\ DOMAIN Append(s, v) = 1..n + 1
  OBVIOUS
<1>2. \A i \in 1..n + 1 : Append(s, v)[i] = IF i = n + 1 THEN v ELSE s[i]
  BY <1>1
<1>3. E \subseteq 1..n /\ n + 1 \notin E
  BY <1>1
<1>4. CASE w = v
  <2>1. F = E \cup {n + 1}
    BY <1>1, <1>2, <1>4
  <2>. HIDE DEF E, F, n
  <2>2. IsFiniteSet(E) /\ Cardinality(E) \in 0..n
    BY <1>1, <1>3, PlacesFinite
  <2>3. Cardinality(E \cup {n + 1}) = Cardinality(E) + 1
    BY <1>3, <2>2, FS_AddElement
  <2>. QED
    BY <1>4, <2>1, <2>3 DEF EqualTo, E, F
<1>5. CASE w # v
  <2>1. F = E
    BY <1>1, <1>2, <1>5
  <2>. HIDE DEF E, F, n
  <2>2. Cardinality(E) \in 0..n
    BY <1>1, <1>3, PlacesFinite
  <2>3. EqualTo(Append(s, v), w) = EqualTo(s, w) /\ EqualTo(s, w) \in 0..n
    BY <2>1, <2>2 DEF EqualTo, E, F
  <2>. QED
    BY <1>1, <1>5, <2>3
<1>. QED
  BY <1>4, <1>5

\* The value of a datagram that was answered with 1 is held, but for one the
\* histogram cannot track.
LEMMA RecordKeeps ==
    ASSUME DurationAssumption, DurationInv, Record
    PROVE  DurationInv'
<1>0. PICK v \in Sent : v >= 0 /\ \E d \in Converted(v) :
                                    /\ values' = Stored(d)
                                    /\ accepted' = accepted (+) SetToBag({d})
  BY DEF Record
<1>1. PICK d \in Converted(v) : values' = Stored(d) /\ accepted' = accepted (+) SetToBag({d})
  BY <1>0
<1>2. d \in Nat
  BY <1>0, <1>1 DEF DurationAssumption, Converted
<1>3. /\ answers' = <<>>
      /\ values' = IF Tracked(d) THEN Append(values, d) ELSE values
      /\ \A w : Tracked(w)' <=> Tracked(w)
  BY <1>1 DEF Record, Stored, Tracked
<1>4. /\ DOMAIN accepted' = DOMAIN accepted \cup {d}
      /\ \A w \in DOMAIN accepted' :
           accepted'[w] = (IF w \in DOMAIN accepted THEN accepted[w] ELSE 0)
                            + (IF w = d THEN 1 ELSE 0)
      /\ accepted' = [w \in DOMAIN accepted' |-> accepted'[w]]
  BY <1>1 DEF (+), SetToBag
<1>5. values \in Seq(Nat) /\ values' \in Seq(Nat)
  BY <1>2, <1>3 DEF DurationInv
<1>6. /\ \A w \in DOMAIN accepted : w \in Nat /\ accepted[w] \in Nat \ {0}
      /\ Range(values) \subseteq DOMAIN accepted
      /\ \A w \in DOMAIN accepted :
           EqualTo(values, w) = IF Tracked(w) THEN accepted[w] ELSE 0
  BY DEF DurationInv, AcceptedIsHeld, BagToSet, EqualTo
<1>7. Range(values') \subseteq DOMAIN accepted'
  <2>. DEFINE n == Len(values)
              t == Append(values, d)
  <2>1. n \in Nat /\ DOMAIN values = 1..n /\ DOMAIN t = 1..n + 1
    BY <1>2, <1>5
  <2>2. ASSUME NEW i \in 1..n + 1
        PROVE  t[i] = d \/ (i \in DOMAIN values /\ t[i] = values[i])
    <3>1. CASE i = n + 1
      BY <1>2, <1>5, <2>1, <3>1
    <3>2. CASE i \in 1..n
      BY <1>2, <1>5, <2>1, <3>2
    <3>. QED
      BY <2>1, <3>1, <3>2
  <2>. HIDE DEF n, t
  <2>3. \A w \in Range(t) : w = d \/ w \in Range(values)
    BY <2>1, <2>2 DEF Range
  <2>. QED
    BY <1>3, <1>4, <1>6, <2>3 DEF t
<1>8. ASSUME NEW w \in DOMAIN accepted'
      PROVE  EqualTo(values', w) = IF Tracked(w) THEN accepted'[w] ELSE 0
  <2>1. w \in Nat
    BY <1>2, <1>4, <1>6
  <2>2. EqualTo(values, w) = IF Tracked(w) /\ w \in DOMAIN accepted THEN accepted[w] ELSE 0
    <3>1. CASE w \in DOMAIN accepted
      BY <1>6, <3>1
    <3>2. CASE w \notin DOMAIN accepted
      <4>1. w \notin Range(values)
        BY <1>6, <3>2
      <4>. QED
        BY <1>5, <3>2, <4>1, HeldOnce
    <3>. QED
      BY <3>1, <3>2
  <2>3. CASE Tracked(d)
    <3>1. EqualTo(values', w) = EqualTo(values, w) + (IF w = d THEN 1 ELSE 0)
      BY <1>2, <1>3, <1>5, <2>1, <2>3, AppendCounts
    <3>2. CASE w = d
      BY <1>4, <1>6, <2>2, <2>3, <3>1, <3>2
    <3>3. CASE w # d
      BY <1>4, <1>6, <2>2, <2>3, <3>1, <3>3
    <3>. QED
      BY <3>2, <3>3
  <2>4. CASE ~Tracked(d)
    <3>1. values' = values
      BY <1>3, <2>4
    <3>2. CASE w = d
      BY <2>2, <2>4, <3>1, <3>2
    <3>3. CASE w # d
      BY <1>4, <1>6, <2>2, <3>1, <3>3
    <3>. QED
      BY <3>2, <3>3
  <2>. QED
    BY <2>3, <2>4
<1>9. AcceptedIsHeld'
  BY <1>3, <1>7, <1>8 DEF AcceptedIsHeld, BagToSet, EqualTo
<1>10. AnswersRead'
  BY <1>3 DEF AnswersRead
<1>11. accepted' \in [DOMAIN accepted' -> Nat \ {0}] /\ DOMAIN accepted' \subseteq Nat
  <2>1. ASSUME NEW w \in DOMAIN accepted' PROVE w \in Nat /\ accepted'[w] \in Nat \ {0}
    BY <1>2, <1>4, <1>6
  <2>. QED
    BY <1>4, <2>1
<1>. QED
  BY <1>5, <1>9, <1>10, <1>11 DEF DurationInv

\* An answer to the sorted collection is an answer to the collection.
LEMMA QuantileKeeps ==
    ASSUME DurationInv, GetQuantile
    PROVE  DurationInv'
<1>1. values \in Seq(Nat) /\ values # <<>>
  BY DEF DurationInv, GetQuantile
<1>2. values' \in Arranged(values)
  BY DEF GetQuantile
<1>. DEFINE n == Len(values)
<1>3. /\ n \in Nat \ {0} /\ values' \in Seq(Nat) /\ Len(values') = n
      /\ \A k \in 1..n : /\ values'[k] \in Range(values)
                         /\ MergeSort => PlaceOf(values, values'[k], k)
      /\ Range(values') = Range(values) /\ Range(values) \subseteq Nat
      /\ values' # <<>>
  <2>1. Range(values) \subseteq Nat
    BY <1>1 DEF Range
  <2>2. n \in Nat \ {0}
    BY <1>1
  <2>. QED
    BY <1>1, <1>2, <2>1, <2>2, ArrangedValues
<1>4. ASSUME NEW v \in Nat
      PROVE  /\ EqualTo(values', v) = EqualTo(values, v)
             /\ MergeSort => \A k : PlaceOf(values', v, k) <=> PlaceOf(values, v, k)
  BY <1>1, <1>2, ArrangedValues DEF PlaceOf
<1>5. PICK instance \in Quantiles : Answered(instance, values'[Rank(instance, n)])
  BY <1>3 DEF GetQuantile
<1>. DEFINE a == values'[Rank(instance, n)]
<1>6. Rank(instance, n) \in 1..n
  BY <1>3, RankInside
<1>7. a \in Range(values) /\ (MergeSort => PlaceOf(values, a, Rank(instance, n)))
  <2>. DEFINE r == Rank(instance, n)
  <2>1. r \in 1..n
    BY <1>6
  <2>. HIDE DEF r, n
  <2>2. values'[r] \in Range(values)
    BY <1>3, <2>1, Zenon
  <2>3. MergeSort => PlaceOf(values, values'[r], r)
    BY <1>3, <2>1, Zenon
  <2>. QED
    BY <2>2, <2>3 DEF r
<1>. HIDE DEF n, a
<1>8. /\ DOMAIN answers' = DOMAIN answers \cup {instance}
      /\ \A i \in DOMAIN answers' : answers'[i] = IF i = instance THEN a ELSE answers[i]
  BY <1>5 DEF Answered, a
<1>9. AnswersRead'
  <2>. SUFFICES ASSUME NEW i \in DOMAIN answers'
                PROVE  /\ answers'[i] \in Range(values)
                       /\ MergeSort /\ i \in Quantiles
                            => PlaceOf(values, answers'[i], Rank(i, n))
                       /\ i = "min" => \A other \in Range(values) : answers'[i] <= other
                       /\ i = "max" => \A other \in Range(values) : answers'[i] >= other
    <3>1. DOMAIN answers' \subseteq Instance
      BY <1>8 DEF DurationInv, AnswersRead, Instance
    <3>2. \A i : Rank(i, n)' = Rank(i, n)
      BY <1>3 DEF n
    <3>. QED
      BY <1>3, <1>4, <3>1, <3>2 DEF AnswersRead, AnswerRead, n
  <2>1. CASE i = instance
    BY <1>7, <1>8, <2>1 DEF Quantiles
  <2>2. CASE i # instance
    <3>1. i \in DOMAIN answers /\ answers'[i] = answers[i]
      BY <1>8, <2>2
    <3>2. AnswerRead(i, answers[i])
      BY <3>1 DEF DurationInv, AnswersRead
    <3>. QED
      BY <1>1, <3>1, <3>2 DEF AnswerRead, n
  <2>. QED
    BY <2>1, <2>2
<1>10. UNCHANGED <<duration_aggregation_type, accepted>>
  BY DEF GetQuantile
<1>11. AcceptedIsHeld'
  <2>1. /\ Range(values) \subseteq DOMAIN accepted /\ DOMAIN accepted \subseteq Nat
        /\ \A w \in DOMAIN accepted :
             EqualTo(values, w) = IF Tracked(w) THEN accepted[w] ELSE 0
    BY DEF DurationInv, AcceptedIsHeld, BagToSet, EqualTo
  <2>2. \A w : Tracked(w)' <=> Tracked(w)
    BY <1>10 DEF Tracked
  <2>3. \A w \in DOMAIN accepted' :
             EqualTo(values', w) = IF Tracked(w)' THEN accepted'[w] ELSE 0
    BY <1>4, <1>10, <2>1, <2>2
  <2>4. Range(values') \subseteq DOMAIN accepted'
    BY <1>3, <1>10, <2>1
  <2>. QED
    BY <2>3, <2>4 DEF AcceptedIsHeld, BagToSet, EqualTo
<1>. QED
  BY <1>3, <1>9, <1>10, <1>11 DEF DurationInv

LEMMA ExtremumKeeps ==
    ASSUME DurationInv, GetExtremum
    PROVE  DurationInv'
<1>1. UNCHANGED <<duration_aggregation_type, values, accepted>> /\ values # <<>>
  BY DEF GetExtremum
<1>2. PICK v \in Range(values), instance \in {"min", "max"} :
        /\ instance = "min" => \A other \in Range(values) : v <= other
        /\ instance = "max" => \A other \in Range(values) : v >= other
        /\ Answered(instance, v)
  BY DEF GetExtremum
<1>3. /\ DOMAIN answers' = DOMAIN answers \cup {instance}
      /\ \A i \in DOMAIN answers' : answers'[i] = IF i = instance THEN v ELSE answers[i]
  BY <1>2 DEF Answered
<1>4. AnswersRead'
  <2>. SUFFICES ASSUME NEW i \in DOMAIN answers'
                PROVE  AnswerRead(i, answers'[i])
    <3>1. DOMAIN answers' \subseteq Instance
      BY <1>3 DEF DurationInv, AnswersRead, Instance
    <3>2. values' = values
      BY <1>1
    <3>. QED
      BY <1>1, <3>1, <3>2 DEF AnswersRead, AnswerRead
  <2>1. CASE i = instance
    BY <1>1, <1>2, <1>3, <2>1 DEF AnswerRead, Quantiles
  <2>2. CASE i # instance
    BY <1>3, <2>2 DEF DurationInv, AnswersRead
  <2>. QED
    BY <2>1, <2>2
<1>. QED
  BY <1>1, <1>4 DEF DurationInv, AcceptedIsHeld, Tracked

\* A histogram that holds nothing answers the same whenever it is asked.
LEMMA EmptyKeeps ==
    ASSUME DurationInv, GetEmpty
    PROVE  DurationInv'
<1>1. UNCHANGED <<duration_aggregation_type, values, accepted>> /\ values = <<>>
  BY DEF GetEmpty
<1>2. PICK instance \in Instance : Answered(instance, EmptyAnswer(instance))
  BY DEF GetEmpty
<1>3. /\ DOMAIN answers' = DOMAIN answers \cup {instance}
      /\ \A i \in DOMAIN answers' :
           answers'[i] = IF i = instance THEN EmptyAnswer(instance) ELSE answers[i]
  BY <1>2 DEF Answered
<1>4. AnswersRead'
  BY <1>1, <1>2, <1>3 DEF DurationInv, AnswersRead, AnswerRead
<1>. QED
  BY <1>1, <1>4 DEF DurationInv, AcceptedIsHeld, Tracked

LEMMA DurationInvariant == DurationSpec => []DurationInv
<1>1. DurationInit => DurationInv
  <2>. SUFFICES ASSUME DurationInit PROVE DurationInv
    OBVIOUS
  <2>1. values = <<>> /\ answers = <<>> /\ accepted = EmptyBag
    BY DEF DurationInit
  <2>2. /\ DOMAIN accepted = {} /\ accepted = [w \in {} |-> accepted[w]]
        /\ DOMAIN answers = {} /\ Range(values) = {} /\ values \in Seq(Nat)
    BY <2>1 DEF EmptyBag, SetToBag, Range
  <2>. QED
    BY <2>1, <2>2 DEF DurationInv, AnswersRead, AcceptedIsHeld, BagToSet
<1>2. DurationInv /\ [DurationNext]_durationVars => DurationInv'
  <2>. SUFFICES ASSUME DurationInv, [DurationNext]_durationVars PROVE DurationInv'
    OBVIOUS
  <2>1. CASE UNCHANGED durationVars
    BY <2>1 DEF durationVars, DurationInv, AnswersRead, AnswerRead, AcceptedIsHeld, Tracked
  <2>. QED
    BY <2>1, DurationAssumption, RecordKeeps, QuantileKeeps, ExtremumKeeps, EmptyKeeps
       DEF DurationNext
<1>. QED
  BY <1>1, <1>2, PTL DEF DurationSpec

\* No quantile is ever read from outside the collection: the index expressions of
\* get_exact_duration_instance are in bounds for collections of every length.
THEOREM IndicesCorrect == DurationSpec => []IndicesInBounds
<1>1. DurationInv => IndicesInBounds
  <2>. SUFFICES ASSUME DurationInv, values # <<>>, NEW instance \in Quantiles
                PROVE  Rank(instance, Len(values)) \in DOMAIN values
    BY DEF IndicesInBounds
  <2>1. Len(values) \in Nat \ {0} /\ DOMAIN values = 1..Len(values)
    BY DEF DurationInv
  <2>. QED
    BY <2>1, RankInside
<1>. QED
  BY <1>1, DurationInvariant, PTL

\* A value at an earlier place of the sorted collection is not greater.
LEMMA PlacesOrdered ==
    ASSUME NEW s, NEW v, NEW w, NEW k, NEW l,
           s \in Seq(Nat), v \in Nat, w \in Nat, k \in Nat, l \in Nat, k <= l,
           PlaceOf(s, v, k), PlaceOf(s, w, l)
    PROVE  v <= w
<1>. SUFFICES ASSUME w < v PROVE FALSE
  OBVIOUS
<1>1. UpTo(s, w) <= Below(s, v)
  BY UpToBelow
<1>2. UpTo(s, w) \in Int /\ Below(s, v) \in Int
  BY Counts
<1>. QED
  BY <1>1, <1>2 DEF PlaceOf

\* Whatever the values and in whatever order they are asked for, the statistics of one
\* collection agree: min and max bound every answer, and median and percentiles do not
\* decrease if the sort is one the comparator suffices for.  The min of a histogram that
\* holds nothing is the exception.
THEOREM OrderCorrect == DurationSpec => []AnswersOrdered
<1>1. DurationInv => AnswersOrdered
  <2>. SUFFICES ASSUME DurationInv PROVE AnswersOrdered
    OBVIOUS
  <2>. DEFINE n == Len(values)
  <2>1. /\ values \in Seq(Nat) /\ Range(values) \subseteq Nat
        /\ values # <<>> => n \in Nat \ {0}
    BY DEF DurationInv, Range
  <2>2. ASSUME NEW i \in DOMAIN answers, values # <<>>
        PROVE  answers[i] \in Nat /\ answers[i] \in Range(values) /\ n \in Nat \ {0}
    BY <2>1, <2>2 DEF DurationInv, AnswersRead, AnswerRead
  <2>. HIDE DEF n
  <2>3. ASSUME NEW i \in DOMAIN answers, NEW j \in DOMAIN answers, values # <<>>, MergeSort,
               i \in Quantiles, j \in Quantiles, Rank(i, n) <= Rank(j, n)
        PROVE  answers[i] <= answers[j]
    <3>1. PlaceOf(values, answers[i], Rank(i, n)) /\ PlaceOf(values, answers[j], Rank(j, n))
      BY <2>3 DEF DurationInv, AnswersRead, AnswerRead, n
    <3>2. Rank(i, n) \in Nat /\ Rank(j, n) \in Nat
      BY <2>2, <2>3, RankInside
    <3>3. answers[i] \in Nat /\ answers[j] \in Nat
      BY <2>2, <2>3
    <3>. QED
      BY <2>1, <2>3, <3>1, <3>2, <3>3, PlacesOrdered
  <2>4. ASSUME NEW i \in DOMAIN answers, values # <<>>
        PROVE  /\ "min" \in DOMAIN answers => answers["min"] <= answers[i]
               /\ "max" \in DOMAIN answers => answers[i] <= answers["max"]
    BY <2>2, <2>4 DEF DurationInv, AnswersRead, AnswerRead
  <2>5. ASSUME n \in Nat \ {0}
        PROVE  /\ Rank("median", n) <= Rank("percentile90", n)
               /\ Rank("median", n) <= Rank("percentile95", n)
               /\ Rank("median", n) <= Rank("percentile99", n)
               /\ Rank("percentile90", n) <= Rank("percentile95", n)
               /\ Rank("percentile90", n) <= Rank("percentile99", n)
               /\ Rank("percentile95", n) <= Rank("percentile99", n)
    <3>1. /\ MedianRank(n) \in Int /\ PercentileRank(90, n) \in Int
          /\ PercentileRank(95, n) \in Int /\ PercentileRank(99, n) \in Int
      BY <2>5 DEF MedianRank, PercentileRank
    <3>. QED
      BY <2>5, <3>1, RanksOrdered DEF Rank
  <2>. DEFINE order == <<"min", "median", "percentile90", "percentile95", "percentile99", "max">>
  <2>6. ASSUME NEW i \in 1..6, NEW j \in 1..6, i < j,
               order[i] \in DOMAIN answers, order[j] \in DOMAIN answers
        PROVE  \/ answers[order[i]] <= answers[order[j]]
               \/ values = <<>> /\ order[i] = "min"
               \/ ~MergeSort /\ {order[i], order[j]} \subseteq Quantiles
    <3>1. CASE values = <<>>
      <4>1. \A k \in DOMAIN answers : answers[k] = EmptyAnswer(k)
        BY <3>1 DEF DurationInv, AnswersRead, AnswerRead
      <4>. QED
        BY <2>6, <3>1, <4>1 DEF EmptyAnswer
    <3>2. CASE values # <<>> /\ i = 1
      BY <2>4, <2>6, <3>2
    <3>3. CASE values # <<>> /\ j = 6
      BY <2>4, <2>6, <3>3
    <3>4. CASE values # <<>> /\ i # 1 /\ j # 6
      <4>1. i \in 2..4 /\ j \in 3..5 /\ order[i] \in Quantiles /\ order[j] \in Quantiles
        BY <2>6, <3>4 DEF Quantiles
      <4>2. n \in Nat \ {0}
        BY <2>2, <2>6, <3>4
      <4>3. Rank(order[i], n) <= Rank(order[j], n)
        BY <2>5, <2>6, <4>1, <4>2
      <4>4. CASE MergeSort
        BY <2>3, <2>6, <3>4, <4>1, <4>3, <4>4
      <4>5. CASE ~MergeSort
        BY <4>1, <4>5
      <4>. QED
        BY <4>4, <4>5
    <3>. QED
      BY <3>1, <3>2, <3>3, <3>4
  <2>. QED
    BY <2>6 DEF AnswersOrdered
<1>. QED
  BY <1>1, DurationInvariant, PTL

\* An answer lies where its name says in collections of every size: fewer than half of
\* the values, or 90, 95 or 99 percent of them as rounded, are below it, and that many
\* are not above it.
THEOREM PercentilesCorrect == DurationSpec => []PercentilesCover
<1>1. DurationInv => PercentilesCover
  <2>. SUFFICES ASSUME DurationInv, MergeSort, values # <<>> PROVE PercentilesCover
    BY DEF PercentilesCover
  <2>. DEFINE n == Len(values)
  <2>1. values \in Seq(Nat) /\ Range(values) \subseteq Nat /\ n \in Nat
    BY DEF DurationInv, Range
  <2>2. ASSUME NEW i \in DOMAIN answers, i \in Quantiles
        PROVE  /\ Below(values, answers[i]) \in Int /\ UpTo(values, answers[i]) \in Int
               /\ Below(values, answers[i]) < Rank(i, n)
               /\ Rank(i, n) <= UpTo(values, answers[i])
    <3>1. answers[i] \in Nat /\ PlaceOf(values, answers[i], Rank(i, n))
      BY <2>1, <2>2 DEF DurationInv, AnswersRead, AnswerRead
    <3>2. Below(values, answers[i]) \in Int /\ UpTo(values, answers[i]) \in Int
      BY <2>1, <3>1, Counts
    <3>. QED
      BY <3>1, <3>2 DEF PlaceOf
  <2>. HIDE DEF n
  <2>3. ASSUME NEW p \in {90, 95, 99}, NEW b \in Int, NEW u \in Int,
               b < PercentileRank(p, n), PercentileRank(p, n) <= u
        PROVE  100 * b <= p * n - 50 /\ p * n - 50 < 100 * u
    BY <2>1, <2>3, Z3 DEF PercentileRank
  <2>4. ASSUME NEW b \in Int, NEW u \in Int, b < MedianRank(n), MedianRank(n) <= u
        PROVE  2 * b < n /\ n <= 2 * u
    BY <2>1, <2>4, Z3 DEF MedianRank
  <2>. DEFINE Covers(i, p) ==
                i \in DOMAIN answers =>
                  /\ 100 * Below(values, answers[i]) <= p * n - 50
                  /\ p * n - 50 < 100 * UpTo(values, answers[i])
  <2>5. Covers("percentile90", 90)
    BY <2>2, <2>3 DEF Quantiles, Rank
  <2>6. Covers("percentile95", 95)
    BY <2>2, <2>3 DEF Quantiles, Rank
  <2>7. Covers("percentile99", 99)
    BY <2>2, <2>3 DEF Quantiles, Rank
  <2>8. "median" \in DOMAIN answers =>
          /\ 2 * Below(values, answers["median"]) < n
          /\ n <= 2 * UpTo(values, answers["median"])
    BY <2>2, <2>4 DEF Quantiles, Rank
  <2>. QED
    BY <2>5, <2>6, <2>7, <2>8 DEF PercentilesCover, n
<1>. QED
  BY <1>1, DurationInvariant, PTL

\* No value that was answered with 1 is lost or counted twice, however updates and the
\* queries that sort the collection follow each other; a histogram holds those of them
\* that it can track.
THEOREM HeldCorrect == DurationSpec => []AcceptedIsHeld
<1>1. DurationInv => AcceptedIsHeld
  BY DEF DurationInv
<1>. QED
  BY <1>1, DurationInvariant, PTL

-----------------------------------------------------------------------------
(* A metric's value *)

\* A step of create_metric or update_metric_value is a step of one kind of value, and
\* leaves the others alone.
LEMMA StepOfParts ==
    [Next]_vars => [NumberNext]_numberVars /\ [DurationNext]_durationVars
<1> SUFFICES ASSUME [Next]_vars PROVE [NumberNext]_numberVars /\ [DurationNext]_durationVars
  OBVIOUS
<1>1. CASE UNCHANGED vars
  BY <1>1 DEF vars
<1>2. ASSUME NEW t \in Type, Dispatch(t)
      PROVE  [NumberNext]_numberVars /\ [DurationNext]_durationVars
  BY <1>2 DEF Dispatch, NumberNext
<1>3. ASSUME NEW t \in Type, CreateTagged(t)
      PROVE  [NumberNext]_numberVars /\ [DurationNext]_durationVars
  BY <1>3 DEF CreateTagged
<1> QED BY <1>1, <1>2, <1>3 DEF Next, Create, Update

\* create_metric and update_metric_value implement the counter, gauge and duration
\* specifications at once, by projection on their variables.
THEOREM PartsImplemented == Spec => NumberSpec /\ DurationSpec
<1>1. Init => NumberInit /\ DurationInit
  BY DEF Init
<1> QED BY <1>1, StepOfParts, PTL DEF Spec, NumberSpec, DurationSpec

\* So what holds of each kind of value holds of a metric of any type: finite numbers,
\* counters that never fall, durations held as accepted and statistics that are read
\* inside the collection, ordered and at the places their names say.
THEOREM ValuesCorrect ==
    Spec => /\ []ValuesFinite /\ CounterNeverFalls
            /\ [](IndicesInBounds /\ AnswersOrdered /\ PercentilesCover /\ AcceptedIsHeld)
BY PartsImplemented, FiniteCorrect, CounterCorrect, IndicesCorrect, OrderCorrect,
   PercentilesCorrect, HeldCorrect, PTL

\* No datagram makes one kind of value be taken for another: the type a metric got
\* when it was created decides.
THEOREM TypeOfValueCorrect == Spec => []ValueOfType
<1>1. Init => ValueOfType
  BY DEF Init, NumberInit, DurationInit, ValueOfType
<1>2. ValueOfType /\ [Next]_vars => ValueOfType'
  <2> SUFFICES ASSUME ValueOfType, [Next]_vars PROVE ValueOfType'
    OBVIOUS
  <2> USE DEF ValueOfType
  <2> DEFINE Only(t) == /\ t # "counter" => UNCHANGED counter
                        /\ t # "gauge" => UNCHANGED gauge
                        /\ t # "duration" => UNCHANGED <<values, accepted, answers>>
  <2>1. CASE UNCHANGED vars
    BY <2>1 DEF vars, numberVars, durationVars
  <2>2. ASSUME NEW t \in Type, Dispatch(t) PROVE Only(t)
    BY <2>2 DEF Dispatch, CreateCounter, UpdateCounter, CreateGauge, UpdateGauge,
                numberVars, durationVars
  <2>3. ASSUME NEW t \in Type, Create(t) PROVE ValueOfType'
    <3>1. Only(t) /\ type = "none"
      BY <2>2, <2>3 DEF Create
    <3>2. CASE HasValue' /\ type' = t
      BY <3>1, <3>2
    <3>3. CASE ~HasValue' /\ type' = "none"
      <4>1. values = <<>> /\ answers = <<>> /\ accepted = EmptyBag
        BY <3>1
      <4>2. answers' = <<>>
        BY <2>3, <4>1 DEF Create, Dispatch, durationVars, DurationNext, Record, GetQuantile,
                          GetExtremum, GetEmpty
      <4> QED BY <3>1, <3>3, <4>2 DEF HasValue
    <3> QED BY <2>3, <3>2, <3>3 DEF Create
  <2>4. ASSUME NEW t \in Type, CreateTagged(t) PROVE ValueOfType'
    BY <2>4 DEF CreateTagged, numberVars, durationVars
  <2>5. ASSUME NEW t \in Type, Update(t) PROVE ValueOfType'
    <3>1. Only(t) /\ type = t /\ type' = t
      BY <2>2, <2>5 DEF Update
    <3> QED BY <3>1
  <2> QED BY <2>1, <2>3, <2>4, <2>5 DEF Next
<1> QED BY <1>1, <1>2, PTL DEF Spec
=============================================================================
