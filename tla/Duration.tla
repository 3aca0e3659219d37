------------------------------ MODULE Duration ------------------------------
(***************************************************************************)
(* The value of a duration metric: the collection of exact values or the   *)
(* histogram that create_duration_value and update_duration_value fill,    *)
(* and the statistics get_duration_instance reads from it (and sorts it    *)
(* for).  Every step is one call made under the mutex of the metrics       *)
(* container.  Values arrive as multiples of a half, so that the           *)
(* conversion to unsigned long long has something to cut off.  The         *)
(* average and the standard deviation change nothing and are left out.     *)
(***************************************************************************)
EXTENDS Integers, Sequences, FiniteSets, Bags, Functions

CONSTANTS
    Aggregations,   \* settings of duration_aggregation_type
    Sent,           \* signed values of datagrams, in halves
    Highest,        \* the highest value the histogram can track
    MaxAccepted,    \* bound: values accepted in one behaviour
    DoubleMax,      \* DBL_MAX, in halves
    Limit,          \* 2^64
    Overflowed,     \* what the build makes of a double that unsigned long long cannot hold
    Int64Max,       \* INT64_MAX
    MergeSort       \* whether qsort is the stable merge sort of glibc

ASSUME DurationAssumption ==
    /\ Aggregations \subseteq {"basic", "hdr_histogram"}
    /\ Sent \subseteq Int
    /\ Highest \in Nat
    /\ MaxAccepted \in Nat
    /\ DoubleMax \in Nat
    /\ Limit \in Nat
    /\ Overflowed \subseteq Nat
    /\ Int64Max \in Nat
    /\ MergeSort \in BOOLEAN

Quantiles == {"median", "percentile90", "percentile95", "percentile99"}

Instance == Quantiles \cup {"min", "max"}

VARIABLES
    duration_aggregation_type,   \* the setting the agent was started with
    values,     \* what the collection or the histogram holds
    accepted,   \* the bag of values whose datagrams were answered with 1
    answers     \* what was answered for each instance asked since the last update

durationVars == <<duration_aggregation_type, values, accepted, answers>>

DurationInit ==
    /\ duration_aggregation_type \in Aggregations
    /\ values = <<>>
    /\ accepted = EmptyBag
    /\ answers = <<>>

-----------------------------------------------------------------------------
\* (unsigned long long) new_value, of a value that is not negative: the conversion of
\* one that is too large is undefined.
Converted(v) == IF v < 2 * Limit THEN {v \div 2} ELSE Overflowed

\* Mutant: a value that is there already is not stored again.
StoredOnce(v) ==
    IF v \in Range(values) THEN values ELSE Append(values, v)

\* The collection grows by one; hdr_record_value ignores what it cannot track.
Tracked(v) == duration_aggregation_type = "basic" \/ v <= Highest

Stored(v) == IF Tracked(v) THEN Append(values, v) ELSE values

\* create_duration_value and update_duration_value return 1 for every value that
\* is not negative and, for the first one only, less than DBL_MAX; another one is
\* refused and changes nothing.
Record ==
    /\ BagCardinality(accepted) < MaxAccepted
    /\ \E v \in Sent :
         /\ v >= 0
         /\ accepted = EmptyBag => v < DoubleMax
         /\ \E d \in Converted(v) :
              /\ values' = Stored(d)
              /\ accepted' = accepted (+) SetToBag({d})
    /\ answers' = <<>>
    /\ UNCHANGED duration_aggregation_type

\* The value of a quantile is the one at this place of the sorted collection:
\* ceil(n / 2.0 - 1) and round(p / 100.0 * n) - 1, counted from 1.
MedianRank(n) == (n + 1) \div 2

\* Mutant: the product is cut off instead of rounded.
PercentileRankCut(p, n) == (p * n) \div 100

PercentileRank(p, n) == (p * n + 50) \div 100

Rank(instance, n) ==
    CASE instance = "median"       -> MedianRank(n)
      [] instance = "percentile90" -> PercentileRank(90, n)
      [] instance = "percentile95" -> PercentileRank(95, n)
      [] instance = "percentile99" -> PercentileRank(99, n)

Below(s, v) == Cardinality({i \in DOMAIN s : s[i] < v})

UpTo(s, v) == Cardinality({i \in DOMAIN s : s[i] <= v})

\* Places of a sequence that hold a value.
EqualTo(s, v) == Cardinality({i \in DOMAIN s : s[i] = v})

\* What a correct sort leaves: at each place the value with fewer than that many values
\* below it and at least that many up to it.
Sorted(s) ==
    [k \in DOMAIN s |-> CHOOSE v \in Range(s) : Below(s, v) < k /\ k <= UpTo(s, v)]

\* What qsort leaves.  The comparator never says "less", it answers 0 or 1: that is
\* enough for a merge sort, which asks only whether the left value is greater; from
\* any other algorithm the values may come back in any order.
Arranged(s) ==
    IF MergeSort THEN {Sorted(s)}
    ELSE {t \in [DOMAIN s -> Range(s)] : \A v \in Range(s) : EqualTo(t, v) = EqualTo(s, v)}

Answered(instance, v) ==
    answers' = [i \in DOMAIN answers \cup {instance} |->
                  IF i = instance THEN v ELSE answers[i]]

\* Mutant: the collection is not sorted first.
GetQuantileUnsorted ==
    /\ duration_aggregation_type = "basic"
    /\ values # <<>>
    /\ \E instance \in Quantiles :
         Answered(instance, values[Rank(instance, Len(values))])
    /\ UNCHANGED <<duration_aggregation_type, values, accepted>>

\* get_exact_duration_instance sorts the stored collection itself.
GetQuantile ==
    /\ duration_aggregation_type = "basic"
    /\ values # <<>>
    /\ values' \in Arranged(values)
    /\ \E instance \in Quantiles :
         Answered(instance, values'[Rank(instance, Len(values))])
    /\ UNCHANGED <<duration_aggregation_type, accepted>>

\* The histogram answers min and max to its precision, here exactly.
GetExtremum ==
    /\ values # <<>>
    /\ \E v \in Range(values) :
         \/ (\A other \in Range(values) : v <= other) /\ Answered("min", v)
         \/ (\A other \in Range(values) : v >= other) /\ Answered("max", v)
    /\ UNCHANGED <<duration_aggregation_type, values, accepted>>

\* What the histogram answers that tracked none of its values: the getter has no
\* early return, and INT64_MAX is the minimum hdr_histogram starts from.
EmptyAnswer(instance) == IF instance = "min" THEN Int64Max ELSE 0

GetEmpty ==
    /\ duration_aggregation_type = "hdr_histogram"
    /\ values = <<>>
    /\ accepted # EmptyBag
    /\ \E instance \in Instance : Answered(instance, EmptyAnswer(instance))
    /\ UNCHANGED <<duration_aggregation_type, values, accepted>>

DurationNext == Record \/ GetQuantile \/ GetExtremum \/ GetEmpty

DurationSpec == DurationInit /\ [][DurationNext]_durationVars
-----------------------------------------------------------------------------
(* Properties *)

\* The places quantiles are read from are inside the collection, whatever its
\* length: no quantile is read from before its start or past its end.
IndicesInBounds ==
    values # <<>> => \A instance \in Quantiles : Rank(instance, Len(values)) \in DOMAIN values

\* The statistics of one collection agree with each other: in whatever order
\* they are asked for, min, median, the percentiles and max do not decrease.  But a
\* histogram that holds nothing answers a min above them all, and the quantiles
\* are in order among each other only if the sort is one the comparator suffices for.
AnswersOrdered ==
    LET order == <<"min", "median", "percentile90", "percentile95", "percentile99", "max">>
    IN  \A i, j \in DOMAIN order :
          i < j /\ {order[i], order[j]} \subseteq DOMAIN answers
            => \/ answers[order[i]] <= answers[order[j]]
               \/ values = <<>> /\ order[i] = "min"
               \/ ~MergeSort /\ {order[i], order[j]} \subseteq Quantiles

\* A percentile is what it is called: fewer than p percent of the values (rounded
\* to a whole number of them) lie below the answer, and that many do not lie
\* above it; half of the values for the median.  This, too, needs the merge sort.
PercentilesCover ==
    MergeSort /\ values # <<>> =>
    LET n == Len(values)
        Covers(instance, p) ==
            instance \in DOMAIN answers =>
                LET v == answers[instance]
                IN  100 * Below(values, v) <= p * n - 50 /\ p * n - 50 < 100 * UpTo(values, v)
    IN  /\ Covers("percentile90", 90)
        /\ Covers("percentile95", 95)
        /\ Covers("percentile99", 99)
        /\ "median" \in DOMAIN answers =>
             /\ 2 * Below(values, answers["median"]) < n
             /\ n <= 2 * UpTo(values, answers["median"])

\* Every value whose datagram was answered with 1, and thus counted as aggregated,
\* is held, as it was converted, as often as it was accepted, also after queries have
\* sorted the collection, in whatever order the sort leaves it; but for those the
\* histogram cannot track, which are not held at all.
AcceptedIsHeld ==
    /\ Range(values) \subseteq BagToSet(accepted)
    /\ \A v \in BagToSet(accepted) :
         EqualTo(values, v) = IF Tracked(v) THEN accepted[v] ELSE 0
=============================================================================
