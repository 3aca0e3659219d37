\* A counter or a gauge over the magnitudes 0..6, where 6 is DBL_MAX, or a duration of
\* either kind: up to twelve values, two different ones of which the histogram tracks
\* one, on both sides of the limits of their conversion, every order of queries.
SPECIFICATION Spec
CONSTANTS
    DblMax = 6
    NoValue = NoValue
    Aggregations = {"basic", "hdr_histogram"}
    Sent <- MCSent
    Highest = 3
    MaxAccepted = 12
    DoubleMax = 20
    Limit = 5
    Overflowed = {4}
    Int64Max = 7
    MergeSort = TRUE
INVARIANTS
    ValuesFinite
    ValueOfType
    IndicesInBounds
    AnswersOrdered
    PercentilesCover
    AcceptedIsHeld
PROPERTY
    CounterNeverFalls
