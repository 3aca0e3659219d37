--------------------------- MODULE MCMetricValues ---------------------------
(* Instances of MetricValues for TLC. *)
EXTENDS MetricValues

\* Durations in halves: one with a fraction to cut off, one the histogram does not track,
\* one that overflows the integer, one of DBL_MAX, and a negative one.
MCSent == {-2, 3, 8, 12, 20}
=============================================================================
