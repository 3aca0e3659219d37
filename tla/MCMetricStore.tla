--------------------------- MODULE MCMetricStore ---------------------------
(* Instances of MetricStore for TLC. *)
EXTENDS MetricStore, TLC

\* malloc hands out zeroed memory.
MCZeroed == {FALSE}

MCSymmetry == Permutations(Name) \cup Permutations(Tags) \cup Permutations(Type)
=============================================================================
