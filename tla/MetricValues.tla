---------------------------- MODULE MetricValues ----------------------------
(***************************************************************************)
(* The value of one metric, as create_metric and update_metric_value       *)
(* dispatch on its type.  The value is one void pointer in the code; here  *)
(* each type has a variable of its own, and a value is read as what it is  *)
(* when only the one of the metric's type is set.                          *)
(***************************************************************************)
EXTENDS MetricValue, Duration

VARIABLE type   \* the type of the metric, "none" while there is no metric

vars == <<numberVars, durationVars, type>>

Type == {"counter", "gauge", "duration"}

Init == NumberInit /\ DurationInit /\ type = "none"

\* create_*_value or update_*_value of a type, and the queries of a duration.
Dispatch(t) ==
    \/ /\ \E d \in Datagram :
            \/ t = "counter" /\ (CreateCounter(d) \/ UpdateCounter(d))
            \/ t = "gauge" /\ (CreateGauge(d) \/ UpdateGauge(d))
       /\ UNCHANGED durationVars
    \/ /\ t = "duration"
       /\ DurationNext
       /\ UNCHANGED numberVars

HasValue == counter # NoValue \/ gauge # NoValue \/ values # <<>> \/ accepted # EmptyBag

\* create_metric: without a value of its own there is no metric after all.
Create(t) ==
    /\ type = "none"
    /\ Dispatch(t)
    /\ type' = IF HasValue' THEN t ELSE "none"

\* create_metric for a datagram with tags: a metric without a root value.
CreateTagged(t) ==
    /\ type = "none"
    /\ type' = t
    /\ UNCHANGED <<numberVars, durationVars>>

\* Mutant: the datagram's type decides alone.
UpdateAnyType(t) ==
    /\ type # "none"
    /\ Dispatch(t)
    /\ UNCHANGED type

\* update_metric_value: a datagram of another type changes nothing.
Update(t) ==
    /\ type = t
    /\ Dispatch(t)
    /\ UNCHANGED type

Next == \E t \in Type : Create(t) \/ CreateTagged(t) \/ Update(t)

Spec == Init /\ [][Next]_vars
-----------------------------------------------------------------------------
\* The value of a metric is only ever of the type the metric has: no datagram makes
\* update_*_value or get_duration_instance take one kind of value for another.
ValueOfType ==
    /\ counter # NoValue => type = "counter"
    /\ gauge # NoValue => type = "gauge"
    /\ values # <<>> \/ accepted # EmptyBag \/ answers # <<>> => type = "duration"
=============================================================================
