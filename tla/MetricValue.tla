---------------------------- MODULE MetricValue ----------------------------
(***************************************************************************)
(* The value of one counter and of one gauge, as created by the first      *)
(* datagram and updated by the later ones.  Each step is one call made     *)
(* under the mutex of the metrics container.  Doubles are integers here,   *)
(* DBL_MAX is the largest of them and addition is exact.                   *)
(***************************************************************************)
EXTENDS Integers

CONSTANTS
    DblMax,     \* DBL_MAX
    NoValue     \* a value pointer that is NULL

ASSUME ValueAssumption ==
    /\ DblMax \in Nat \ {0}
    /\ NoValue \notin Int

Sign == {"none", "plus", "minus"}

\* A datagram's value: an optional sign and a magnitude, finite after parsing.
Datagram == [explicit_sign : Sign, value : 0..DblMax]

VARIABLES
    counter,    \* *(double*)value of the counter
    gauge,      \* *(double*)value of the gauge
    datagram,   \* the datagram handled last
    status      \* what the call made for it returned, and for which metric

numberVars == <<counter, gauge, datagram, status>>

NoStatus == [type |-> "none", ok |-> FALSE]

NumberInit ==
    /\ counter = NoValue
    /\ gauge = NoValue
    /\ datagram = [explicit_sign |-> "none", value |-> 0]
    /\ status = NoStatus

\* explicit_sign is applied to the magnitude.
Signed(d) == IF d.explicit_sign = "minus" THEN -d.value ELSE d.value

Answer(d, type, ok) ==
    /\ datagram' = d
    /\ status' = [type |-> type, ok |-> ok]

CreateCounter(d) ==
    /\ counter = NoValue
    /\ \/ Signed(d) < 0 /\ Answer(d, "counter", FALSE) /\ UNCHANGED counter
       \/ Signed(d) >= 0 /\ Answer(d, "counter", TRUE) /\ counter' = Signed(d)
    /\ UNCHANGED gauge

\* Mutant: the value is looked at alone, not the sum.
CounterOverflowsAlone(v) == v > DblMax

CounterOverflows(v) == v > DblMax - counter

\* Mutant: decrements get through.
UpdateCounterSigned(d) ==
    LET refused == CounterOverflows(Signed(d))
    IN  /\ counter # NoValue
        /\ \/ refused /\ Answer(d, "counter", FALSE) /\ UNCHANGED counter
           \/ ~refused /\ Answer(d, "counter", TRUE) /\ counter' = counter + Signed(d)
        /\ UNCHANGED gauge

UpdateCounter(d) ==
    LET refused == Signed(d) < 0 \/ CounterOverflows(Signed(d))
    IN  /\ counter # NoValue
        /\ \/ refused /\ Answer(d, "counter", FALSE) /\ UNCHANGED counter
           \/ ~refused /\ Answer(d, "counter", TRUE) /\ counter' = counter + Signed(d)
        /\ UNCHANGED gauge

CreateGauge(d) ==
    /\ gauge = NoValue
    /\ gauge' = Signed(d)
    /\ Answer(d, "gauge", TRUE)
    /\ UNCHANGED counter

\* The overflow check, and what the code has for an underflow check.  Both are
\* made before the sign decides between setting and adding.
GaugeRefuses(v) ==
    \/ gauge > 0 /\ v > DblMax - gauge
    \/ gauge < 0 /\ v < DblMax - gauge

UpdateGauge(d) ==
    /\ gauge # NoValue
    /\ \/ GaugeRefuses(Signed(d)) /\ Answer(d, "gauge", FALSE) /\ UNCHANGED gauge
       \/ /\ ~GaugeRefuses(Signed(d))
          /\ Answer(d, "gauge", TRUE)
          /\ gauge' = IF d.explicit_sign = "none" THEN Signed(d) ELSE gauge + Signed(d)
    /\ UNCHANGED counter

\* One disjunct per create_*_value or update_*_value.
NumberNext ==
    \E d \in Datagram :
        CreateCounter(d) \/ UpdateCounter(d) \/ CreateGauge(d) \/ UpdateGauge(d)

NumberSpec == NumberInit /\ [][NumberNext]_numberVars
-----------------------------------------------------------------------------
(* Properties *)

\* No sequence of datagrams takes a value out of the range of a finite double:
\* the overflow checks, which look at the operands, refuse a sum in time, and a
\* counter is never negative.
ValuesFinite ==
    /\ counter \in 0..DblMax \cup {NoValue}
    /\ gauge \in -DblMax..DblMax \cup {NoValue}
    /\ datagram \in Datagram
    /\ status \in [type : {"none", "counter", "gauge"}, ok : BOOLEAN]

\* A counter never goes down, and a value once there never disappears: whatever
\* is refused leaves the recorded value as it was.
CounterNeverFalls ==
    [][/\ counter # NoValue => counter' # NoValue /\ counter' >= counter
       /\ gauge # NoValue => gauge' # NoValue
       /\ ~status'.ok => counter' = counter /\ gauge' = gauge]_numberVars

\* What the documentation says of a gauge: a signed value is added to or subtracted
\* from the stored one, an unsigned one replaces it.  A sum beyond a double cannot
\* be stored; anything else is.
GaugeAsDocumented ==
    [][status'.type = "gauge" /\ gauge # NoValue
         => LET v   == Signed(datagram')
                new == IF datagram'.explicit_sign = "none" THEN v ELSE gauge + v
            IN  gauge' = IF new \in -DblMax..DblMax THEN new ELSE gauge]_numberVars
=============================================================================
