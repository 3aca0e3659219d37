--------------------------- MODULE LineAccounting ---------------------------
(***************************************************************************)
(* What the agent promises about the lines it accepts, without threads or  *)
(* channels: lines are counted in the order they were accepted, each at    *)
(* most once; none is lost before a stop is requested; after it, runs of   *)
(* lines may be given up; and the agent closes with nothing outstanding.   *)
(***************************************************************************)
EXTENDS Naturals, Sequences

CONSTANT MaxLines      \* lines one datagram may hold

VARIABLES
    pending,    \* numbers of the lines accepted and not yet accounted for
    accepted,   \* lines accepted so far
    counted,    \* lines counted as received
    stopping,   \* a stop was requested
    closed      \* the agent has ended

vars == <<pending, accepted, counted, stopping, closed>>

Init ==
    /\ pending = <<>>
    /\ accepted = 0
    /\ counted = 0
    /\ stopping = FALSE
    /\ closed = FALSE

Accept ==
    /\ ~closed
    /\ \E k \in 0..MaxLines :
         /\ pending' = pending \o [i \in 1..k |-> accepted + i]
         /\ accepted' = accepted + k
    /\ UNCHANGED <<counted, stopping, closed>>

\* The oldest outstanding line is counted.
Count ==
    /\ pending # <<>>
    /\ pending' = Tail(pending)
    /\ counted' = counted + 1
    /\ UNCHANGED <<accepted, stopping, closed>>

\* A run of outstanding lines is given up.
Discard ==
    /\ stopping
    /\ \E i, j \in 1..Len(pending) :
         /\ i <= j
         /\ pending' = SubSeq(pending, 1, i - 1) \o SubSeq(pending, j + 1, Len(pending))
    /\ UNCHANGED <<accepted, counted, stopping, closed>>

Stop ==
    /\ ~closed
    /\ stopping' = TRUE
    /\ UNCHANGED <<pending, accepted, counted, closed>>

Close ==
    /\ stopping
    /\ pending = <<>>
    /\ closed' = TRUE
    /\ UNCHANGED <<pending, accepted, counted, stopping>>

Next == Accept \/ Count \/ Discard \/ Stop \/ Close

Spec == Init /\ [][Next]_vars
=============================================================================
