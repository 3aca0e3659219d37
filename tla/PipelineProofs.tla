--------------------------- MODULE PipelineProofs ---------------------------
(* What holds of the pipeline for every set of datagrams, every channel      *)
(* capacity and every number of datagrams.                                   *)
EXTENDS PipelineRefinement, DataLemmas

USE DEF flags, listenerVars, aggregatorVars

\* A line of a datagram taken off the socket, as ListenerReceive numbers it.
LEMMA NumberedLines ==
    ASSUME NEW shape \in Seq(BOOLEAN), accepted \in Nat
    PROVE  /\ [i \in DOMAIN shape |-> [n |-> accepted + i, ok |-> shape[i]]] \in Seq(Line)
           /\ accepted + Len(shape) \in Nat
<1>1. shape \in [1..Len(shape) -> BOOLEAN] /\ DOMAIN shape = 1..Len(shape)
  OBVIOUS
<1>2. Len(shape) \in Nat
  OBVIOUS
<1>3. \A i \in 1..Len(shape) : [n |-> accepted + i, ok |-> shape[i]] \in Line
  BY <1>1 DEF Line
<1>4. [i \in DOMAIN shape |-> [n |-> accepted + i, ok |-> shape[i]]]
        \in [1..Len(shape) -> Line]
  BY <1>1, <1>3
<1>. QED
  BY <1>2, <1>4

\* The listener's steps keep every variable in its range.
LEMMA ListenerType == TypeOK /\ ListenerNext => TypeOK'
<1>. SUFFICES ASSUME TypeOK, ListenerNext
              PROVE  TypeOK'
  OBVIOUS
<1>1. CASE ListenerSelectReadable
  BY <1>1 DEF TypeOK, ListenerSelectReadable, Goto, Thread, ListenerPc
<1>2. CASE ListenerSelectEmpty
  BY <1>2 DEF TypeOK, ListenerSelectEmpty, Goto, Thread, ListenerPc
<1>3. CASE ListenerReceive
  <2>. PICK shape \in Shapes :
         /\ datagram' = [i \in DOMAIN shape |-> [n |-> accepted + i, ok |-> shape[i]]]
         /\ accepted' = accepted + Len(shape)
    BY <1>3 DEF ListenerReceive
  <2>1. datagram' \in Seq(Line) /\ accepted' \in Nat
    BY NumberedLines, PipelineAssumption DEF TypeOK
  <2>. QED
    BY <1>3, <2>1 DEF TypeOK, ListenerReceive, Goto, Thread, ListenerPc
<1>4. CASE ListenerTooLarge
  BY <1>4 DEF TypeOK, ListenerTooLarge, Goto, Thread, ListenerPc
<1>5. CASE ListenerSend
  <2>1. /\ network_listener_to_parser' \in Seq(Seq(Line))
        /\ Len(network_listener_to_parser') <= Capacity
    BY <1>5, PipelineAssumption DEF TypeOK, ListenerSend
  <2>. QED
    BY <1>5, <2>1 DEF TypeOK, ListenerSend, Goto, Thread, ListenerPc
<1>6. CASE ListenerCheckExit
  BY <1>6 DEF TypeOK, ListenerCheckExit, Goto, Thread, ListenerPc
<1>7. CASE ListenerDies
  BY <1>7 DEF TypeOK, ListenerDies
<1>. QED
  BY <1>1, <1>2, <1>3, <1>4, <1>5, <1>6, <1>7 DEF ListenerNext

\* The parser's steps keep every variable in its range.
LEMMA ParserType == TypeOK /\ ParserNext => TypeOK'
<1>. SUFFICES ASSUME TypeOK, ParserNext
              PROVE  TypeOK'
  OBVIOUS
<1>1. CASE ParserCheckExit
  BY <1>1 DEF TypeOK, ParserCheckExit, Goto, Thread, ParserPc
<1>2. CASE ParserTake
  <2>1. /\ lines' \in Seq(Line)
        /\ network_listener_to_parser' \in Seq(Seq(Line))
        /\ Len(network_listener_to_parser') <= Capacity
    BY <1>2, PipelineAssumption DEF TypeOK, ParserTake
  <2>. QED
    BY <1>2, <2>1 DEF TypeOK, ParserTake, Goto, Thread, ParserPc
<1>3. CASE ParserDiscard
  <2>1. /\ network_listener_to_parser' \in Seq(Seq(Line))
        /\ Len(network_listener_to_parser') <= Capacity
    BY <1>3, PipelineAssumption DEF TypeOK, ParserDiscard
  <2>. QED
    BY <1>3, <2>1 DEF TypeOK, ParserDiscard, Goto, Thread, ParserPc
<1>4. CASE ParserParseLine
  <2>1. /\ lines' \in Seq(Line)
        /\ parser_to_aggregator' \in Seq(Line)
        /\ Len(parser_to_aggregator') <= Capacity
    BY <1>4, PipelineAssumption DEF TypeOK, ParserParseLine
  <2>. QED
    BY <1>4, <2>1 DEF TypeOK, ParserParseLine
<1>5. CASE ParserFinish
  BY <1>5 DEF TypeOK, ParserFinish, Goto, Thread, ParserPc
<1>6. CASE ParserIdle
  BY <1>6 DEF TypeOK, ParserIdle, Goto, Thread, ParserPc
<1>. QED
  BY <1>1, <1>2, <1>3, <1>4, <1>5, <1>6 DEF ParserNext

\* One statistic counted under the mutex keeps every variable but late in range.
LEMMA ProcessStatType ==
    ASSUME TypeOK, late' \in Nat,
           NEW stat \in Stat, NEW from, NEW to \in AggregatorPc,
           ProcessStat(stat, from, to)
    PROVE  TypeOK'
<1>1. stats' \in [Stat -> Nat]
  BY DEF TypeOK, ProcessStat
<1>. QED
  BY <1>1 DEF TypeOK, ProcessStat, Goto, Thread

\* The remainder of the unsigned type is a natural number.
LEMMA Wrapped == ASSUME NEW total \in Int PROVE total % Wrap \in Nat
BY PipelineAssumption

\* A time added under the mutex, likewise.
LEMMA AddTimeType ==
    ASSUME TypeOK, late' \in Nat,
           NEW stat \in Time, NEW from, NEW to \in AggregatorPc,
           AddTime(stat, from, to)
    PROVE  TypeOK'
<1>1. stats' \in [Stat -> Nat]
  <2>. PICK elapsed \in Elapsed : stats' = [stats EXCEPT ![stat] = (@ + elapsed) % Wrap]
    BY DEF AddTime
  <2>1. stats[stat] + elapsed \in Int
    BY PipelineAssumption DEF TypeOK, Stat
  <2>2. (stats[stat] + elapsed) % Wrap \in Nat
    BY <2>1, Wrapped
  <2>. QED
    BY <2>2 DEF TypeOK
<1>2. samples' \in [Time -> Nat]
  BY DEF TypeOK, AddTime
<1>. QED
  BY <1>1, <1>2 DEF TypeOK, AddTime, Goto, Thread

\* The aggregator's steps keep every variable in its range.
LEMMA AggregatorType == TypeOK /\ AggregatorNext => TypeOK'
<1>. SUFFICES ASSUME TypeOK, AggregatorNext
              PROVE  TypeOK'
  OBVIOUS
<1>1. CASE AggregatorCheckExit
  BY <1>1 DEF TypeOK, AggregatorCheckExit, Goto, Thread, AggregatorPc
<1>2. CASE AggregatorTake
  <2>1. /\ message' \in Line
        /\ parser_to_aggregator' \in Seq(Line)
        /\ Len(parser_to_aggregator') <= Capacity
    BY <1>2, PipelineAssumption DEF TypeOK, AggregatorTake
  <2>. QED
    BY <1>2, <2>1 DEF TypeOK, AggregatorTake, Goto, Thread, AggregatorPc
<1>3. CASE AggregatorDiscard
  <2>1. /\ parser_to_aggregator' \in Seq(Line)
        /\ Len(parser_to_aggregator') <= Capacity
    BY <1>3, PipelineAssumption DEF TypeOK, AggregatorDiscard
  <2>. QED
    BY <1>3, <2>1 DEF TypeOK, AggregatorDiscard, Goto, Thread, AggregatorPc
<1>4. CASE AggregatorIdle
  BY <1>4 DEF TypeOK, AggregatorIdle, Goto, Thread, AggregatorPc
<1>5. CASE CountReceived
  <2>1. late' \in Nat
    BY <1>5 DEF TypeOK, CountReceived
  <2>2. PICK to \in AggregatorPc : ProcessStat("received", "received", to)
    BY <1>5 DEF CountReceived, AggregatorPc
  <2>3. "received" \in Stat
    BY DEF Stat, Count
  <2>. QED
    BY <2>1, <2>2, <2>3, ProcessStatType
<1>6. CASE ProcessMetric
  BY <1>6 DEF TypeOK, ProcessMetric, Goto, Thread, AggregatorPc
<1>7. CASE CountParsed
  BY <1>7, ProcessStatType DEF TypeOK, CountParsed, Stat, Count, AggregatorPc
<1>8. CASE CountTimeParsing
  BY <1>8, AddTimeType DEF TypeOK, CountTimeParsing, Time, AggregatorPc
<1>9. CASE CountAggregated
  BY <1>9, ProcessStatType DEF TypeOK, CountAggregated, Stat, Count, AggregatorPc
<1>10. CASE CountTimeAggregating
  BY <1>10, AddTimeType DEF TypeOK, CountTimeAggregating, Time, AggregatorPc
<1>11. CASE CountRefused
  BY <1>11, ProcessStatType DEF TypeOK, CountRefused, Stat, Count, AggregatorPc
<1>12. CASE CountDropped
  BY <1>12, ProcessStatType DEF TypeOK, CountDropped, Stat, Count, AggregatorPc
<1>13. CASE CountTimeDropped
  BY <1>13, AddTimeType DEF TypeOK, CountTimeDropped, Time, AggregatorPc
<1>. QED
  BY <1>1, <1>2, <1>3, <1>4, <1>5, <1>6, <1>7, <1>8, <1>9, <1>10, <1>11, <1>12,
     <1>13 DEF AggregatorNext

\* Main's steps and the signal handler keep every variable in its range.
LEMMA MainType == TypeOK /\ (MainNext \/ SigInt) => TypeOK'
<1>. USE DEF TypeOK, MainUnchanged, Goto, Thread, MainPc
<1>. SUFFICES ASSUME TypeOK, MainNext \/ SigInt
              PROVE  TypeOK'
  OBVIOUS
<1>1. CASE MainInitFailed
  BY <1>1 DEF MainInitFailed
<1>2. CASE MainConnect
  BY <1>2 DEF MainConnect
<1>3. CASE MainCheckExit
  BY <1>3 DEF MainCheckExit
<1>4. CASE MainPDU
  BY <1>4 DEF MainPDU
<1>5. CASE MainPDUFailed
  BY <1>5 DEF MainPDUFailed
<1>6. CASE JoinListener
  BY <1>6 DEF JoinListener
<1>7. CASE JoinParser
  BY <1>7 DEF JoinParser
<1>8. CASE JoinAggregator
  BY <1>8 DEF JoinAggregator
<1>9. CASE MainFree
  BY <1>9 DEF MainFree
<1>10. CASE SigInt
  BY <1>10 DEF SigInt
<1>. QED
  BY <1>1, <1>2, <1>3, <1>4, <1>5, <1>6, <1>7, <1>8, <1>9, <1>10 DEF MainNext

\* Every variable keeps its range in every reachable state; in particular no
\* channel ever holds more than max_unprocessed_packets elements.
THEOREM TypeCorrect == Spec => []TypeOK
<1>1. Init => TypeOK
  <2>. SUFFICES ASSUME Init
                PROVE  TypeOK
    OBVIOUS
  <2>1. /\ pc \in [Thread -> ListenerPc \cup ParserPc \cup AggregatorPc \cup MainPc]
        /\ pc["listener"] \in ListenerPc
        /\ pc["parser"] \in ParserPc
        /\ pc["aggregator"] \in AggregatorPc
        /\ pc["main"] \in MainPc
    BY DEF Init, Thread, ListenerPc, ParserPc, AggregatorPc, MainPc
  <2>2. should_exit \in [{"parser", "aggregator"} -> BOOLEAN]
    BY DEF Init
  <2>3. message \in Line /\ stats \in [Stat -> Nat] /\ samples \in [Time -> Nat]
    BY DEF Init, Line
  <2>4. /\ network_listener_to_parser \in Seq(Seq(Line))
        /\ Len(network_listener_to_parser) <= Capacity
        /\ parser_to_aggregator \in Seq(Line)
        /\ Len(parser_to_aggregator) <= Capacity
        /\ datagram \in Seq(Line)
        /\ lines \in Seq(Line)
    BY PipelineAssumption DEF Init
  <2>. QED
    BY <2>1, <2>2, <2>3, <2>4 DEF Init, TypeOK
<1>2. TypeOK /\ [Next]_vars => TypeOK'
  <2>1. TypeOK /\ UNCHANGED vars => TypeOK'
    BY DEF TypeOK, vars
  <2>. QED
    BY <2>1, ListenerType, ParserType, AggregatorType, MainType DEF Next, Terminated
<1>. QED
  BY <1>1, <1>2, PTL DEF Spec

-----------------------------------------------------------------------------
(* Shutdown *)

\* An exit flag of a thread is raised only after its predecessor has ended ...
JoinOrder ==
    /\ g_parser_exit => pc["listener"] = "done"
    /\ g_aggregator_exit => pc["parser"] = "done"

\* ... which is what DrainedShutdown needs to be inductive.
ShutdownInv == JoinOrder /\ DrainedShutdown

\* A step of the listener preserves the shutdown order: it ends only on the exit
\* flag, and sends only while it has not ended, hence while the parser has not.
LEMMA ListenerShutdown == TypeOK /\ ShutdownInv /\ ListenerNext => ShutdownInv'
<1>. SUFFICES ASSUME TypeOK, ShutdownInv, ListenerNext
              PROVE  ShutdownInv'
  OBVIOUS
<1>1. /\ pc["listener"] # "done"
      /\ pc' \in {[pc EXCEPT !["listener"] = to] : to \in ListenerPc}
      /\ pc'["listener"] = "done" => g_exit_flag
      /\ UNCHANGED <<g_exit_flag, g_parser_exit, g_aggregator_exit, parser_to_aggregator>>
  BY DEF TypeOK, ListenerNext, ListenerSelectReadable, ListenerSelectEmpty,
     ListenerReceive, ListenerTooLarge, ListenerDies, ListenerSend, ListenerCheckExit, Goto,
     Thread, ListenerPc
<1>2. pc["parser"] # "done" /\ pc["aggregator"] # "done"
  BY <1>1 DEF ShutdownInv, DrainedShutdown
<1>. QED
  BY <1>1, <1>2 DEF TypeOK, ShutdownInv, JoinOrder, DrainedShutdown, Thread

\* A step of the parser preserves it: it ends only on g_parser_exit, which says
\* that the listener has ended, and with its channel empty.
LEMMA ParserShutdown == TypeOK /\ ShutdownInv /\ ParserNext => ShutdownInv'
<1>. SUFFICES ASSUME TypeOK, ShutdownInv, ParserNext
              PROVE  ShutdownInv'
  OBVIOUS
<1>1. /\ pc["parser"] # "done"
      /\ pc' \in {[pc EXCEPT !["parser"] = to] : to \in ParserPc}
      /\ pc'["parser"] = "done" => /\ g_parser_exit
                                   /\ network_listener_to_parser' = <<>>
      /\ UNCHANGED flags
  BY DEF TypeOK, ParserNext, ParserCheckExit, ParserTake, ParserDiscard,
     ParserParseLine, ParserFinish, ParserIdle, Goto, Thread, ParserPc
<1>2. pc["aggregator"] # "done"
  BY <1>1 DEF ShutdownInv, DrainedShutdown
<1>. QED
  BY <1>1, <1>2 DEF TypeOK, ShutdownInv, JoinOrder, DrainedShutdown, Thread

\* What any step of the aggregator does to the shutdown state.
LEMMA AggregatorStep ==
    ASSUME TypeOK, AggregatorNext
    PROVE  /\ pc["aggregator"] # "done"
           /\ pc' \in {[pc EXCEPT !["aggregator"] = to] : to \in AggregatorPc}
           /\ pc'["aggregator"] = "done" => /\ g_aggregator_exit
                                            /\ parser_to_aggregator' = <<>>
           /\ UNCHANGED <<flags, network_listener_to_parser>>
BY DEF TypeOK, AggregatorNext, AggregatorCheckExit, AggregatorTake, AggregatorDiscard,
   AggregatorIdle, CountReceived, ProcessMetric, CountParsed, CountTimeParsing,
   CountAggregated, CountTimeAggregating, CountRefused, CountDropped,
   CountTimeDropped, ProcessStat, AddTime, Goto, Thread, AggregatorPc

\* A step of main or of the signal handler preserves it: each join waits for the
\* thread and raises the flag of the next one.
LEMMA MainShutdown == TypeOK /\ ShutdownInv /\ (MainNext \/ SigInt) => ShutdownInv'
<1>. SUFFICES ASSUME TypeOK, ShutdownInv, MainNext \/ SigInt
              PROVE  ShutdownInv'
  OBVIOUS
<1>1. /\ \A t \in {"listener", "parser", "aggregator"} : pc'[t] = pc[t]
      /\ UNCHANGED <<network_listener_to_parser, parser_to_aggregator>>
      /\ g_exit_flag => g_exit_flag'
      /\ g_parser_exit' => g_parser_exit \/ pc["listener"] = "done"
      /\ g_aggregator_exit' => g_aggregator_exit \/ pc["parser"] = "done"
      /\ pc'["main"] \in {"free", "disposed"} =>
            pc["main"] \in {"free", "disposed"} \/ pc["aggregator"] = "done"
  BY DEF TypeOK, MainNext, MainInitFailed, MainConnect, MainCheckExit, MainPDU,
     MainPDUFailed, JoinListener, JoinParser, JoinAggregator, MainFree, SigInt,
     MainUnchanged, Goto, Thread, MainPc
<1>. QED
  BY <1>1 DEF ShutdownInv, JoinOrder, DrainedShutdown

\* Nothing is sent to a thread that has ended and nothing shared is used after it
\* was freed, for every capacity of the channels: DrainedShutdown holds in every
\* reachable state.
THEOREM ShutdownCorrect == Spec => []DrainedShutdown
<1>1. Init => ShutdownInv
  BY DEF Init, ShutdownInv, JoinOrder, DrainedShutdown
<1>2. TypeOK /\ ShutdownInv /\ [Next]_vars => ShutdownInv'
  <2>. SUFFICES ASSUME TypeOK, ShutdownInv, [Next]_vars
                PROVE  ShutdownInv'
    OBVIOUS
  <2>1. CASE AggregatorNext
    BY <2>1, AggregatorStep DEF TypeOK, ShutdownInv, JoinOrder, DrainedShutdown, Thread
  <2>2. CASE UNCHANGED vars
    BY <2>2 DEF vars, ShutdownInv, JoinOrder, DrainedShutdown
  <2>. QED
    BY <2>1, <2>2, ListenerShutdown, ParserShutdown, MainShutdown DEF Next, Terminated
<1>3. ShutdownInv => DrainedShutdown
  BY DEF ShutdownInv
<1>. QED
  BY <1>1, <1>2, <1>3, TypeCorrect, PTL DEF Spec

-----------------------------------------------------------------------------
(* Statistics *)

\* Only the aggregator moves the statistics, its pc and the message in hand.
LEMMA OthersLeaveStats ==
    ASSUME TypeOK, ListenerNext \/ ParserNext \/ MainNext \/ SigInt \/ UNCHANGED vars
    PROVE  /\ UNCHANGED <<stats, samples, message, late>>
           /\ pc'["aggregator"] = pc["aggregator"]
           /\ should_exit'["aggregator"] = should_exit["aggregator"]
<1>1. CASE ListenerNext
  BY <1>1 DEF TypeOK, ListenerNext, ListenerSelectReadable, ListenerSelectEmpty,
     ListenerReceive, ListenerTooLarge, ListenerDies, ListenerSend, ListenerCheckExit, Goto, Thread
<1>2. CASE ParserNext
  BY <1>2 DEF TypeOK, ParserNext, ParserCheckExit, ParserTake, ParserDiscard,
     ParserParseLine, ParserFinish, ParserIdle, Goto, Thread
<1>3. CASE MainNext
  BY <1>3 DEF TypeOK, MainNext, MainInitFailed, MainConnect, MainCheckExit, MainPDU,
     MainPDUFailed, JoinListener, JoinParser, JoinAggregator, MainFree,
     MainUnchanged, Goto, Thread
<1>4. CASE SigInt
  BY <1>4 DEF SigInt, MainUnchanged
<1>5. CASE UNCHANGED vars
  BY <1>5 DEF vars
<1>. QED
  BY <1>1, <1>2, <1>3, <1>4, <1>5

\* An aggregator step moves to a known place and counts a known statistic.
LEMMA CountsOne ==
    ASSUME TypeOK,
           NEW stat \in Stat, NEW from, NEW to \in AggregatorPc,
           ProcessStat(stat, from, to)
    PROVE  /\ pc["aggregator"] = from
           /\ pc'["aggregator"] = to
           /\ stats'[stat] = stats[stat] + 1
           /\ \A other \in Stat \ {stat} : stats'[other] = stats[other]
           /\ samples' = samples
BY DEF TypeOK, ProcessStat, Goto, Thread

\* An aggregator step moves to a known place and adds a time to a known total.
LEMMA AddsOne ==
    ASSUME TypeOK,
           NEW stat \in Time, NEW from, NEW to \in AggregatorPc,
           AddTime(stat, from, to)
    PROVE  /\ pc["aggregator"] = from
           /\ pc'["aggregator"] = to
           /\ samples'[stat] = samples[stat] + 1
           /\ \A other \in Time \ {stat} : samples'[other] = samples[other]
           /\ \A other \in Stat \ {stat} : stats'[other] = stats[other]
BY DEF TypeOK, AddTime, Goto, Thread

\* Between any two steps of the aggregator the statistics balance: one verdict
\* and one parsing time per received line, one aggregating time per aggregated
\* line, up to the line in hand.
THEOREM StatsCorrect == Spec => []StatsBalance
<1>1. Init => StatsBalance
  BY DEF Init, StatsBalance, Stat, Count, Time
<1>2. TypeOK /\ StatsBalance /\ [Next]_vars => StatsBalance'
  <2>. SUFFICES ASSUME TypeOK, StatsBalance, [Next]_vars
                PROVE  StatsBalance'
    OBVIOUS
  <2>0. /\ \A s \in Stat : stats[s] \in Nat
        /\ \A s \in Time : samples[s] \in Nat
    BY DEF TypeOK
  <2>. USE <2>0 DEF StatsBalance
  <2>1. CASE AggregatorCheckExit \/ AggregatorTake \/ AggregatorDiscard \/ AggregatorIdle
    BY <2>1 DEF TypeOK, AggregatorCheckExit, AggregatorTake, AggregatorDiscard,
       AggregatorIdle, Goto, Thread
  <2>2. CASE CountReceived
    BY <2>2, CountsOne DEF CountReceived, Stat, Count, Time, AggregatorPc
  <2>3. CASE ProcessMetric
    BY <2>3 DEF TypeOK, ProcessMetric, Goto, Thread
  <2>4. CASE CountParsed
    BY <2>4, CountsOne DEF CountParsed, Stat, Count, Time, AggregatorPc
  <2>5. CASE CountTimeParsing
    BY <2>5, AddsOne DEF CountTimeParsing, Stat, Count, Time, AggregatorPc
  <2>6. CASE CountAggregated
    BY <2>6, CountsOne DEF CountAggregated, Stat, Count, Time, AggregatorPc
  <2>7. CASE CountTimeAggregating
    BY <2>7, AddsOne DEF CountTimeAggregating, Stat, Count, Time, AggregatorPc
  <2>8. CASE CountRefused
    BY <2>8, CountsOne DEF CountRefused, Stat, Count, Time, AggregatorPc
  <2>9. CASE CountDropped
    BY <2>9, CountsOne DEF CountDropped, Stat, Count, Time, AggregatorPc
  <2>10. CASE CountTimeDropped
    BY <2>10, AddsOne DEF CountTimeDropped, Stat, Count, Time, AggregatorPc
  <2>11. CASE ListenerNext \/ ParserNext \/ MainNext \/ SigInt \/ UNCHANGED vars
    BY <2>11, OthersLeaveStats
  <2>. QED
    BY <2>1, <2>2, <2>3, <2>4, <2>5, <2>6, <2>7, <2>8, <2>9, <2>10, <2>11
       DEF Next, AggregatorNext, Terminated
<1>. QED
  BY <1>1, <1>2, TypeCorrect, PTL DEF Spec

\* Every count goes up by one at a time and one count at a time: the mutex of
\* process_stat never covers two of them, and nothing resets one.  Whatever the
\* clock says, the totals of the times move only when a time is added.
THEOREM MonotoneCorrect == Spec => CountsMonotone
<1>. DEFINE OneUp ==
       \E stat \in Stat :
          /\ stat \in Count => stats'[stat] = stats[stat] + 1
          /\ stat \in Time => samples'[stat] = samples[stat] + 1
          /\ \A other \in Stat \ {stat} : stats'[other] = stats[other]
<1>1. TypeOK /\ [Next]_vars => [OneUp]_stats
  <2>. SUFFICES ASSUME TypeOK, [Next]_vars, stats' # stats
                PROVE  OneUp
    OBVIOUS
  <2>1. CASE AggregatorCheckExit \/ AggregatorTake \/ AggregatorDiscard \/ AggregatorIdle
             \/ ProcessMetric
    BY <2>1 DEF AggregatorCheckExit, AggregatorTake, AggregatorDiscard, AggregatorIdle,
       ProcessMetric, aggregatorVars
  <2>2. CASE CountReceived
    BY <2>2, CountsOne DEF CountReceived, Stat, Count, Time, AggregatorPc
  <2>3. CASE CountParsed
    BY <2>3, CountsOne DEF CountParsed, Stat, Count, Time, AggregatorPc
  <2>4. CASE CountTimeParsing \/ CountTimeDropped
    BY <2>4, AddsOne DEF CountTimeParsing, CountTimeDropped, Stat, Count, Time, AggregatorPc
  <2>5. CASE CountAggregated
    BY <2>5, CountsOne DEF CountAggregated, Stat, Count, Time, AggregatorPc
  <2>6. CASE CountTimeAggregating
    BY <2>6, AddsOne DEF CountTimeAggregating, Stat, Count, Time, AggregatorPc
  <2>7. CASE CountRefused \/ CountDropped
    BY <2>7, CountsOne DEF CountRefused, CountDropped, Stat, Count, Time, AggregatorPc
  <2>8. CASE ListenerNext \/ ParserNext \/ MainNext \/ SigInt \/ UNCHANGED vars
    BY <2>8, OthersLeaveStats
  <2>. QED
    BY <2>1, <2>2, <2>3, <2>4, <2>5, <2>6, <2>7, <2>8 DEF Next, AggregatorNext, Terminated
<1>. QED
  BY <1>1, TypeCorrect, PTL DEF Spec, CountsMonotone

-----------------------------------------------------------------------------
(* Lines counted after SIGINT *)

\* Once a line was counted late the aggregator is past its stale reading of the
\* exit flag: it has no message to count and its next select discards.
LateInv ==
    /\ late <= 1
    /\ late > 0 => /\ g_exit_flag
                   /\ pc["aggregator"] # "received"
                   /\ pc["aggregator"] = "select" => should_exit["aggregator"]

\* However the flag, the channel and the aggregator interleave, at most one line
\* is counted as received after SIGINT.
THEOREM LateCorrect == Spec => []AtMostOneLate
<1>1. Init => LateInv
  BY DEF Init, LateInv
<1>2. TypeOK /\ LateInv /\ [Next]_vars => LateInv'
  <2>. SUFFICES ASSUME TypeOK, LateInv, [Next]_vars
                PROVE  LateInv'
    OBVIOUS
  <2>. USE DEF LateInv
  <2>1. CASE AggregatorCheckExit
    BY <2>1 DEF TypeOK, AggregatorCheckExit, Goto, Thread
  <2>2. CASE AggregatorTake
    BY <2>2 DEF TypeOK, AggregatorTake, Goto, Thread
  <2>3. CASE AggregatorDiscard \/ AggregatorIdle \/ ProcessMetric
    BY <2>3 DEF TypeOK, AggregatorDiscard, AggregatorIdle, ProcessMetric, Goto, Thread
  <2>4. CASE CountReceived
    BY <2>4 DEF TypeOK, CountReceived, ProcessStat, Goto, Thread
  <2>5. CASE CountParsed \/ CountTimeParsing \/ CountAggregated \/ CountTimeAggregating
             \/ CountRefused \/ CountDropped \/ CountTimeDropped
    BY <2>5 DEF TypeOK, CountParsed, CountTimeParsing, CountAggregated,
       CountTimeAggregating, CountRefused, CountDropped, CountTimeDropped, ProcessStat, AddTime,
       Goto, Thread
  <2>6. CASE ListenerNext \/ ParserNext \/ MainNext \/ SigInt \/ UNCHANGED vars
    <3>1. g_exit_flag => g_exit_flag'
      BY <2>6 DEF ListenerNext, ListenerSelectReadable, ListenerSelectEmpty,
         ListenerReceive, ListenerTooLarge, ListenerDies, ListenerSend, ListenerCheckExit,
         ParserNext, ParserCheckExit, ParserTake, ParserDiscard, ParserParseLine,
         ParserFinish, ParserIdle, MainNext, MainInitFailed, MainConnect,
         MainCheckExit, MainPDU, MainPDUFailed, JoinListener, JoinParser,
         JoinAggregator, MainFree, SigInt, vars
    <3>. QED
      BY <2>6, <3>1, OthersLeaveStats
  <2>. QED
    BY <2>1, <2>2, <2>3, <2>4, <2>5, <2>6 DEF Next, AggregatorNext, Terminated
<1>3. LateInv => AtMostOneLate
  BY DEF LateInv, AtMostOneLate
<1>. QED
  BY <1>1, <1>2, <1>3, TypeCorrect, PTL DEF Spec

-----------------------------------------------------------------------------
(* Line numbers *)

LEMMA NumbersType ==
    ASSUME NEW s, s \in Seq(Line)
    PROVE  Numbers(s) \in Seq(Nat) /\ Len(Numbers(s)) = Len(s)
<1>1. \A i \in 1..Len(s) : s[i] \in Line
  OBVIOUS
<1>2. \A i \in 1..Len(s) : s[i].n \in Nat
  BY <1>1 DEF Line
<1>. QED
  BY <1>2 DEF Numbers

LEMMA NumbersConcat ==
    ASSUME NEW s \in Seq(Line), NEW t \in Seq(Line)
    PROVE  Numbers(s \o t) = Numbers(s) \o Numbers(t)
<1>1. /\ s \o t \in Seq(Line) /\ Len(s \o t) = Len(s) + Len(t)
      /\ \A i \in 1..Len(s) + Len(t) :
            (s \o t)[i] = IF i <= Len(s) THEN s[i] ELSE t[i - Len(s)]
  BY ConcatProperties
<1>2. /\ Numbers(s) \in Seq(Nat) /\ Len(Numbers(s)) = Len(s)
      /\ Numbers(t) \in Seq(Nat) /\ Len(Numbers(t)) = Len(t)
      /\ Numbers(s \o t) \in Seq(Nat) /\ Len(Numbers(s \o t)) = Len(s) + Len(t)
  BY <1>1, NumbersType
<1>3. /\ Numbers(s) \o Numbers(t) \in Seq(Nat)
      /\ Len(Numbers(s) \o Numbers(t)) = Len(s) + Len(t)
      /\ \A i \in 1..Len(s) + Len(t) : (Numbers(s) \o Numbers(t))[i] =
            IF i <= Len(s) THEN Numbers(s)[i] ELSE Numbers(t)[i - Len(s)]
  <2>. DEFINE u == Numbers(s)
              v == Numbers(t)
  <2>. HIDE DEF u, v
  <2>1. u \in Seq(Nat) /\ v \in Seq(Nat) /\ Len(u) = Len(s) /\ Len(v) = Len(t)
    BY <1>2 DEF u, v
  <2>2. /\ u \o v \in Seq(Nat) /\ Len(u \o v) = Len(u) + Len(v)
        /\ \A i \in 1..Len(u) + Len(v) :
              (u \o v)[i] = IF i <= Len(u) THEN u[i] ELSE v[i - Len(u)]
    BY <2>1, ConcatProperties, Zenon
  <2>. QED
    BY <2>1, <2>2, Zenon DEF u, v
<1>4. ASSUME NEW i \in 1..Len(s) + Len(t)
      PROVE  Numbers(s \o t)[i] = (Numbers(s) \o Numbers(t))[i]
  <2>1. Numbers(s \o t)[i] = (s \o t)[i].n
    BY <1>1 DEF Numbers
  <2>2. CASE i <= Len(s)
    <3>1. i \in DOMAIN s
      BY <2>2
    <3>. QED
      BY <1>1, <1>3, <2>1, <2>2, <3>1 DEF Numbers
  <2>3. CASE ~(i <= Len(s))
    <3>1. i - Len(s) \in DOMAIN t
      BY <2>3
    <3>. QED
      BY <1>1, <1>3, <2>1, <2>3, <3>1 DEF Numbers
  <2>. QED
    BY <2>2, <2>3
<1>. QED
  BY <1>2, <1>3, <1>4, SeqEqual

LEMMA NumbersAppend ==
    ASSUME NEW s \in Seq(Line), NEW x \in Line
    PROVE  Numbers(Append(s, x)) = Numbers(s) \o <<x.n>>
<1>1. Append(s, x) = s \o <<x>> /\ <<x>> \in Seq(Line)
  BY AppendIsConcat
<1>2. Numbers(<<x>>) = <<x.n>>
  BY DEF Numbers
<1>. QED
  BY <1>1, <1>2, NumbersConcat

LEMMA NumbersHead ==
    ASSUME NEW s \in Seq(Line), s # <<>>
    PROVE  /\ Tail(s) \in Seq(Line) /\ Head(s) \in Line
           /\ Numbers(s) = <<Head(s).n>> \o Numbers(Tail(s))
<1>1. Head(s) \in Line /\ Tail(s) \in Seq(Line) /\ <<Head(s)>> \in Seq(Line)
  BY HeadTailProperties
<1>2. s = <<Head(s)>> \o Tail(s)
  OBVIOUS
<1>3. Numbers(<<Head(s)>>) = <<Head(s).n>>
  BY DEF Numbers
<1>. QED
  BY <1>1, <1>2, <1>3, NumbersConcat

-----------------------------------------------------------------------------
(* The order of lines *)

\* The parser keeps no line outside its loop over the tokens, and the exit flag
\* a thread has read was raised.
LineInv ==
    /\ pc["parser"] # "parse" => lines = <<>>
    /\ \A t \in {"parser", "aggregator"} : should_exit[t] => g_exit_flag

LEMMA LineInvariant == Spec => []LineInv
<1>1. Init => LineInv
  BY DEF Init, LineInv
<1>2. TypeOK /\ LineInv /\ [Next]_vars => LineInv'
  <2>. SUFFICES ASSUME TypeOK, LineInv, [Next]_vars
                PROVE  LineInv'
    OBVIOUS
  <2>. USE DEF LineInv, TypeOK, Goto, Thread
  <2>1. CASE ListenerNext
    BY <2>1 DEF ListenerNext, ListenerSelectReadable, ListenerSelectEmpty,
       ListenerReceive, ListenerTooLarge, ListenerDies, ListenerSend, ListenerCheckExit
  <2>2. CASE ParserNext
    BY <2>2 DEF ParserNext, ParserCheckExit, ParserTake, ParserDiscard, ParserParseLine,
       ParserFinish, ParserIdle
  <2>3. CASE AggregatorNext
    BY <2>3 DEF AggregatorNext, AggregatorCheckExit, AggregatorTake, AggregatorDiscard,
       AggregatorIdle, CountReceived, ProcessMetric, CountParsed, CountTimeParsing,
       CountAggregated, CountTimeAggregating, CountRefused, CountDropped,
       CountTimeDropped, ProcessStat, AddTime
  <2>4. CASE MainNext \/ SigInt
    BY <2>4 DEF MainNext, MainInitFailed, MainConnect, MainCheckExit, MainPDU,
       MainPDUFailed, JoinListener, JoinParser, JoinAggregator, MainFree, SigInt,
       MainUnchanged
  <2>5. CASE UNCHANGED vars
    BY <2>5 DEF vars
  <2>. QED
    BY <2>1, <2>2, <2>3, <2>4, <2>5 DEF Next, Terminated
<1>. QED
  BY <1>1, <1>2, TypeCorrect, PTL DEF Spec

\* The five places a line may be in, as sequences of line numbers.
Sending == Numbers(ToSend)
ToTake  == Numbers(FlattenSeq(network_listener_to_parser))
ToParse == Numbers(lines)
ToCount == Numbers(parser_to_aggregator)

PlacesOK ==
    /\ InHand \in Seq(Nat) /\ ToCount \in Seq(Nat) /\ ToParse \in Seq(Nat)
    /\ ToTake \in Seq(Nat) /\ Sending \in Seq(Nat)
    /\ Outstanding = Five(InHand, ToCount, ToParse, ToTake, Sending)

LEMMA PlacesType == TypeOK => PlacesOK
<1>. SUFFICES ASSUME TypeOK
              PROVE  PlacesOK
  OBVIOUS
<1>1. InHand \in Seq(Nat)
  BY DEF TypeOK, InHand, Line
<1>2. ToSend \in Seq(Line)
  BY DEF TypeOK, ToSend
<1>3. FlattenSeq(network_listener_to_parser) \in Seq(Line)
  BY FlattenAppend, EmptySeq DEF TypeOK
<1>4. /\ ToCount \in Seq(Nat) /\ ToParse \in Seq(Nat)
      /\ ToTake \in Seq(Nat) /\ Sending \in Seq(Nat)
  BY <1>2, <1>3, NumbersType DEF TypeOK, ToCount, ToParse, ToTake, Sending
<1>. QED
  BY <1>1, <1>4 DEF PlacesOK, Outstanding, Five, ToCount, ToParse, ToTake, Sending

LEMMA PlacesTypeNext == TypeOK' => PlacesOK'
BY PlacesType, PTL

\* The first datagram of the channel and what comes behind it.
LEMMA ChannelHead ==
    ASSUME NEW channel \in Seq(Seq(Line)), channel # <<>>
    PROVE  Numbers(FlattenSeq(channel))
             = Numbers(Head(channel)) \o Numbers(FlattenSeq(Tail(channel)))
<1>1. Head(channel) \in Seq(Line)
  OBVIOUS
<1>2. /\ FlattenSeq(Tail(channel)) \in Seq(Line)
      /\ FlattenSeq(channel) = Head(channel) \o FlattenSeq(Tail(channel))
  BY FlattenTail
<1>. QED
  BY <1>1, <1>2, NumbersConcat

\* What the abstract step sees besides the outstanding lines.
Others == <<accepted, stats["received"], g_exit_flag, pc["main"] = "disposed">>

\* A datagram is accepted: its lines go behind all others.
LEMMA ReceiveAccepts ==
    ASSUME TypeOK, TypeOK', DrainedShutdown, ListenerReceive
    PROVE  Accounting!Accept
<1>0. PlacesOK /\ PlacesOK'
  BY PlacesType, PlacesTypeNext
<1>1. PICK shape \in Shapes :
        /\ datagram' = [i \in DOMAIN shape |-> [n |-> accepted + i, ok |-> shape[i]]]
        /\ accepted' = accepted + Len(shape)
  BY DEF ListenerReceive
<1>. DEFINE k == Len(shape)
<1>2. k \in 0..MaxLines /\ DOMAIN shape = 1..k
  BY PipelineAssumption, LinesAssumption
<1>3. /\ pc["listener"] = "recvfrom" /\ pc'["listener"] = "send"
      /\ pc'["aggregator"] = pc["aggregator"] /\ pc'["main"] = pc["main"]
  BY DEF ListenerReceive, TypeOK, Goto, Thread
<1>4. Sending = <<>>
  BY <1>3 DEF Sending, ToSend, Numbers
<1>5. Sending' = [i \in 1..k |-> accepted + i]
  BY <1>1, <1>2, <1>3 DEF Sending, ToSend, Numbers
<1>6. UNCHANGED <<InHand, ToCount, ToParse, ToTake>>
  BY <1>3 DEF ListenerReceive, InHand, ToCount, ToParse, ToTake, aggregatorVars
<1>7. Outstanding' = Outstanding \o Sending'
  <2>1. Concats(Five(InHand, ToCount, ToParse, ToTake, <<>>), Sending',
                Five(InHand, ToCount, ToParse, ToTake, Sending'))
    BY <1>0, FiveByLast, Zenon DEF PlacesOK
  <2>. QED
    BY <1>0, <1>4, <1>6, <2>1, Zenon DEF PlacesOK, Concats
<1>8. pc["main"] # "disposed"
  BY <1>3 DEF DrainedShutdown
<1>9. UNCHANGED <<stats, g_exit_flag>>
  BY DEF ListenerReceive, flags, aggregatorVars
<1>. QED
  BY <1>1, <1>2, <1>3, <1>5, <1>7, <1>8, <1>9 DEF Accounting!Accept

\* chan_send: the datagram changes places.
LEMMA SendKeeps ==
    ASSUME TypeOK, TypeOK', ListenerSend
    PROVE  UNCHANGED Accounting!vars
<1>0. PlacesOK /\ PlacesOK'
  BY PlacesType, PlacesTypeNext
<1>1. /\ pc["listener"] = "send" /\ pc'["listener"] = "select"
      /\ pc'["aggregator"] = pc["aggregator"] /\ pc'["main"] = pc["main"]
  BY DEF ListenerSend, TypeOK, Goto, Thread
<1>2. Sending = Numbers(datagram) /\ Sending' = <<>>
  BY <1>1 DEF Sending, ToSend, Numbers
<1>3. ToTake' = ToTake \o Sending
  <2>1. /\ FlattenSeq(network_listener_to_parser) \in Seq(Line)
        /\ FlattenSeq(network_listener_to_parser')
             = FlattenSeq(network_listener_to_parser) \o datagram
    BY FlattenAppend DEF ListenerSend, TypeOK
  <2>. QED
    BY <1>2, <2>1, NumbersConcat DEF ToTake, TypeOK
<1>4. UNCHANGED <<InHand, ToCount, ToParse>>
  BY <1>1 DEF ListenerSend, InHand, ToCount, ToParse, aggregatorVars
<1>5. Five(InHand, ToCount, ToParse, ToTake, Sending)
        = Five(InHand, ToCount, ToParse, ToTake \o Sending, <<>>)
  BY <1>0, FifthShifts DEF PlacesOK
<1>6. Outstanding' = Outstanding
  BY <1>0, <1>2, <1>3, <1>4, <1>5, Zenon DEF PlacesOK
<1>. QED
  BY <1>1, <1>6 DEF ListenerSend, Accounting!vars, flags, listenerVars, aggregatorVars

\* chan_select delivers the oldest datagram to the parser.
LEMMA TakeKeeps ==
    ASSUME TypeOK, TypeOK', LineInv, ParserTake
    PROVE  UNCHANGED Accounting!vars
<1>0. PlacesOK /\ PlacesOK'
  BY PlacesType, PlacesTypeNext
<1>1. /\ pc["parser"] = "select"
      /\ pc'["listener"] = pc["listener"]
      /\ pc'["aggregator"] = pc["aggregator"] /\ pc'["main"] = pc["main"]
  BY DEF ParserTake, TypeOK, Goto, Thread
<1>2. ToParse = <<>>
  BY <1>1 DEF LineInv, ToParse, Numbers
<1>3. ToTake = ToParse' \o ToTake'
  BY ChannelHead DEF ParserTake, ToTake, ToParse, TypeOK
<1>4. UNCHANGED <<InHand, ToCount, Sending>>
  BY <1>1 DEF ParserTake, InHand, ToCount, Sending, ToSend, listenerVars, aggregatorVars
<1>5. Five(InHand, ToCount, <<>>, ToParse' \o ToTake', Sending)
        = Five(InHand, ToCount, ToParse', ToTake', Sending)
  BY <1>0, ThirdShifts DEF PlacesOK
<1>6. Outstanding' = Outstanding
  BY <1>0, <1>2, <1>3, <1>4, <1>5, Zenon DEF PlacesOK
<1>. QED
  BY <1>1, <1>6 DEF ParserTake, Accounting!vars, flags, listenerVars, aggregatorVars

\* A line is parsed and sent: it changes places.
LEMMA ParseKeeps ==
    ASSUME TypeOK, TypeOK', ParserParseLine
    PROVE  UNCHANGED Accounting!vars
<1>0. PlacesOK /\ PlacesOK'
  BY PlacesType, PlacesTypeNext
<1>. DEFINE x == <<Head(lines).n>>
<1>1. lines # <<>> /\ UNCHANGED pc
  BY DEF ParserParseLine
<1>2. Head(lines) \in Line /\ ToParse = x \o ToParse'
  BY <1>1, NumbersHead DEF ParserParseLine, ToParse, TypeOK
<1>3. ToCount' = ToCount \o x
  BY <1>2, NumbersAppend DEF ParserParseLine, ToCount, TypeOK
<1>4. x \in Seq(Nat)
  BY <1>2 DEF Line
<1>5. UNCHANGED <<InHand, ToTake, Sending>>
  BY <1>1 DEF ParserParseLine, InHand, ToTake, Sending, ToSend, listenerVars, aggregatorVars
<1>. HIDE DEF x
<1>6. Five(InHand, ToCount, x \o ToParse', ToTake, Sending)
        = Five(InHand, ToCount \o x, ToParse', ToTake, Sending)
  BY <1>0, <1>4, SecondShifts DEF PlacesOK
<1>7. Outstanding' = Outstanding
  BY <1>0, <1>2, <1>3, <1>5, <1>6, Zenon DEF PlacesOK
<1>. QED
  BY <1>1, <1>7 DEF ParserParseLine, Accounting!vars, flags, listenerVars, aggregatorVars

\* The aggregator takes the oldest message.
LEMMA AggregatorTakeKeeps ==
    ASSUME TypeOK, TypeOK', AggregatorTake
    PROVE  UNCHANGED Accounting!vars
<1>0. PlacesOK /\ PlacesOK'
  BY PlacesType, PlacesTypeNext
<1>1. /\ pc["aggregator"] = "select" /\ pc'["aggregator"] = "received"
      /\ pc'["listener"] = pc["listener"] /\ pc'["main"] = pc["main"]
  BY DEF AggregatorTake, TypeOK, Goto, Thread
<1>2. InHand = <<>> /\ InHand' = <<message'.n>>
  BY <1>1 DEF InHand
<1>3. ToCount = InHand' \o ToCount'
  BY <1>2, NumbersHead DEF AggregatorTake, ToCount, TypeOK
<1>4. UNCHANGED <<ToParse, ToTake, Sending>>
  BY <1>1 DEF AggregatorTake, ToParse, ToTake, Sending, ToSend, listenerVars
<1>5. Five(<<>>, InHand' \o ToCount', ToParse, ToTake, Sending)
        = Five(InHand', ToCount', ToParse, ToTake, Sending)
  BY <1>0, FirstShifts DEF PlacesOK
<1>6. Outstanding' = Outstanding
  BY <1>0, <1>2, <1>3, <1>4, <1>5, Zenon DEF PlacesOK
<1>. QED
  BY <1>1, <1>6 DEF AggregatorTake, Accounting!vars, flags, listenerVars

\* Taking out the first line of them all.
LEMMA FirstTaken ==
    ASSUME NEW n, n \in Nat, NEW rest, rest \in Seq(Nat), NEW s, s = <<n>> \o rest
    PROVE  s # <<>> /\ Tail(s) = rest /\ LeavesOut(s, rest)
<1>1. <<n>> \in Seq(Nat) /\ <<n>> # <<>> /\ <<>> \in Seq(Nat)
  OBVIOUS
<1>2. s \in Seq(Nat) /\ s # <<>> /\ Tail(s) = rest
  OBVIOUS
<1>3. <<>> \o s = s /\ <<>> \o rest = rest
  BY <1>2, ConcatEmpty, Zenon
<1>4. LeavesOut(<<>> \o (<<n>> \o rest), <<>> \o rest)
  BY <1>1, RunLeftOut, Zenon
<1>. QED
  BY <1>2, <1>3, <1>4, Zenon

\* STAT_RECEIVED: the line in hand was the oldest, and is counted.
LEMMA CountReceivedCounts ==
    ASSUME TypeOK, TypeOK', CountReceived
    PROVE  Accounting!Count
<1>0. PlacesOK /\ PlacesOK'
  BY PlacesType, PlacesTypeNext
<1>. DEFINE rest == Five(<<>>, ToCount, ToParse, ToTake, Sending)
<1>1. /\ pc["aggregator"] = "received" /\ pc'["aggregator"] # "received"
      /\ pc'["listener"] = pc["listener"] /\ pc'["main"] = pc["main"]
  BY DEF CountReceived, ProcessStat, TypeOK, Goto, Thread
<1>2. InHand = <<message.n>> /\ message.n \in Nat /\ InHand' = <<>>
  BY <1>1 DEF InHand, TypeOK, Line
<1>3. UNCHANGED <<ToCount, ToParse, ToTake, Sending>>
  BY <1>1 DEF CountReceived, ProcessStat, ToCount, ToParse, ToTake, Sending, ToSend, listenerVars
<1>4. Outstanding = <<message.n>> \o rest /\ rest \in Seq(Nat)
  <2>1. <<>> \in Seq(Nat)
    OBVIOUS
  <2>2. rest \in Seq(Nat)
    BY <1>0, <2>1, FiveType, Zenon DEF PlacesOK
  <2>3. Concats(InHand, rest, Five(InHand, ToCount, ToParse, ToTake, Sending))
    BY <1>0, FiveByFirst, Zenon DEF PlacesOK
  <2>. QED
    BY <1>0, <1>2, <2>2, <2>3, Zenon DEF PlacesOK, Concats
<1>5. Outstanding' = rest
  BY <1>0, <1>2, <1>3, Zenon DEF PlacesOK
<1>. HIDE DEF rest
<1>6. Outstanding # <<>> /\ Outstanding' = Tail(Outstanding)
  BY <1>2, <1>4, <1>5, FirstTaken, Zenon
<1>7. stats'["received"] = stats["received"] + 1
  BY DEF CountReceived, ProcessStat, TypeOK, Stat, Count
<1>. QED
  BY <1>1, <1>6, <1>7 DEF CountReceived, ProcessStat, Accounting!Count, flags, listenerVars

\* After SIGINT the oldest message is given up ...
LEMMA AggregatorDiscards ==
    ASSUME TypeOK, TypeOK', LineInv, AggregatorDiscard
    PROVE  Accounting!Discard
<1>0. PlacesOK /\ PlacesOK'
  BY PlacesType, PlacesTypeNext
<1>. DEFINE n == Head(parser_to_aggregator).n
            x == <<n>>
            rest == Five(<<>>, ToCount', ToParse, ToTake, Sending)
<1>1. /\ pc["aggregator"] = "select" /\ pc'["aggregator"] = "check_exit"
      /\ pc'["listener"] = pc["listener"] /\ pc'["main"] = pc["main"]
  BY DEF AggregatorDiscard, TypeOK, Goto, Thread
<1>2. InHand = <<>> /\ InHand' = <<>>
  BY <1>1 DEF InHand
<1>3. Head(parser_to_aggregator) \in Line /\ ToCount = x \o ToCount'
  BY NumbersHead DEF AggregatorDiscard, ToCount, TypeOK
<1>4. n \in Nat /\ x \in Seq(Nat) /\ x = <<n>>
  BY <1>3 DEF Line
<1>5. UNCHANGED <<ToParse, ToTake, Sending>>
  BY <1>1 DEF AggregatorDiscard, ToParse, ToTake, Sending, ToSend, listenerVars
<1>. HIDE DEF n, x
<1>6. Outstanding = x \o rest /\ rest \in Seq(Nat)
  <2>1. <<>> \in Seq(Nat)
    OBVIOUS
  <2>2. Concats(x, rest, Five(<<>>, x \o ToCount', ToParse, ToTake, Sending))
    BY <1>0, <1>4, FiveBySecond, Zenon DEF PlacesOK
  <2>3. rest \in Seq(Nat)
    BY <1>0, <2>1, FiveType, Zenon DEF PlacesOK
  <2>. QED
    BY <1>0, <1>2, <1>3, <2>2, <2>3, Zenon DEF PlacesOK, Concats
<1>7. Outstanding' = rest
  BY <1>0, <1>2, <1>5, Zenon DEF PlacesOK
<1>. HIDE DEF rest
<1>8. LeavesOut(Outstanding, Outstanding')
  BY <1>4, <1>6, <1>7, FirstTaken, Zenon
<1>9. g_exit_flag
  BY DEF LineInv, AggregatorDiscard
<1>. QED
  BY <1>1, <1>8, <1>9 DEF AggregatorDiscard, Accounting!Discard, LeavesOut, flags, listenerVars,
     aggregatorVars

\* ... and so is the oldest datagram, whose lines are next to each other; a datagram
\* without lines leaves nothing to give up.
LEMMA ParserDiscards ==
    ASSUME TypeOK, TypeOK', LineInv, ParserDiscard
    PROVE  Accounting!Discard \/ UNCHANGED Accounting!vars
<1>0. PlacesOK /\ PlacesOK'
  BY PlacesType, PlacesTypeNext
<1>. DEFINE gone == Numbers(Head(network_listener_to_parser))
            before == InHand \o ToCount \o ToParse
            after == ToTake' \o Sending
<1>1. /\ pc'["listener"] = pc["listener"]
      /\ pc'["aggregator"] = pc["aggregator"] /\ pc'["main"] = pc["main"]
  BY DEF ParserDiscard, TypeOK, Goto, Thread
<1>2. ToTake = gone \o ToTake' /\ gone \in Seq(Nat)
  <2>1. Head(network_listener_to_parser) \in Seq(Line)
    BY DEF ParserDiscard, TypeOK
  <2>. QED
    BY <2>1, ChannelHead, NumbersType DEF ParserDiscard, ToTake, TypeOK
<1>3. UNCHANGED <<InHand, ToCount, ToParse, Sending>>
  BY <1>1 DEF ParserDiscard, InHand, ToCount, ToParse, Sending, ToSend, listenerVars,
     aggregatorVars
<1>. HIDE DEF gone
<1>4. Outstanding = before \o (gone \o after) /\ Outstanding' = before \o after
  <2>1. Associates(gone, ToTake', Sending)
    BY <1>0, <1>2, Assoc, Zenon DEF PlacesOK
  <2>2. gone \o ToTake' \in Seq(Nat)
    BY <1>0, <1>2, ConcatType, Zenon DEF PlacesOK
  <2>. DEFINE more == gone \o ToTake'
  <2>. HIDE DEF more
  <2>3. more \in Seq(Nat)
    BY <2>2 DEF more
  <2>4. /\ Concats(before, more \o Sending, Five(InHand, ToCount, ToParse, more, Sending))
        /\ Concats(before, after, Five(InHand, ToCount, ToParse, ToTake', Sending))
    BY <1>0, <2>3, FiveInThree, Zenon DEF PlacesOK
  <2>. QED
    BY <1>0, <1>2, <1>3, <2>1, <2>4, Zenon DEF PlacesOK, Associates, Concats, more
<1>5. before \in Seq(Nat) /\ after \in Seq(Nat) /\ Outstanding \in Seq(Nat)
  BY <1>0, ConcatType, FiveType, Zenon DEF PlacesOK
<1>. HIDE DEF before, after
<1>6. UNCHANGED Others
  BY <1>1 DEF ParserDiscard, Others, flags, listenerVars, aggregatorVars
<1>7. CASE gone = <<>>
  <2>1. Outstanding' = Outstanding
    BY <1>4, <1>5, <1>7, ConcatEmpty
  <2>. QED
    BY <1>6, <2>1 DEF Others, Accounting!vars
<1>8. CASE gone # <<>>
  <2>1. LeavesOut(Outstanding, Outstanding')
    BY <1>2, <1>4, <1>5, <1>8, RunLeftOut, Zenon
  <2>2. g_exit_flag
    BY DEF LineInv, ParserDiscard
  <2>. QED
    BY <1>6, <2>1, <2>2 DEF Others, Accounting!Discard, LeavesOut
<1>. QED
  BY <1>7, <1>8

\* The process ends: everybody has ended before, so nothing is outstanding.
LEMMA FreeCloses ==
    ASSUME TypeOK, TypeOK', DrainedShutdown, LineInv, MainFree
    PROVE  Accounting!Close
<1>1. /\ pc["main"] = "free" /\ pc'["main"] = "disposed"
      /\ pc'["listener"] = pc["listener"] /\ pc'["aggregator"] = pc["aggregator"]
  BY DEF MainFree, TypeOK, Goto, Thread
<1>2. /\ pc["aggregator"] = "done" /\ pc["parser"] = "done" /\ pc["listener"] = "done"
      /\ network_listener_to_parser = <<>> /\ parser_to_aggregator = <<>> /\ g_exit_flag
  BY <1>1 DEF DrainedShutdown
<1>3. lines = <<>>
  BY <1>2 DEF LineInv
<1>4. InHand = <<>> /\ ToSend = <<>>
  BY <1>2 DEF InHand, ToSend
<1>5. FlattenSeq(network_listener_to_parser) = <<>>
  BY <1>2 DEF FlattenSeq
<1>6. Numbers(<<>>) = <<>>
  BY DEF Numbers
<1>7. Outstanding = <<>>
  <2>1. <<>> \o <<>> \o <<>> \o <<>> \o <<>> = <<>>
    OBVIOUS
  <2>. QED
    BY <1>2, <1>3, <1>4, <1>5, <1>6, <2>1 DEF Outstanding
<1>8. UNCHANGED <<InHand, ToCount, ToParse, ToTake, Sending>>
  BY <1>1 DEF MainFree, MainUnchanged, InHand, ToCount, ToParse, ToTake, Sending, ToSend,
     listenerVars, aggregatorVars
<1>9. Outstanding' = Outstanding
  BY <1>8 DEF Outstanding, ToCount, ToParse, ToTake, Sending
<1>. QED
  BY <1>1, <1>2, <1>7, <1>9 DEF MainFree, MainUnchanged, Accounting!Close, flags,
     listenerVars, aggregatorVars

\* Every other step moves no line.
LEMMA OtherSteps ==
    ASSUME TypeOK, TypeOK',
           \/ ListenerSelectReadable \/ ListenerSelectEmpty \/ ListenerTooLarge
           \/ ListenerDies \/ ListenerCheckExit \/ ParserCheckExit \/ ParserFinish \/ ParserIdle
           \/ AggregatorCheckExit \/ AggregatorIdle \/ ProcessMetric \/ CountParsed
           \/ CountTimeParsing \/ CountAggregated \/ CountTimeAggregating
           \/ CountRefused \/ CountDropped \/ CountTimeDropped
           \/ MainInitFailed \/ MainConnect \/ MainCheckExit \/ MainPDU \/ MainPDUFailed
           \/ JoinListener \/ JoinParser \/ JoinAggregator \/ UNCHANGED vars
    PROVE  UNCHANGED Accounting!vars
<1>1. /\ UNCHANGED <<network_listener_to_parser, parser_to_aggregator, lines, datagram,
                     message, accepted, g_exit_flag, stats["received"]>>
      /\ pc["listener"] = "send" <=> pc'["listener"] = "send"
      /\ pc["aggregator"] = "received" <=> pc'["aggregator"] = "received"
      /\ pc["main"] = "disposed" <=> pc'["main"] = "disposed"
  <2>. USE DEF TypeOK, Goto, Thread
  <2>1. CASE ListenerSelectReadable \/ ListenerSelectEmpty \/ ListenerTooLarge
             \/ ListenerDies \/ ListenerCheckExit \/ UNCHANGED vars
    BY <2>1 DEF ListenerSelectReadable, ListenerSelectEmpty, ListenerTooLarge,
       ListenerDies, ListenerCheckExit, vars
  <2>2. CASE ParserCheckExit \/ ParserFinish \/ ParserIdle
    BY <2>2 DEF ParserCheckExit, ParserFinish, ParserIdle
  <2>3. CASE AggregatorCheckExit \/ AggregatorIdle \/ ProcessMetric \/ CountParsed
             \/ CountTimeParsing \/ CountAggregated \/ CountTimeAggregating
             \/ CountRefused \/ CountDropped \/ CountTimeDropped
    BY <2>3 DEF AggregatorCheckExit, AggregatorIdle, ProcessMetric, CountParsed,
       CountTimeParsing, CountAggregated, CountTimeAggregating, CountRefused,
       CountDropped, CountTimeDropped, ProcessStat, AddTime, Stat, Count, Time
  <2>4. CASE MainInitFailed \/ MainConnect \/ MainCheckExit \/ MainPDU \/ MainPDUFailed
             \/ JoinListener \/ JoinParser \/ JoinAggregator
    BY <2>4 DEF MainInitFailed, MainConnect, MainCheckExit, MainPDU, MainPDUFailed,
       JoinListener, JoinParser, JoinAggregator, MainUnchanged
  <2>. QED
    BY <2>1, <2>2, <2>3, <2>4
<1>2. UNCHANGED <<InHand, ToSend>>
  BY <1>1 DEF InHand, ToSend
<1>3. UNCHANGED Outstanding
  BY <1>1, <1>2 DEF Outstanding
<1>. QED
  BY <1>1, <1>3 DEF Accounting!vars

\* The signal handler is the request to stop.
LEMMA SigIntStops ==
    ASSUME SigInt
    PROVE  Accounting!Stop
<1>1. UNCHANGED <<InHand, ToSend>>
  BY DEF SigInt, MainUnchanged, InHand, ToSend
<1>2. UNCHANGED Outstanding
  BY <1>1 DEF Outstanding, SigInt, MainUnchanged
<1>. QED
  BY <1>2 DEF SigInt, MainUnchanged, Accounting!Stop

\* For every capacity, every number of datagrams and every interleaving of the
\* four threads and the signal, the pipeline implements LineAccounting: a line is
\* counted once and in the order of acceptance or was given up after SIGINT, and
\* the process ends with no line outstanding.
THEOREM LinesAccountedCorrect == Spec => LinesAccounted
<1>1. Init => Accounting!Init
  <2>. SUFFICES ASSUME Init
                PROVE  Accounting!Init
    OBVIOUS
  <2>1. InHand = <<>> /\ ToSend = <<>>
    BY DEF Init, InHand, ToSend
  <2>2. FlattenSeq(<<>>) = <<>> /\ Numbers(<<>>) = <<>>
    BY DEF FlattenSeq, Numbers
  <2>3. <<>> \o <<>> \o <<>> \o <<>> \o <<>> = <<>>
    OBVIOUS
  <2>4. Outstanding = <<>>
    BY <2>1, <2>2, <2>3 DEF Init, Outstanding
  <2>. QED
    BY <2>4 DEF Init, Accounting!Init, Stat, Count
<1>2. TypeOK /\ TypeOK' /\ DrainedShutdown /\ LineInv /\ [Next]_vars
        => [Accounting!Next]_Accounting!vars
  BY ReceiveAccepts, SendKeeps, TakeKeeps, ParseKeeps, AggregatorTakeKeeps,
     CountReceivedCounts, AggregatorDiscards, ParserDiscards, FreeCloses, OtherSteps,
     SigIntStops
     DEF Next, ListenerNext, ParserNext, AggregatorNext, MainNext, Terminated,
     Accounting!Next
<1>. QED
  BY <1>1, <1>2, TypeCorrect, ShutdownCorrect, LineInvariant, PTL
     DEF Spec, LinesAccounted, Accounting!Spec
=============================================================================
