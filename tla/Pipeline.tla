------------------------------ MODULE Pipeline ------------------------------
(***************************************************************************)
(* The four threads of pmdastatsd and the two bounded channels between     *)
(* them: the network listener takes datagrams off the socket, the parser   *)
(* cuts them into lines and parses each line, the aggregator records what  *)
(* was parsed and keeps the statistics, and the main thread serves PCP     *)
(* until it is told to stop and then joins the other three in order.       *)
(*                                                                         *)
(* Lines are numbered in the order the listener accepts them.  A line is   *)
(* reduced to its number and to whether the configured parser accepts it;  *)
(* whether process_metric accepts the parsed line is left open.  A time is *)
(* the difference of the tv_nsec fields of two clock readings, so it is    *)
(* negative when a second began in between, and the totals are unsigned.   *)
(***************************************************************************)
EXTENDS Integers, Sequences

CONSTANTS
    Shapes,        \* what a datagram may contain: one BOOLEAN per line, TRUE if it parses
    Capacity,      \* max_unprocessed_packets, the capacity of both channels
    MaxDatagrams,  \* bound: datagrams accepted in one behaviour
    Elapsed,       \* differences of tv_nsec that a measurement may give
    Wrap           \* 2^64: the totals of the times are of type size_t

\* max_unprocessed_packets = 0 would make the channels unbuffered; it is 2048 by default.
ASSUME PipelineAssumption ==
    /\ Shapes \subseteq Seq(BOOLEAN)
    /\ Capacity \in Nat \ {0}
    /\ MaxDatagrams \in Nat
    /\ Elapsed \subseteq Int
    /\ Wrap \in Nat \ {0}

Thread == {"listener", "parser", "aggregator", "main"}

Line == [n : Nat, ok : BOOLEAN]

Count == {"received", "parsed", "aggregated", "dropped"}

Time == {"time_spent_parsing", "time_spent_aggregating"}

Stat == Count \cup Time

ListenerPc   == {"select", "recvfrom", "send", "check_exit", "done"}
ParserPc     == {"check_exit", "select", "parse", "done"}
AggregatorPc == {"check_exit", "select", "received", "process_metric", "parsed",
                 "time_parsing", "verdict", "time_aggregating",
                 "dropped", "time_dropped", "done"}
MainPc       == {"init", "check_exit", "main_pdu", "join_listener", "join_parser",
                 "join_aggregator", "free", "disposed", "exited"}

VARIABLES
    pc,                        \* where each thread stands
    g_exit_flag,               \* set by SIGINT
    g_parser_exit,             \* set once the listener is joined
    g_aggregator_exit,         \* set once the parser is joined
    died,                      \* DIE has ended the process
    network_listener_to_parser,
    parser_to_aggregator,
    datagram,                  \* listener: the datagram it is about to send
    lines,                     \* parser: lines of its datagram not yet parsed
    message,                   \* aggregator: the message in hand
    should_exit,               \* parser and aggregator: exit flag read before the select
    status,                    \* aggregator: what process_metric answered
    stats,                     \* the statistics PCP reads
    samples,                   \* history: times added so far to each total
    datagrams,                 \* datagrams accepted so far (bounded by MaxDatagrams)
    accepted,                  \* lines accepted so far, and the number of the last one
    late                       \* lines counted as received after SIGINT

flags == <<g_exit_flag, g_parser_exit, g_aggregator_exit, died>>
listenerVars == <<datagram, datagrams, accepted>>
aggregatorVars == <<message, status, stats, samples, late>>
vars == <<pc, flags, network_listener_to_parser, parser_to_aggregator,
          listenerVars, lines, should_exit, aggregatorVars>>

Goto(t, from, to) ==
    /\ ~died
    /\ pc[t] = from
    /\ pc' = [pc EXCEPT ![t] = to]

Init ==
    /\ pc = [listener |-> "select", parser |-> "check_exit",
             aggregator |-> "check_exit", main |-> "init"]
    /\ g_exit_flag = FALSE
    /\ g_parser_exit = FALSE
    /\ g_aggregator_exit = FALSE
    /\ died = FALSE
    /\ network_listener_to_parser = <<>>
    /\ parser_to_aggregator = <<>>
    /\ datagram = <<>>
    /\ lines = <<>>
    /\ message = [n |-> 0, ok |-> FALSE]
    /\ should_exit = [t \in {"parser", "aggregator"} |-> FALSE]
    /\ status = FALSE
    /\ stats = [s \in Stat |-> 0]
    /\ samples = [s \in Time |-> 0]
    /\ datagrams = 0
    /\ accepted = 0
    /\ late = 0

-----------------------------------------------------------------------------
(* Network listener *)

\* select() with a zero timeout: a datagram is waiting ...
ListenerSelectReadable ==
    /\ Goto("listener", "select", "recvfrom")
    /\ UNCHANGED <<flags, network_listener_to_parser, parser_to_aggregator,
                   listenerVars, lines, should_exit, aggregatorVars>>

\* ... or none is.
ListenerSelectEmpty ==
    /\ Goto("listener", "select", "check_exit")
    /\ UNCHANGED <<flags, network_listener_to_parser, parser_to_aggregator,
                   listenerVars, lines, should_exit, aggregatorVars>>

\* The datagram fits the buffer and is copied.
ListenerReceive ==
    /\ datagrams < MaxDatagrams
    /\ Goto("listener", "recvfrom", "send")
    /\ \E shape \in Shapes :
         /\ datagram' = [i \in DOMAIN shape |-> [n |-> accepted + i, ok |-> shape[i]]]
         /\ accepted' = accepted + Len(shape)
    /\ datagrams' = datagrams + 1
    /\ UNCHANGED <<flags, network_listener_to_parser, parser_to_aggregator,
                   lines, should_exit, aggregatorVars>>

\* The datagram fills the buffer: truncated, warned about and skipped.
ListenerTooLarge ==
    /\ Goto("listener", "recvfrom", "select")
    /\ UNCHANGED <<flags, network_listener_to_parser, parser_to_aggregator,
                   listenerVars, lines, should_exit, aggregatorVars>>

\* recvfrom reports an error: DIE ends the whole process.
ListenerDies ==
    /\ ~died
    /\ pc["listener"] = "recvfrom"
    /\ died' = TRUE
    /\ UNCHANGED <<pc, g_exit_flag, g_parser_exit, g_aggregator_exit,
                   network_listener_to_parser, parser_to_aggregator,
                   listenerVars, lines, should_exit, aggregatorVars>>

\* Mutant: the channel takes any number of datagrams.
ListenerSendUnbounded ==
    /\ Goto("listener", "send", "select")
    /\ network_listener_to_parser' = Append(network_listener_to_parser, datagram)
    /\ UNCHANGED <<flags, parser_to_aggregator, listenerVars, lines, should_exit,
                   aggregatorVars>>

\* chan_send blocks while the channel is full.
ListenerSend ==
    /\ Len(network_listener_to_parser) < Capacity
    /\ Goto("listener", "send", "select")
    /\ network_listener_to_parser' = Append(network_listener_to_parser, datagram)
    /\ UNCHANGED <<flags, parser_to_aggregator, listenerVars, lines, should_exit,
                   aggregatorVars>>

\* Only a poll that found the socket empty looks at the exit flag.
ListenerCheckExit ==
    /\ Goto("listener", "check_exit", IF g_exit_flag THEN "done" ELSE "select")
    /\ UNCHANGED <<flags, network_listener_to_parser, parser_to_aggregator,
                   listenerVars, lines, should_exit, aggregatorVars>>

ListenerNext ==
    \/ ListenerSelectReadable \/ ListenerSelectEmpty
    \/ ListenerReceive \/ ListenerTooLarge \/ ListenerDies
    \/ ListenerSend \/ ListenerCheckExit

-----------------------------------------------------------------------------
(* Parser *)

\* The exit flag is read before the channel is looked at.
ParserCheckExit ==
    /\ Goto("parser", "check_exit", "select")
    /\ should_exit' = [should_exit EXCEPT !["parser"] = g_exit_flag]
    /\ UNCHANGED <<flags, network_listener_to_parser, parser_to_aggregator,
                   listenerVars, lines, aggregatorVars>>

\* chan_select delivers a datagram to parse.
ParserTake ==
    /\ network_listener_to_parser # <<>>
    /\ ~should_exit["parser"]
    /\ Goto("parser", "select", "parse")
    /\ lines' = Head(network_listener_to_parser)
    /\ network_listener_to_parser' = Tail(network_listener_to_parser)
    /\ UNCHANGED <<flags, parser_to_aggregator, listenerVars, should_exit,
                   aggregatorVars>>

\* After the exit flag was seen the datagram is freed unparsed.
ParserDiscard ==
    /\ network_listener_to_parser # <<>>
    /\ should_exit["parser"]
    /\ Goto("parser", "select", "check_exit")
    /\ network_listener_to_parser' = Tail(network_listener_to_parser)
    /\ UNCHANGED <<flags, parser_to_aggregator, listenerVars, lines, should_exit,
                   aggregatorVars>>

\* Mutant: a line is lost when the channel is full.
ParserParseLineLossy ==
    /\ ~died
    /\ pc["parser"] = "parse"
    /\ lines # <<>>
    /\ parser_to_aggregator' =
         IF Len(parser_to_aggregator) < Capacity THEN Append(parser_to_aggregator, Head(lines))
                                                 ELSE parser_to_aggregator
    /\ lines' = Tail(lines)
    /\ UNCHANGED <<pc, flags, network_listener_to_parser, listenerVars, should_exit,
                   aggregatorVars>>

\* One line of the datagram: parse it and send the verdict, blocking while
\* the channel is full.
ParserParseLine ==
    /\ ~died
    /\ pc["parser"] = "parse"
    /\ lines # <<>>
    /\ Len(parser_to_aggregator) < Capacity
    /\ parser_to_aggregator' = Append(parser_to_aggregator, Head(lines))
    /\ lines' = Tail(lines)
    /\ UNCHANGED <<pc, flags, network_listener_to_parser, listenerVars, should_exit,
                   aggregatorVars>>

\* No token is left: the datagram is freed.
ParserFinish ==
    /\ lines = <<>>
    /\ Goto("parser", "parse", "check_exit")
    /\ UNCHANGED <<flags, network_listener_to_parser, parser_to_aggregator,
                   listenerVars, lines, should_exit, aggregatorVars>>

\* Mutant: the parser leaves on the exit flag, not when main has joined the listener.
ParserIdleOnExitFlag ==
    /\ network_listener_to_parser = <<>>
    /\ Goto("parser", "select", IF g_exit_flag THEN "done" ELSE "check_exit")
    /\ UNCHANGED <<flags, network_listener_to_parser, parser_to_aggregator,
                   listenerVars, lines, should_exit, aggregatorVars>>

\* Nothing to receive: the parser leaves its loop once it was told to.
ParserIdle ==
    /\ network_listener_to_parser = <<>>
    /\ Goto("parser", "select", IF g_parser_exit THEN "done" ELSE "check_exit")
    /\ UNCHANGED <<flags, network_listener_to_parser, parser_to_aggregator,
                   listenerVars, lines, should_exit, aggregatorVars>>

ParserNext ==
    \/ ParserCheckExit \/ ParserTake \/ ParserDiscard
    \/ ParserParseLine \/ ParserFinish \/ ParserIdle

-----------------------------------------------------------------------------
(* Aggregator *)

AggregatorCheckExit ==
    /\ Goto("aggregator", "check_exit", "select")
    /\ should_exit' = [should_exit EXCEPT !["aggregator"] = g_exit_flag]
    /\ UNCHANGED <<flags, network_listener_to_parser, parser_to_aggregator,
                   listenerVars, lines, aggregatorVars>>

\* Mutant: the exit flag is not looked at.
AggregatorTakeAlways ==
    /\ parser_to_aggregator # <<>>
    /\ Goto("aggregator", "select", "received")
    /\ message' = Head(parser_to_aggregator)
    /\ parser_to_aggregator' = Tail(parser_to_aggregator)
    /\ UNCHANGED <<flags, network_listener_to_parser, listenerVars, lines,
                   should_exit, status, stats, samples, late>>

AggregatorTake ==
    /\ parser_to_aggregator # <<>>
    /\ ~should_exit["aggregator"]
    /\ Goto("aggregator", "select", "received")
    /\ message' = Head(parser_to_aggregator)
    /\ parser_to_aggregator' = Tail(parser_to_aggregator)
    /\ UNCHANGED <<flags, network_listener_to_parser, listenerVars, lines,
                   should_exit, status, stats, samples, late>>

AggregatorDiscard ==
    /\ parser_to_aggregator # <<>>
    /\ should_exit["aggregator"]
    /\ Goto("aggregator", "select", "check_exit")
    /\ parser_to_aggregator' = Tail(parser_to_aggregator)
    /\ UNCHANGED <<flags, network_listener_to_parser, listenerVars, lines,
                   should_exit, aggregatorVars>>

\* Nothing to receive.  The debug output served here is a module of its own
\* (it changes nothing the pipeline keeps).
AggregatorIdle ==
    /\ parser_to_aggregator = <<>>
    /\ Goto("aggregator", "select",
            IF g_aggregator_exit THEN "done" ELSE "check_exit")
    /\ UNCHANGED <<flags, network_listener_to_parser, parser_to_aggregator,
                   listenerVars, lines, should_exit, aggregatorVars>>

\* Mutant: a missing break lets STAT_RECEIVED run on into STAT_PARSED.
ProcessStatFallsThrough(stat, from, to) ==
    /\ Goto("aggregator", from, to)
    /\ stats' = [s \in Stat |->
                   IF s = stat \/ (stat = "received" /\ s = "parsed") THEN stats[s] + 1
                                                                     ELSE stats[s]]
    /\ UNCHANGED <<flags, network_listener_to_parser, parser_to_aggregator,
                   listenerVars, lines, should_exit, message, status, samples>>

\* process_stat on a count, under the statistics mutex.
ProcessStat(stat, from, to) ==
    /\ Goto("aggregator", from, to)
    /\ stats' = [stats EXCEPT ![stat] = @ + 1]
    /\ UNCHANGED <<flags, network_listener_to_parser, parser_to_aggregator,
                   listenerVars, lines, should_exit, message, status, samples>>

\* process_stat on a time: the signed difference of tv_nsec goes into the unsigned
\* total.  (The parser measures its time when it parses; nothing reads it before.)
AddTime(stat, from, to) ==
    /\ Goto("aggregator", from, to)
    /\ \E elapsed \in Elapsed :
         stats' = [stats EXCEPT ![stat] = (@ + elapsed) % Wrap]
    /\ samples' = [samples EXCEPT ![stat] = @ + 1]
    /\ UNCHANGED <<flags, network_listener_to_parser, parser_to_aggregator,
                   listenerVars, lines, should_exit, message, status>>

CountReceived ==
    /\ ProcessStat("received", "received",
                   IF message.ok THEN "process_metric" ELSE "dropped")
    /\ late' = late + (IF g_exit_flag THEN 1 ELSE 0)

ProcessMetric ==
    /\ Goto("aggregator", "process_metric", "parsed")
    /\ status' \in BOOLEAN
    /\ UNCHANGED <<flags, network_listener_to_parser, parser_to_aggregator,
                   listenerVars, lines, should_exit, message, stats, samples, late>>

CountParsed ==
    /\ ProcessStat("parsed", "parsed", "time_parsing")
    /\ UNCHANGED late

CountTimeParsing ==
    /\ AddTime("time_spent_parsing", "time_parsing", "verdict")
    /\ UNCHANGED late

CountAggregated ==
    /\ status
    /\ ProcessStat("aggregated", "verdict", "time_aggregating")
    /\ UNCHANGED late

CountTimeAggregating ==
    /\ AddTime("time_spent_aggregating", "time_aggregating", "check_exit")
    /\ UNCHANGED late

\* Mutant: a line that parses but is not acceptable is not counted as dropped.
CountRefusedNot ==
    /\ ~status
    /\ Goto("aggregator", "verdict", "check_exit")
    /\ UNCHANGED <<flags, network_listener_to_parser, parser_to_aggregator,
                   listenerVars, lines, should_exit, aggregatorVars>>

CountRefused ==
    /\ ~status
    /\ ProcessStat("dropped", "verdict", "check_exit")
    /\ UNCHANGED late

CountDropped ==
    /\ ProcessStat("dropped", "dropped", "time_dropped")
    /\ UNCHANGED late

CountTimeDropped ==
    /\ AddTime("time_spent_parsing", "time_dropped", "check_exit")
    /\ UNCHANGED late

AggregatorNext ==
    \/ AggregatorCheckExit \/ AggregatorTake \/ AggregatorDiscard \/ AggregatorIdle
    \/ CountReceived \/ ProcessMetric \/ CountParsed \/ CountTimeParsing
    \/ CountAggregated \/ CountTimeAggregating \/ CountRefused
    \/ CountDropped \/ CountTimeDropped

-----------------------------------------------------------------------------
(* Main thread *)

MainUnchanged ==
    UNCHANGED <<network_listener_to_parser, parser_to_aggregator, listenerVars,
                lines, should_exit, aggregatorVars>>

\* pmdaDaemon reported a status: main leaves, the other threads stay behind.
MainInitFailed ==
    /\ Goto("main", "init", "exited")
    /\ UNCHANGED flags
    /\ MainUnchanged

MainConnect ==
    /\ Goto("main", "init", "check_exit")
    /\ UNCHANGED flags
    /\ MainUnchanged

MainCheckExit ==
    /\ Goto("main", "check_exit", IF g_exit_flag THEN "join_listener" ELSE "main_pdu")
    /\ UNCHANGED flags
    /\ MainUnchanged

\* __pmdaMainPDU handled a request ...
MainPDU ==
    /\ Goto("main", "main_pdu", "check_exit")
    /\ UNCHANGED flags
    /\ MainUnchanged

\* ... or failed, for example because pmcd closed the connection.
MainPDUFailed ==
    /\ Goto("main", "main_pdu", "join_listener")
    /\ UNCHANGED flags
    /\ MainUnchanged

\* Mutant: the wrong thread is joined first.
JoinListenerLast ==
    /\ pc["parser"] = "done"
    /\ Goto("main", "join_listener", "join_parser")
    /\ g_parser_exit' = TRUE
    /\ UNCHANGED <<g_exit_flag, g_aggregator_exit, died>>
    /\ MainUnchanged

JoinListener ==
    /\ pc["listener"] = "done"
    /\ Goto("main", "join_listener", "join_parser")
    /\ g_parser_exit' = TRUE
    /\ UNCHANGED <<g_exit_flag, g_aggregator_exit, died>>
    /\ MainUnchanged

JoinParser ==
    /\ pc["parser"] = "done"
    /\ Goto("main", "join_parser", "join_aggregator")
    /\ g_aggregator_exit' = TRUE
    /\ UNCHANGED <<g_exit_flag, g_parser_exit, died>>
    /\ MainUnchanged

JoinAggregator ==
    /\ pc["aggregator"] = "done"
    /\ Goto("main", "join_aggregator", "free")
    /\ UNCHANGED flags
    /\ MainUnchanged

\* The shared containers are freed, the channels closed and disposed of.
MainFree ==
    /\ Goto("main", "free", "disposed")
    /\ UNCHANGED flags
    /\ MainUnchanged

MainNext ==
    \/ MainInitFailed \/ MainConnect \/ MainCheckExit \/ MainPDU \/ MainPDUFailed
    \/ JoinListener \/ JoinParser \/ JoinAggregator \/ MainFree

\* The SIGINT handler; it may run at any time and on any thread.
SigInt ==
    /\ ~died
    /\ ~g_exit_flag
    /\ pc["main"] # "disposed"
    /\ g_exit_flag' = TRUE
    /\ UNCHANGED <<pc, g_parser_exit, g_aggregator_exit, died>>
    /\ MainUnchanged

\* The process has returned from main, or exit was called.
Terminated ==
    /\ pc["main"] = "disposed" \/ died
    /\ UNCHANGED vars

Next ==
    \/ ListenerNext
    \/ ParserNext
    \/ AggregatorNext
    \/ MainNext
    \/ SigInt
    \/ Terminated

\* Every thread is scheduled, a request from pmcd or a failure of the
\* connection eventually ends __pmdaMainPDU, and the socket is not found
\* readable by every single poll for ever.
Fairness ==
    /\ WF_vars(ListenerNext)
    /\ SF_vars(ListenerSelectEmpty)
    /\ WF_vars(ParserNext)
    /\ WF_vars(AggregatorNext)
    /\ WF_vars(MainNext)

Spec == Init /\ [][Next]_vars

FairSpec == Spec /\ Fairness
-----------------------------------------------------------------------------
(* Properties *)

\* Every variable keeps its range.  In particular neither channel ever holds
\* more than max_unprocessed_packets elements.
TypeOK ==
    /\ pc \in [Thread -> ListenerPc \cup ParserPc \cup AggregatorPc \cup MainPc]
    /\ pc["listener"] \in ListenerPc
    /\ pc["parser"] \in ParserPc
    /\ pc["aggregator"] \in AggregatorPc
    /\ pc["main"] \in MainPc
    /\ g_exit_flag \in BOOLEAN
    /\ g_parser_exit \in BOOLEAN
    /\ g_aggregator_exit \in BOOLEAN
    /\ died \in BOOLEAN
    /\ network_listener_to_parser \in Seq(Seq(Line))
    /\ Len(network_listener_to_parser) <= Capacity
    /\ parser_to_aggregator \in Seq(Line)
    /\ Len(parser_to_aggregator) <= Capacity
    /\ datagram \in Seq(Line)
    /\ lines \in Seq(Line)
    /\ message \in Line
    /\ should_exit \in [{"parser", "aggregator"} -> BOOLEAN]
    /\ status \in BOOLEAN
    /\ stats \in [Stat -> Nat]
    /\ samples \in [Time -> Nat]
    /\ datagrams \in Nat
    /\ accepted \in Nat
    /\ late \in Nat

\* The statistics PCP may read at any instant: every received line has exactly
\* one verdict (aggregated or dropped) and one parsing time in the total, and every
\* aggregated line one aggregating time, except for the one line the
\* aggregator has in hand; a line counted as dropped after it parsed is the
\* difference between parsed and aggregated.
StatsBalance ==
    LET at == pc["aggregator"]
        One(S) == IF at \in S THEN 1 ELSE 0
    IN  /\ stats["received"] = stats["aggregated"] + stats["dropped"]
                + One({"process_metric", "parsed", "time_parsing", "verdict", "dropped"})
        /\ stats["received"] = samples["time_spent_parsing"]
                + One({"process_metric", "parsed", "time_parsing",
                       "dropped", "time_dropped"})
        /\ stats["aggregated"] = samples["time_spent_aggregating"]
                + One({"time_aggregating"})
        /\ stats["parsed"] >= stats["aggregated"] + One({"time_parsing", "verdict"})
        /\ stats["parsed"] + One({"process_metric", "parsed", "dropped"})
                <= stats["received"]

\* Shutdown goes upstream to downstream: a thread has only ended when the one
\* that feeds it has ended and everything it was sent is consumed, and main
\* frees the containers and the channels only when all three have ended.  So
\* nothing is sent to a thread that is gone and nothing shared is used after
\* it was freed.
DrainedShutdown ==
    /\ pc["listener"] = "done" => g_exit_flag
    /\ pc["parser"] = "done" =>
         /\ pc["listener"] = "done"
         /\ network_listener_to_parser = <<>>
    /\ pc["aggregator"] = "done" =>
         /\ pc["parser"] = "done"
         /\ parser_to_aggregator = <<>>
    /\ pc["main"] \in {"free", "disposed"} => pc["aggregator"] = "done"

\* The exit flag is read before the message is taken, so it may be stale; it is
\* stale by one message at most: after SIGINT at most one more line is counted
\* as received, everything behind it is freed unprocessed.
AtMostOneLate == late <= 1

\* The counts never go down, and one step changes at most one statistic, so a PCP
\* fetch between two steps sees each count at most one behind.  A total of times
\* moves only when a time is added to it; it goes down when a second began between the
\* two clock readings.
CountsMonotone ==
    [][\E stat \in Stat :
          /\ stat \in Count => stats'[stat] = stats[stat] + 1
          /\ stat \in Time => samples'[stat] = samples[stat] + 1
          /\ \A other \in Stat \ {stat} : stats'[other] = stats[other]]_stats

\* Once main is past its start, a SIGINT leads to the end of the process,
\* whatever is still queued and whoever is blocked on a full channel: main returns,
\* unless the listener has ended the process before.
ShutdownCompletes ==
    (g_exit_flag /\ pc["main"] \notin {"init", "exited"})
        ~> (pc["main"] = "disposed" \/ died)

\* Whatever the listener hands over is eventually taken off both channels, unless
\* the process ends by DIE: back-pressure from a full channel never becomes a
\* standstill.
ChannelsDrain ==
    /\ (network_listener_to_parser # <<>>)
         ~> (network_listener_to_parser = <<>> \/ died)
    /\ (parser_to_aggregator # <<>>) ~> (parser_to_aggregator = <<>> \/ died)
=============================================================================
