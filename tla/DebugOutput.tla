---------------------------- MODULE DebugOutput ----------------------------
(***************************************************************************)
(* Output of the recorded values on SIGUSR1, and the mutexes it shares     *)
(* with ordinary work: the flag g_output_requested has one, the metrics    *)
(* and the statistics have one each.  The aggregator takes the last two    *)
(* for every message and for the output, the thread serving PCP nests them *)
(* while it maps metrics; the signal handler runs on any thread, which     *)
(* stands still meanwhile, and locks the mutex of the flag.  None of the   *)
(* mutexes is recursive.                                                   *)
(***************************************************************************)
EXTENDS Naturals

CONSTANTS
    SignalThreads,   \* threads the kernel may run the SIGUSR1 handler on
    FileOpens,       \* may fopen of the output file succeed, may it fail
    MaxSignals       \* bound: SIGUSR1 signals in one behaviour

Thread == {"aggregator", "pcp", "other"}

Mutex == {"output", "metrics", "stats"}

ASSUME OutputAssumption ==
    /\ SignalThreads \subseteq Thread
    /\ FileOpens \subseteq BOOLEAN
    /\ MaxSignals \in Nat

VARIABLES
    pc,                   \* where the aggregator and the thread serving PCP are
    handler,              \* where a thread is in output_request_handler
    owner,                \* who holds a mutex: a thread, its handler, or nobody
    g_output_requested,
    signals,              \* signals so far (bounded by MaxSignals)
    owed,                 \* a request was noted and no output was begun since
    kept                  \* mutexes a failed output left locked

vars == <<pc, handler, owner, g_output_requested, signals, owed, kept>>

Nobody == <<"nobody">>
Itself(t) == <<t>>
Handler(t) == <<t, "handler">>

Init ==
    /\ pc = [aggregator |-> "select", pcp |-> "idle"]
    /\ handler = [t \in Thread |-> "none"]
    /\ owner = [m \in Mutex |-> Nobody]
    /\ g_output_requested = FALSE
    /\ signals = 0
    /\ owed = FALSE
    /\ kept = {}

\* A thread moves on only while no handler runs on top of it.
Goto(t, from, to) ==
    /\ pc[t] = from
    /\ handler[t] = "none"
    /\ pc' = [pc EXCEPT ![t] = to]

Acquire(who, m) ==
    /\ owner[m] = Nobody
    /\ owner' = [owner EXCEPT ![m] = who]

Release(m) == owner' = [owner EXCEPT ![m] = Nobody]

Lock(t, m, from, to) ==
    /\ Goto(t, from, to)
    /\ Acquire(Itself(t), m)
    /\ UNCHANGED <<handler, g_output_requested, signals, owed, kept>>

Unlock(t, m, from, to) ==
    /\ Goto(t, from, to)
    /\ Release(m)
    /\ UNCHANGED <<handler, g_output_requested, signals, owed, kept>>

Step(t, from, to) ==
    /\ Goto(t, from, to)
    /\ UNCHANGED <<handler, owner, g_output_requested, signals, owed, kept>>

-----------------------------------------------------------------------------
(* Aggregator *)

\* A message is received: processing it takes the metrics' mutex and then the
\* statistics' mutex, one critical section after the other.
AggregatorMessage ==
    \/ Step("aggregator", "select", "process_metric")
    \/ Lock("aggregator", "metrics", "process_metric", "processing")
    \/ Unlock("aggregator", "metrics", "processing", "process_stat")
    \/ Lock("aggregator", "stats", "process_stat", "counting")
    \/ Unlock("aggregator", "stats", "counting", "select")

\* The channel is empty and the aggregator was told to leave: main has left its
\* loop and joined the parser.  A request not served by then never is.
AggregatorExit ==
    /\ pc["pcp"] = "joining"
    /\ Step("aggregator", "select", "done")

\* The channel is empty, otherwise.
AggregatorEmpty ==
    \/ Step("aggregator", "select", "lock_output")
    \/ Lock("aggregator", "output", "lock_output", "output")

BeginOutput ==
    /\ g_output_requested
    /\ Goto("aggregator", "output", "write_metrics")
    /\ owed' = FALSE
    /\ UNCHANGED <<handler, owner, g_output_requested, signals, kept>>

NoOutput ==
    /\ ~g_output_requested
    /\ Step("aggregator", "output", "unlock_output")

\* Mutant: the mutex is not given back.
WriteMetricsLocked ==
    \/ Lock("aggregator", "metrics", "write_metrics", "fopen_metrics")
    \/ Step("aggregator", "fopen_metrics", "write_stats")

\* What was asked for is written and the mutex unlocked; where the file does not
\* open the function returns at once.
WriteAndUnlock(m, from, to) ==
    /\ Goto("aggregator", from, to)
    /\ \/ TRUE \in FileOpens /\ Release(m) /\ UNCHANGED kept
       \/ FALSE \in FileOpens /\ kept' = kept \cup {m} /\ UNCHANGED owner
    /\ UNCHANGED <<handler, g_output_requested, signals, owed>>

\* write_metrics_to_file and write_stats_to_file: lock first, then open the file.
WriteMetrics ==
    \/ Lock("aggregator", "metrics", "write_metrics", "fopen_metrics")
    \/ WriteAndUnlock("metrics", "fopen_metrics", "write_stats")

WriteStats ==
    \/ Lock("aggregator", "stats", "write_stats", "fopen_stats")
    \/ WriteAndUnlock("stats", "fopen_stats", "clear")

\* Mutant: the flag is left as it is.
KeepRequest == Step("aggregator", "clear", "unlock_output")

ClearRequest ==
    /\ Goto("aggregator", "clear", "unlock_output")
    /\ g_output_requested' = FALSE
    /\ UNCHANGED <<handler, owner, signals, owed, kept>>

UnlockOutput == Unlock("aggregator", "output", "unlock_output", "select")

AggregatorNext ==
    \/ AggregatorMessage \/ AggregatorExit \/ AggregatorEmpty
    \/ BeginOutput \/ NoOutput \/ WriteMetrics \/ WriteStats
    \/ ClearRequest \/ UnlockOutput

-----------------------------------------------------------------------------
(* The thread serving PCP *)

\* Each request begins with a look at the generation under the metrics' mutex; a
\* value is then read in a critical section like this one.
PossibleReload ==
    \/ Step("pcp", "idle", "possible_reload")
    \/ Lock("pcp", "metrics", "possible_reload", "comparing")
    \/ Unlock("pcp", "metrics", "comparing", "idle")
    \/ Unlock("pcp", "metrics", "comparing", "reset_stat")

\* statsd_map_stats resets the count of tracked metrics and then holds the metrics'
\* mutex while map_metric, here for one metric, counts it under the statistics' mutex.
Reload ==
    \/ Lock("pcp", "stats", "reset_stat", "resetting")
    \/ Unlock("pcp", "stats", "resetting", "reload")
    \/ Lock("pcp", "metrics", "reload", "mapping")
    \/ Lock("pcp", "stats", "mapping", "tracking")
    \/ Unlock("pcp", "stats", "tracking", "mapped")
    \/ Unlock("pcp", "metrics", "mapped", "idle")

\* Mutant: the value is read again and again.
FetchStatAgain ==
    \/ Step("pcp", "idle", "get_agent_stat")
    \/ Lock("pcp", "stats", "get_agent_stat", "reading")
    \/ Unlock("pcp", "stats", "reading", "get_agent_stat")

\* One value of the agent's own statistics.
FetchStat ==
    \/ Step("pcp", "idle", "get_agent_stat")
    \/ Lock("pcp", "stats", "get_agent_stat", "reading")
    \/ Unlock("pcp", "stats", "reading", "idle")

\* main_PDU_loop has ended.
Leave == Step("pcp", "idle", "joining")

PcpNext == PossibleReload \/ Reload \/ FetchStat \/ Leave

-----------------------------------------------------------------------------
(* SIGUSR1 *)

\* The kernel picks a thread and runs the handler on top of whatever it does.
SigUsr1 ==
    /\ signals < MaxSignals
    /\ signals' = signals + 1
    /\ \E t \in SignalThreads :
         /\ handler[t] = "none"
         /\ handler' = [handler EXCEPT ![t] = "lock"]
    /\ UNCHANGED <<pc, owner, g_output_requested, owed, kept>>

\* Mutant: the flag is set without its mutex.
RequestOutputUnlocked(t) ==
    /\ handler[t] = "lock"
    /\ handler' = [handler EXCEPT ![t] = "none"]
    /\ g_output_requested' = TRUE
    /\ owed' = TRUE
    /\ UNCHANGED <<pc, owner, signals, kept>>

\* aggregator_request_output
RequestOutput(t) ==
    /\ handler[t] = "lock"
    /\ Acquire(Handler(t), "output")
    /\ handler' = [handler EXCEPT ![t] = "unlock"]
    /\ g_output_requested' = TRUE
    /\ owed' = TRUE
    /\ UNCHANGED <<pc, signals, kept>>

HandlerReturn(t) ==
    /\ handler[t] = "unlock"
    /\ Release("output")
    /\ handler' = [handler EXCEPT ![t] = "none"]
    /\ UNCHANGED <<pc, g_output_requested, signals, owed, kept>>

HandlerNext(t) == RequestOutput(t) \/ HandlerReturn(t)

\* The aggregator has left, or will block on a mutex it kept, and the others behind.
Ended ==
    /\ pc["aggregator"] = "done" \/ kept # {}
    /\ UNCHANGED vars

Next ==
    \/ AggregatorNext \/ PcpNext \/ SigUsr1
    \/ \E t \in Thread : HandlerNext(t)
    \/ Ended

\* Threads and handlers are scheduled, a contended mutex is handed to each of
\* its waiters some time, and the channel is found empty again and again.
Fairness ==
    /\ SF_vars(AggregatorNext)
    /\ SF_vars(AggregatorEmpty)
    /\ SF_vars(PossibleReload \/ Reload \/ FetchStat)
    /\ \A t \in Thread : SF_vars(HandlerNext(t))

Spec == Init /\ [][Next]_vars

FairSpec == Spec /\ Fairness
-----------------------------------------------------------------------------
(* Properties *)

\* Every variable keeps its range, and a mutex is held by those, and only those,
\* who are inside one of its critical sections or kept it when the output file did
\* not open.
TypeOK ==
    LET Holds(t, m, section) ==
            owner[m] = Itself(t) <=> pc[t] \in section \/ (t = "aggregator" /\ m \in kept)
    IN  /\ pc["aggregator"] \in {"select", "process_metric", "processing", "process_stat",
                                 "counting", "lock_output", "output", "write_metrics",
                                 "fopen_metrics", "write_stats", "fopen_stats", "clear",
                                 "unlock_output", "done"}
        /\ pc["pcp"] \in {"idle", "possible_reload", "comparing", "reset_stat",
                          "resetting", "reload", "mapping", "tracking", "mapped",
                          "get_agent_stat", "reading", "joining"}
        /\ handler \in [Thread -> {"none", "lock", "unlock"}]
        /\ g_output_requested \in BOOLEAN
        /\ signals \in 0..MaxSignals
        /\ owed \in BOOLEAN
        /\ kept \subseteq {"metrics", "stats"}
        /\ Holds("aggregator", "output", {"output", "write_metrics", "fopen_metrics",
                              "write_stats", "fopen_stats", "clear", "unlock_output"})
        /\ Holds("aggregator", "metrics", {"processing", "fopen_metrics"})
        /\ Holds("aggregator", "stats", {"counting", "fopen_stats"})
        /\ Holds("pcp", "metrics", {"comparing", "mapping", "tracking", "mapped"})
        /\ Holds("pcp", "stats", {"resetting", "tracking", "reading"})
        /\ \A t \in Thread : owner["output"] = Handler(t) <=> handler[t] = "unlock"

\* No request is lost: one noted while an output is under way is not wiped out
\* with the one being served.
RequestKept == owed => g_output_requested

\* "You can send USR1 signal that 'asks' agent to output basic information": a
\* noted request is served, unless the agent ends or an output fails first.
RequestServed ==
    g_output_requested ~> (~g_output_requested \/ pc["aggregator"] = "done" \/ kept # {})

\* PCP is answered whatever the aggregator writes or is asked to write, as long as the
\* output file opens: a mutex that write_metrics_to_file or write_stats_to_file keeps
\* is the one thing that stops it.
PcpServed == (pc["pcp"] # "idle") ~> (pc["pcp"] \in {"idle", "joining"} \/ kept # {})
=============================================================================
