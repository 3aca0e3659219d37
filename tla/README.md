# A TLA+ model of pmdastatsd

pmdastatsd is an agent of Performance Co-Pilot: it receives StatsD datagrams
over UDP, aggregates them and exposes the result as PCP metrics. This directory
holds TLA+ modules of its core, TLC configurations that check them on small
instances, and TLAPS proofs of what matters most for every instance. Paths below
are those of the repository; `aggregators.c` and the like are under `src/src/`.

## 1. Inventory

| Component | State it keeps | Operations | Interacts with |
|---|---|---|---|
| Network listener (`network-listener.c`) | the socket, one receive buffer | poll, receive, skip, send, look at the exit flag | sends datagrams to the parser over a bounded channel |
| Parser thread (`parsers.c`) | the datagram being cut into lines, `g_parser_exit` | take or discard a datagram, parse a line, send the verdict | both channels |
| Parsers (`parser-basic.c`, `parser-ragel.rl`, `parsers-utils.c`) | the line being parsed; `errno` of the thread | parse one line, build and order its tags | called by the parser thread |
| Aggregator thread (`aggregators.c`) | the message in hand, `g_aggregator_exit`, `g_output_requested` | take or discard a message, record it, count it, write the debug output | second channel, metric store, statistics |
| Statistics (`aggregator-stats.c`) | six counts and a count of tracked metrics per type, one mutex | count, reset, read, print | aggregator writes, PCP thread reads and counts tracked metrics |
| Metric store (`aggregator-metrics.c`) | hashtable of metrics, generation, one mutex | find, create, add, update, remove, mark | aggregator writes, PCP thread maps and reads |
| Labels (`aggregator-metric-labels.c`) | a hashtable of labels per metric | find, create, add | as above |
| Values (`aggregator-metric-counter.c`, `-gauge.c`, `-duration*.c`) | one number; or a collection, or a histogram | create, update, read | called with the store's mutex held, except for creation |
| PCP mapping and callbacks (`pmda-callbacks.c`) | PCP metric table, instance domains, name space, copy of the generation | reload, map, fetch, name, instance, label | reads the store, answers pmcd through libpcp_pmda |
| Main thread (`pmdastatsd.c`) | exit flag (`utils.c`) | start, serve PCP, join the threads in order, release | SIGINT, the three threads |
| Debug output (`aggregators.c`, `write_*_to_file`) | request flag and its mutex | request on SIGUSR1, write, clear | all three mutexes |
| Configuration (`config-reader.c`, `ini.c`) | the settings | defaults, then the file, then the command line; once, before any thread starts | the file name is freed by main |

What is hard about it: four threads share two channels, two containers and three
flags; a metric is recorded in several critical sections and mapped in another
thread in between; the mapping indexes arrays that grow; checks of the exit flags
are separate from the channel operations they govern; a signal handler takes a
mutex; values are checked against the limits of a double by operand; identifiers are
built from bit fields before their bounds are looked at; names of instances are shared
between domains and freed by index; and two hand-written automata read the same lines.
The complete list, with lines and the properties that cover each point, is under
"hazards" in `PROJECT.json`.

What makes the components correct:

* pipeline: no accepted line is lost, duplicated or overtaken before a stop; every
  received line gets exactly one verdict; after SIGINT the threads end in order and
  leave nothing behind;
* store and labels: the answer of `process_metric` agrees with the table; a refused
  datagram leaves no trace;
* mapping: identities are unique and stable, labels end up in the instance domain,
  an instance is read inside its map and shows the value it is named after, pmcd is
  told of new names;
* values: finite, counters never fall, quantiles are read in bounds and mean what
  they are called;
* identifiers and memory: no pmID and no instance domain is handed out twice, no name
  PCP holds is freed, and what is freed twice or never is known exactly;
* parsers: both understand what is documented, each in one way, and tags end up as
  documented;
* configuration: the setting given last is the one used, and the first error counts;
* debug output: requests are served, and neither they nor their failures stop the
  other threads.

## 2. Modules

| Module | Models | Kind |
|---|---|---|
| `Pipeline` | listener, parser, aggregator, main, both channels, statistics, SIGINT | specification |
| `LineAccounting` | what the pipeline promises about lines | abstract specification |
| `PipelineRefinement` | the mapping from the first to the second | refinement |
| `MetricStore` | `process_metric`, labels, reload, mapping, fetch and label lookup | specification |
| `MetricValue` | one counter and one gauge | specification |
| `Duration` | one duration metric, exact or histogram | specification |
| `MetricValues` | the value of a metric of any type: the two above behind one pointer | composition |
| `DebugOutput` | SIGUSR1, the request flag and the three mutexes | specification |
| `BasicParser`, `RagelParser` | the two automata for lines | specifications of one step each |
| `TagCollection` | tags ordered, merged and written into the buffer | operators |
| `LineParsers` | both parsers and the documented grammar on one stream of characters | composition |
| `IdAllocation` | `get_next_pmID` and `get_next_pmInDom` with the widths of their fields | operators |
| `PcpTables` | table entries, identifiers, help texts and instance names in memory, up to their release | specification |
| `ConfigSources` | defaults, INI file, command line, and the release of the file name | specification |
| `MCPipeline`, `MCMetricStore`, `MCMetricValues`, `MCLineParsers`, `MCPcpTables`, `MCConfigSources` | instances | for TLC |
| `PipelineProofs`, `MetricStoreProofs`, `MetricValuesProofs`, `PcpTablesProofs`, `DebugOutputProofs`, `ConfigSourcesProofs`, `LineParsersProofs` | theorems | for TLAPS |
| `DataLemmas` | lemmas on sequences and folds over data, used by the theorems | for TLAPS |

The definitions that translate code are listed with their lines under "map" in
`PROJECT.json`. A definition whose comment begins with "Mutant" is a plausible
mistake in the definition that follows it; it is not used by the specification, and
exists to show that a property notices the mistake.

**Pipeline.** `pc` gives each thread's place; one action is one call that another
thread can observe: a read of a flag, a channel operation, one `process_stat`.
A line is its number in order of acceptance and whether it parses; the verdict of
`process_metric` is left open in `ProcessMetric`. `should_exit` is the copy of the
exit flag both consumers take before looking at their channel. A time is the
difference of the `tv_nsec` fields of two readings (`Elapsed`, which may be negative), and
`AddTime` puts it into a total that is unsigned (`Wrap` is 2^64); `samples`, how many
times each total has been given, `late`, `accepted` and `datagrams` are history variables.
`ListenerDies` is the `DIE` of a failed `recvfrom`, which ends the whole process (`died`).
`chan_select` with one channel and nothing in it returns at once, which is
`ParserIdle` and `AggregatorIdle`; `chan_send` blocks on a full channel, which is the
guard of `ListenerSend` and `ParserParseLine`. `MainInitFailed` is the exit by
`pthread_exit` when the dispatch structure reports a status.

**MetricStore.** A step is one critical section of the container's mutex, or a thread's
work on its own data. A reload holds the mutex over many steps, one per metric, and
`Unlocked` is false meanwhile. `heap` keeps every allocated metric, also those removed,
so that a stale pointer shows. `pcp_metrics` keeps what the array's entries hold, with
`Garbage` for what `realloc` added and nothing wrote. Values are there or not; whether
one is acceptable is left open, and `MetricValues` models what is acceptable. A request
that asks for nothing of a client's metrics is `ServeFetch` or `ServeOther`.
`FetchInstance` and `LabelInstance` resolve the instance up to the read of the root
value, which the code does without the mutex; `AnswerInstance` is the later critical
section. Labels are mapped in whatever order the hashtable's iterator gives (`\E
order`). `FreshPernament` is what `malloc` may leave in a field that `create_metric`
does not write; the run `metric_store` takes both values, the runs of findings zeroed
memory, which is enough to show them; the history field `leftover` keeps which it was.
Two steps lead to `Undefined`, where nothing is said of the agent any more: a refused
label is freed along with its unwritten `value` (`FreeUnwritten`; the other outcome, a
null pointer there, is the ordinary `CreateLabel`), and a root value is read that is a
null pointer or was freed (`ReadMissing`), which takes a metric mapped for a mark malloc
had left.

**MetricValue, Duration, MetricValues.** Doubles are integers, `DBL_MAX` is a constant,
addition is exact. The code tests the operands against `DBL_MAX` before it adds.
Rounding is not modelled: near `DBL_MAX` a double sum may round, in the same direction
as the rounded difference of the check. Durations come in halves, because both create
and update cut the double off to an unsigned integer (`Converted`); one of 2^64
(`Limit`) or more becomes whatever the build makes of it (`Overflowed`), and only the
first value is compared with `DBL_MAX`. `Arranged` is what `qsort` leaves with a
comparator that never answers "less": a sorted collection from the merge sort of glibc,
any order from another algorithm (`MergeSort`). The rank formulas are those of the code
with `ceil` and `round` written in integers (positions from 1); for collections of fewer
than 2^31 values the conversion to `int` loses nothing. The integer formulas were
compared with the C expressions, floating-point rounding included, for every length up
to two million and agree. The histogram keeps exact values up to `Highest` and ignores
those beyond, as `hdr_record_value` does; one that holds nothing answers `INT64_MAX` as
its min and 0 otherwise, since its getter has no early return (`EmptyAnswer`). Its
buckets and its estimates of quantiles are not modelled. `MetricValues` puts the parts
behind `create_metric_value` and `update_metric_value`, which choose by the metric's
type and refuse a datagram of another one.

**DebugOutput.** `owner` says who holds each mutex, a thread or the signal handler
running on top of it; a thread stands still while a handler runs on it. The
aggregator's ordinary work is one critical section of each container's mutex per
message; the PCP thread compares generations, reloads (the statistics' mutex
nested in the metrics' one) or reads a value. `kept` collects the mutexes that a
failed `fopen` left locked.

**BasicParser, RagelParser, TagCollection, LineParsers.** A line arrives character by
character; a character is one of the classes the code tells apart, and of a text only
what later steps ask of it is kept: whether it is empty, for a number its sign and the
digits before and behind the point, of tags how many there are. One character of a line
is marked, and each parser says which field it became part of: two parsers that agree on
every choice of it cut the line alike. `BasicParser` has one operator per segment of
`parser-basic.c` and keeps `errno` beside the line, since `strtod` sets it and nothing
clears it. Whether a number with digits enough to leave the range of a double does so
depends on what the digits are, and is a choice (`OutOfRange`): a long whole part may
overflow or begin with zeros, a long fraction may underflow. `RagelParser` is the
machine of the grammar as a set of places the line so far leads to (`Leads`, one case
per place), with the actions of the rules; in a final state an error stops it without
its error action. `LineParsers` feeds both, one character per step, beside `documented`,
which walks through the grammar of the repository's README; `Collect` chooses what the
keys and values were. `TagCollection` sorts by key alone, lets the right-most of equal
keys win and drops tags whose JSON does not fit. `StableSort` says which `qsort` the C
library has; the run takes the merge sort of glibc.

**IdAllocation, PcpTables.** `NextId` builds an identifier from the bit fields of the
counter before the bound is compared. `PcpTables` follows what `create_pcp_metric`,
`map_labels_to_instances`, `create_instance`, `update_instance` and the release in
`free_shared_data` do with memory: a name is the place it was allocated for, `it_set`
the names of a domain PCP may read, `allocated` all there ever were, `freed` and `twice`
what was freed once and more often. Datagrams come between reloads, since a reload
holds the mutex; what comes of finer interleavings is in `MetricStore`. A reload needs no
new metric (`BeginReload`): any change of the generation asks for one, also that of a
metric added and removed again, and each raises the count. `Release` walks the table up
to that count, after any number of reloads; what nothing wrote happens to be null there.
`ReleaseUndefined` is the other outcome, possible as soon as one metric is mapped: a second
free, or the free of what nothing wrote or lies past the table, stops the agent.

**ConfigSources.** One action per line of the file and per option. A number stands for
one of three ranges, below, at and above its limit. `ini_parse_stream`'s `prev_name`
and `section` carry over from line to line, and `filename` is where the string of the
debug output's name lives.

## 3. Runs

All runs of a specification use its `Next` unchanged.

| Run | Instance | Shows |
|---|---|---|
| `pipeline` | up to 3 datagrams of no line or two with different verdicts; capacity 1; times of -1 and 2, totals that wrap at 3; `FairSpec` | type and balance of the statistics, counts that only go up, drained shutdown, at most one late line, refinement of `LineAccounting`; shutdown completes and channels drain |
| `metric_store` | 2 names, 2 tag strings, 2 types, 3 datagrams, any number of requests, both contents of fresh memory; symmetric | eight properties of table, mapping and name space |
| `metric_values` | magnitudes 0..6, `DblMax = 6`; durations of both kinds, a negative one, one with a fraction, one in range, one of 2^64 and more, one of `DBL_MAX`, held as 2 different integers of which the histogram tracks one; merge sort; up to 12 accepted | finite values, monotone counters, one type per value; indices, order and coverage of the quantiles, nothing lost |
| `debug_output` | 3 signals to a thread without mutexes, the file opens or not, `FairSpec` | who holds what, requests kept and served, PCP served |
| `line_parsers` | every line of up to 2 tags and 3 digits before and behind the point, 1 of them in range on either side and 2 in the Ragel grammar; one marked character; any number of lines | what is documented is understood, what else is taken, where the two differ, what becomes of tags |
| `pcp_tables` | 3 metrics of either kind, 2 labels, room for 2 pmIDs and 6 serials; no reload with more than 7 metrics counted; symmetric | identifiers distinct, names usable, exactly what is forgotten, freed and freed twice |
| `config_sources` | up to 3 lines, 2 options, 4 in all; numbers below, at and above the limit | settings as given, first error, which file name is freed |

Bounds. With capacity 1 and three datagrams of up to two lines both channels are full
while both senders hold something, the longest chain of blocked threads there is. Three
datagrams are the fewest that create a metric, label it twice and add a root value; two
names are the fewest that grow the table behind an existing entry. A percentile's rank
first falls below the collection's length at 6 (90), 11 (95) and 51 (99) values; twelve
values cover the first two, and the theorem `IndicesCorrect` covers every length. The two
times of `pipeline`, one within a second and one over its end, lead to the same total as
it wraps at 3, so that totals that grow, shrink and wrap add no states; the counts are not
reduced, they wrap after 2^64 events. The durations (in halves, with `DBL_MAX` at 20 and
2^64 at 10) lie on both sides of each limit, and what an overflow becomes is beyond the
histogram. `DblMax = 6` leaves room for sums that overflow and for ones that do not, on
both sides of zero. Three signals suffice for one before, one during and one after an
output. Two tags are the fewest that can have one key or be out of order, and one tag of
JSON is the size that separates what fits from what does not; three digits separate a
number both parsers hold, one that may be out of range, and one the Ragel grammar has no
place for. Three metrics against two pmIDs reach the end of the identifiers, with reloads
before and after; six serials let the domains outlast the pmIDs, as the real widths do; a
count of up to 7 before a reload (`MaxCount`) leaves room for several reloads after the
one that mapped both metrics, enough for the count to pass the table by more than one
metric. Three lines are the fewest for a pair, a bad line or section, and an indented
continuation. Symmetry is used only in runs without liveness properties: names, tags,
types, metrics and labels are compared and nothing else.

Deadlock is checked except where the program stops: `pcp_tables` and
`config_sources` (the agent ends), and `signal_on_pcp` (the model really stops there).

Fairness. `Pipeline!FairSpec` schedules every thread (weak fairness) and assumes that
the socket is found empty again and again: `ListenerSelectEmpty` is strongly fair.
The code needs that, as the listener looks at the exit flag only then; a sender that
never pauses would keep the agent from ending. Main is weakly fair as a whole, so
`__pmdaMainPDU` returns some time: it does on any request, and the signal interrupts
its wait. `DebugOutput!FairSpec` uses strong fairness because a thread that waits for
a contended mutex is enabled only between two holders; the system's mutexes
hand over some time. The channel is found empty again and again, as the output is
only written then. Nothing is assumed of the PCP thread's `Leave`: pmcd may stay.

### Findings

Five runs expect a violation. Each checks what the documentation or a comment says
and the code does not keep; `PROJECT.json` has the lines.

* `recorded_visible`: a metric recorded while a reload runs between `add_metric` and
  `mark_metric_as_pernament` stays out of the name space until something else changes
  the table, because the mark does not raise the generation.
* `table_within_count`: `pcp_metric_count` is raised for every metric by every reload,
  not for new ones only.
* `instance_names`: a root value that comes after the labels moves every label one
  instance down without a new domain.
* `gauge_documented`: the overflow checks of a gauge refuse to set a large value, and
  refuse practically every update of a negative one.
* `signal_on_pcp`: the handler of SIGUSR1 can complete a circle of waiting threads.

More was met while modelling. The passing properties name these exactly, as their
exceptions, so that they also hold of nothing more:

* an output file that does not open leaves a mutex locked, and the next lock of it
  blocks for good (`aggregator-metrics.c:213`; `RequestServed`, `PcpServed`);
* a duration beyond the histogram's range is counted as aggregated
  (`aggregator-metric-duration-hdr.c:31`; `AcceptedIsHeld`), and a histogram that holds
  nothing answers a min of `INT64_MAX` and a max of 0 (`aggregator-metric-duration-hdr.c:41`;
  `AnswersOrdered`);
* the comparator of durations is never negative (`aggregator-metric-duration-exact.c:75`),
  so the order of the quantiles and their meaning rest on the merge sort, which the run
  takes and both properties name (`AnswersOrdered`, `PercentilesCover`);
* a metric whose mark malloc had left set is mapped before its first label, against the
  comment at `pmda-callbacks.c:322`, leaves the name space again when it is freed, or is
  read where it has no root value (`aggregator-metrics.c:280`; `MappedIsRecorded`,
  `NamespaceGrows`, `LookupInRange`);
* after one number out of range `errno` stays `ERANGE` and every later line of the
  thread is refused (`parser-basic.c:228`; `DocumentedUnderstood`);
* a total of times shrinks when a second begins between two clock readings, and the time
  spent on a refused metric is in no total, although the help text says that it is
  (`aggregators.c:74`, `pmda-callbacks.c:549`; `CountsMonotone` speaks of the counts
  only, `StatsBalance` of times of aggregated lines);
* both parsers take lines nothing documents, among them lines the Ragel machine
  stops in the middle of (`parser-ragel.rl:175`; `UndocumentedRefused`, where `Lenience`
  lists the ways out of the grammar);
* names of instances are forgotten where a root value came after the domain was
  built (`pmda-callbacks.c:274`; `NamesLost`);
* the help text of the first mapped metric, and the shared names of domains that were built
  with a root value, are freed twice at the end, if the agent survives it and the entries
  past the table (`pmdastatsd.c:166`; `ReleasedOnce`, an equality);
* the name of the debug output is freed although it is a literal or a string of
  `argv` (`pmdastatsd.c:150`; `FilenameReleased`);
* a value that is refused for its limit - port 65535 is - leaves the earlier setting
  in place, so the command line does not always take precedence
  (`config-reader.c:166`, README.md:96; `SettingsAsGiven`).

And these are without a property: the blacklist is consulted only for names with an `&`,
which no parser accepts (`aggregator-metrics.c:434`); a tag key is leaked when its
line is refused (`parser-basic.c:308`); a refused label is freed with a field nothing wrote
(`aggregator-metric-labels.c:215`; `FreeUnwritten` is the step); the default of `verbose` is
1 in README.md:72 and 0 in `config-reader.c`.

The passing run `debug_output` states what holds beside the finding `signal_on_pcp`: there
SIGUSR1 is delivered to a thread that takes none of the mutexes (the listener or the
parser).

## 4. Theorems

TLAPS proves for every value of the constants, under the modules' assumptions on
them only:

* `PipelineProofs`: `TypeCorrect`, one lemma per thread, each split on the thread's
  actions. `ShutdownCorrect`: `DrainedShutdown` is not inductive, since it does not say
  why a thread may leave; together with the fact that an exit flag is up only when the
  predecessor has ended it is. `StatsCorrect`: `StatsBalance` is inductive relative to the
  types, one step per action of the aggregator, which alone writes the statistics
  (`OthersLeaveStats`). `MonotoneCorrect`, that `CountsMonotone` holds whatever the clock
  readings, follows from the same lemmas. `LateCorrect` needs to know where a late line
  can still come from: once one line was counted late, the aggregator's copy of the exit
  flag is set before it looks at the channel again. `LinesAccountedCorrect` is the
  refinement of `LineAccounting` step by step: `LineInv` says that what is counted, in
  hand, in the channels and being parsed, read in this order, are the accepted lines in
  order, each once, and the lemmas on flattening in `DataLemmas` say what taking a
  datagram or a line does to that reading.
* `MetricStoreProofs`: `TypeCorrect` and `MappedOnceCorrect`, from the inductive
  `StoreInv`. `TypeOK` does not say that references lie in the heap or that the local
  variables of a running operation are set; `Typed` does. `MappedOnce` needs `Issued`: no
  pmid or domain in use is above its counter, so that the one issued next (`next_pmid +
  1`, the length of the domains plus one) is nobody's. Steps of the aggregator keep every
  identity (`AggregatorTypes`, `IdentitiesEnough`), the refresh of label orders touches
  none, and `MapMetricKeeps` is the mapping of one metric, by table, domains and entry.
* `MetricStoreProofs`, second part: what PCP is shown, in three layers on `StoreInv`.
  `RecordInv` (a mapped metric was marked, a marked one stays in the table, and how far a
  creation has come at each step) and `SpaceInv` (names in the name space are those of
  mapped metrics) give `MappedIsRecordedCorrect` and `NamespaceGrowsCorrect`; what they
  say of a metric whose mark malloc had left set is part of the invariants. `LabelInv`
  (orders of labels are of known labels; a missing one is owed by a requested change) and
  `InstanceInv` (entries, domains and the lookup under way are of the metric they name)
  give `LabelsExposedOrDueCorrect` and `LookupInRangeCorrect`. `VerdictInv` relates the
  table to the one before the datagram at each step and gives
  `VerdictMatchesTableCorrect`. `NamesReportedCorrect` rests on `ReportInv`. All of these
  hold for any content of fresh memory.
* `MetricValuesProofs`, of the three modules of values. `FiniteCorrect` and
  `CounterCorrect`, for every `DblMax`: the range is inductive by itself, one step per
  operation, since each check is exact. `IndicesCorrect`, from `RanksOrdered` (arithmetic
  of the rank formulas for every length). `OrderCorrect`, `PercentilesCorrect` and
  `HeldCorrect` come from one invariant, `DurationInv`: the collection holds the accepted
  durations as often as they were accepted, whatever the queries did to its order, and an
  answer was read from a sorted permutation of it - under the merge sort; with any other
  the collection is still a permutation, and `AnswersOrdered` says what is left of the
  order. What sorting, counting and the least and greatest element of a sequence are is in
  `DataLemmas`. `PartsImplemented`: every step of a metric's value is a step of the part
  its type selects or leaves both alone; so `ValuesCorrect`, that what the two modules
  promise holds of the composition, follows from their theorems. `TypeOfValueCorrect`: the
  type guards keep the other parts untouched.
* `PcpTablesProofs`: `IdsCorrect`. `IdsDistinct` says nothing of the counters, so the
  invariant `IdInv` adds their ranges (`IdType`), that every identifier in use was issued
  before the counter (`IssuedBefore`), that issued ones differ because `NextId` is
  injective below the bound (`AllDistinct`), and that the number of domains is bounded by
  the number of metrics (`Counted`), which is why the serials, whose bound is checked one
  too late, outlast the pmIDs: the one assumption on the widths. `NamesUsableCorrect`,
  `NamesLostCorrect` and `ReleasedOnceCorrect` are about memory and rest on `TablesInv`. A
  name PCP may read is never freed as long as a domain is always the one some number of
  labels built, with the root value or without (`DomainInv`), and the names of the domains
  it replaced are freed exactly where their index is beyond the shared ones (`NamesInv`);
  names that are shared by two metrics carry the same marker and no metric's name
  (`SharedApart`). `TableInv` says what the release at the end finds in the table after
  any number of reloads: the entry of a metric is its own, the first one is the metric PCP
  knows as the first dynamic one, and every mapped metric has its entry below the count,
  however far that has outrun the table. Which names it frees is `SharedIn` (the shared
  names in a domain are there exactly if it was built with a root value), and which of
  them more than once is `OftenFreed`; both sides of the equality follow.
* `DebugOutputProofs`: `OwnersCorrect` is mutual exclusion with signals on any thread.
  `OwnerInv` adds to `TypeOK` that the aggregator is never again inside a section of a
  mutex it kept. One lemma per kind of step (`StepKeeps`, `LockKeeps`, `UnlockKeeps`,
  `FailedOutputKeeps`, `HandlerKeeps`) says what it does to the owners, and the proof for
  `Next` has one leaf per step of a thread. `RequestsCorrect`: a request noted during an
  output would break `RequestKept`; `Unowed` says that there is none while the aggregator
  holds the mutex of the flag.

* `ConfigSourcesProofs`: `SettingsCorrect`, `FirstBadCorrect`, `FilenameCorrect`, from
  `ConfigInv`, which says at every line and option what was read so far comes to: the
  settings are those the lines and options up to here give (`SettingsInv`), `prev_name` is
  the last pair no section ended (`PrevInv`), the reported line is the first bad one so
  far (`ErrorInv`), and the name is the agent's own memory exactly while the file was the
  last to give it (`NameInv`).
* `LineParsersProofs`: `AgreeCorrect`, `UnderstoodCorrect` and `RefusedCorrect`, for lines
  of every length, and `TagsCorrect`. `LineInv` has four parts. As long as a line is
  documented, its place in the grammar determines where each parser is and what it has
  read (`BasicInv` with `BasicAt`, `RagelInv` with `RagelAt`); both also say what a number
  with too many digits did, and that `errno` is never cleared. Where the line leaves the
  grammar, a parser that goes on does so in one of the ways `Lenience` lists (`LeftInv`).
  And when both go on they left the grammar at the same place with the same datagram,
  after `type` or `end_no_key`, and read what follows in step (`TailInv`, `InStep`). There
  is one lemma per place of the grammar, put together in `BasicFollowsGrammar` and
  `RagelFollowsGrammar`. `TagsCorrect` assumes `StableSort`, as the run does (glibc's
  `qsort` is a merge sort): then the last place of each run of equal keys holds the tag
  given last (`WrittenIsLast`), and the places the loop writes at are as many as the keys
  (`InOrderLists`, `AsManyAsKeys`).
* `DataLemmas`: what the folds and choices of the other modules compute for every length.
  The induction is by a least counterexample (`NatLessThanWellFounded` of the library),
  since the induction theorems that take an operator cannot be used with the provers at
  hand.

The assumptions on constants are those of the code: a channel has room for a message; a
limit is positive; the widths of identifiers leave the serials outlasting the pmIDs;
markers that stand for "no name", "shared" or "never written" are no values of what they
mark; `DblMax` is positive; the limits of the conversions, times and bounds (`MaxLines`,
`MaxCount`, which TLC needs) are any numbers.

Only model-checked: all liveness, which is out of the prover's reach. Every invariant and every
action property of a passing run is stated by a theorem; the properties the runs of the findings
refute are, of course, not.

## 5. Not modelled

* Sizes of datagrams: they are skipped as too large by choice. Lines of the INI file
  longer than its buffer and a byte order mark.
* Texts, help, labels' JSON beyond its pairs, logging, the agent's settings as metrics,
  and the string validators of `utils.c`.
* The hashtable callbacks: copies and frees of keys and values, no state of their own.
* libpcp, libpcp_pmda, the channel library, the hashtable and hdr_histogram: external,
  seen through how the code uses them.
* Failure of `pmdaTreeCreate` (`pmda-callbacks.c:387-391`) and of allocations; release
  of memory other than that of `PcpTables` and the configuration, except that removed
  metrics are kept in `heap` so that a reference to one is visible.
* Averages and deviations, estimates of the histogram, and rounding of
  doubles. Of numbers in lines only the digits are counted: what they are is a choice.
* Widths of the four counts: they are 64 bits and count events. The time of a message is
  taken when it is added to its total, not when the clock was read.

## 6. What is left

1. `MetricStore`: an abstract store (`process_metric` as one step) that it implements; the
   count of tracked metrics.
