---------------------------- MODULE MetricStore ----------------------------
(***************************************************************************)
(* The metric hashtable shared by the aggregator thread, which records one *)
(* datagram at a time, and the thread serving PCP, which maps the table to *)
(* PCP metrics, instance domains and names before it answers a request.    *)
(* A step is one critical section of the container's mutex, or work on     *)
(* data private to one thread; the mapping holds the mutex over many       *)
(* steps, one per metric of the table.                                     *)
(*                                                                         *)
(* Values are reduced to being there or not; whether a value is acceptable *)
(* (create_*_value, update_*_value) is left open.  A duration metric has   *)
(* nine PCP instances where a counter or gauge has one: an instance here   *)
(* is the group of nine.                                                   *)
(***************************************************************************)
EXTENDS Integers, Sequences, FiniteSets, SequencesExt

CONSTANTS
    Name,             \* metric names
    Tags,             \* tag strings
    NoTags,           \* a datagram without tags; also the instance of the root value
    Type,             \* metric types
    FreshPernament,   \* what malloc may leave in the field `pernament'
    Hardcoded,        \* entries of the PCP metric table the agent itself occupies
    MaxDatagrams      \* bound: datagrams processed in one behaviour

ASSUME StoreAssumption ==
    /\ NoTags \notin Tags
    /\ FreshPernament \subseteq BOOLEAN
    /\ Hardcoded \in Nat
    /\ MaxDatagrams \in Nat

Datagram == [name : Name, tags : Tags \cup {NoTags}, type : Type]

\* A struct metric with its metadata.  pmid 0 is PM_ID_NULL, pmindom 0 a static domain;
\* leftover (history) is what malloc had left in pernament, alive FALSE once it is freed.
Metric == [name : Name, type : Type, alive : BOOLEAN, pernament : BOOLEAN,
           leftover : BOOLEAN, value : BOOLEAN, has_children : BOOLEAN,
           children : SUBSET Tags, pmid : Nat, pmindom : Nat, pcp_metric_index : Nat,
           pcp_instance_change_requested : BOOLEAN, pcp_instance_map : Seq(Tags)]

\* Entries of the PCP metric table that hold no metric.
Static  == 0       \* one of the agent's own metrics
Garbage == -1      \* memory realloc added and nothing wrote

VARIABLES
    heap,              \* every struct metric allocated so far
    metrics,           \* the hashtable: names to positions in heap
    generation,        \* container->generation
    apc,               \* where the aggregator is in process_metric
    datagram,          \* the datagram it processes (<<>> before the first)
    item,              \* the metric it works on
    created,           \* it created that metric for this datagram
    status,            \* what process_metric answered last
    datagrams,         \* datagrams processed so far (bounded by MaxDatagrams)
    before,            \* what the table recorded when this datagram arrived
    ppc,               \* where the thread serving PCP is
    toMap,             \* names the running reload has not visited yet
    data_generation,   \* data->generation, -1 before the first reload
    pcp_metrics,       \* the PCP metric table
    pcp_metric_count,
    next_pmid,         \* identifiers handed out so far
    pcp_instance_domains,
    instance_map,      \* instance domains to metric names
    pcp_pmns,          \* the PCP name space: pairs of pmid and name
    has_pmns,          \* a name space was created before
    notify,            \* PMDA_EXT_NAMES_CHANGE is to be reported
    fetched,           \* the name space as of the last fetch
    has_fetched,       \* a fetch was answered before
    lookup             \* the instance a fetch or label request is resolving

storeVars  == <<heap, metrics, generation>>
workVars   == <<apc, datagram, item, created, status, datagrams, before>>
tableVars  == <<pcp_metrics, pcp_metric_count, next_pmid, pcp_instance_domains,
                instance_map>>
spaceVars  == <<pcp_pmns, has_pmns, notify, fetched, has_fetched>>
pcpVars    == <<ppc, toMap, data_generation, tableVars, spaceVars, lookup>>
vars       == <<storeVars, workVars, pcpVars>>

\* The mutex is held from the first metric a reload visits to the last.
Unlocked == ppc # "map"

NewMetric(d, hasValue, pernament) ==
    [name |-> d.name, type |-> d.type, alive |-> TRUE, pernament |-> pernament,
     leftover |-> pernament, value |-> hasValue, has_children |-> FALSE, children |-> {},
     pmid |-> 0, pmindom |-> 0, pcp_metric_index |-> 0,
     pcp_instance_change_requested |-> FALSE, pcp_instance_map |-> <<>>]

\* What a reader of the table can tell: values and labels under their names.
Recorded ==
    {[name |-> n, value |-> heap[metrics[n]].value,
      children |-> heap[metrics[n]].children] : n \in DOMAIN metrics}

\* The local variables of a fetch or label callback between two requests.
NoLookup == [item |-> 0, indom |-> 0, instance |-> 0, has_root |-> FALSE]

Init ==
    /\ heap = <<>>
    /\ metrics = <<>>
    /\ generation = 0
    /\ apc = "idle"
    /\ datagram = <<>>
    /\ item = 0
    /\ created = FALSE
    /\ status = FALSE
    /\ datagrams = 0
    /\ before = {}
    /\ ppc = "idle"
    /\ toMap = {}
    /\ data_generation = -1
    /\ pcp_metrics = [i \in 1..Hardcoded |-> [item |-> Static, indom |-> 0]]
    /\ pcp_metric_count = Hardcoded
    /\ next_pmid = 0
    /\ pcp_instance_domains = <<>>
    /\ instance_map = <<>>
    /\ pcp_pmns = {}
    /\ has_pmns = FALSE
    /\ notify = FALSE
    /\ fetched = {}
    /\ has_fetched = FALSE
    /\ lookup = NoLookup

-----------------------------------------------------------------------------
(* Aggregator: process_metric *)

Goto(to) == apc' = to

Answer(ok) ==
    /\ apc' = "idle"
    /\ status' = ok

ReceiveDatagram ==
    /\ apc = "idle"
    /\ datagrams < MaxDatagrams
    /\ datagram' \in Datagram
    /\ datagrams' = datagrams + 1
    /\ before' = Recorded
    /\ created' = FALSE
    /\ status' = FALSE
    /\ Goto("find_metric")
    /\ UNCHANGED <<storeVars, item, pcpVars>>

\* find_metric_by_name, then the choice between the root value and a label.
\* A labelled datagram of another type than the metric's is refused here.
FindMetric ==
    /\ apc = "find_metric"
    /\ Unlocked
    /\ datagram.name \in DOMAIN metrics
    /\ item' = metrics[datagram.name]
    /\ LET found == heap[metrics[datagram.name]]
       IN  \/ datagram.tags = NoTags /\ Goto("update_root") /\ UNCHANGED status
           \/ datagram.tags # NoTags /\ found.type # datagram.type /\ Answer(FALSE)
           \/ /\ datagram.tags # NoTags /\ found.type = datagram.type
              /\ Goto(IF found.has_children THEN "find_label" ELSE "labels_dict")
              /\ UNCHANGED status
    /\ UNCHANGED <<storeVars, datagram, created, datagrams, before, pcpVars>>

\* check_metric_name_available compares the part of the key before an '&' with the
\* blacklist, and neither parser lets an '&' into a name: what decides is that the
\* name is not recorded.
NameAvailable(name) == name \notin DOMAIN metrics

FindNoMetric ==
    /\ apc = "find_metric"
    /\ Unlocked
    /\ NameAvailable(datagram.name)
    /\ Goto("create_metric")
    /\ UNCHANGED <<storeVars, datagram, item, created, status, datagrams, before, pcpVars>>

\* create_metric never writes the field pernament.
CreateMetric ==
    /\ apc = "create_metric"
    /\ \E pernament \in FreshPernament :
         heap' = Append(heap, NewMetric(datagram, datagram.tags = NoTags, pernament))
    /\ item' = Len(heap) + 1
    /\ created' = TRUE
    /\ Goto("add_metric")
    /\ UNCHANGED <<metrics, generation, datagram, status, datagrams, before, pcpVars>>

\* The root value is not acceptable; a labelled metric has none and is created.
CreateMetricFails ==
    /\ apc = "create_metric"
    /\ datagram.tags = NoTags
    /\ Answer(FALSE)
    /\ UNCHANGED <<storeVars, datagram, item, created, datagrams, before, pcpVars>>

\* Mutant: the metric is marked as soon as it is added.
AddMetricPernament ==
    /\ apc = "add_metric"
    /\ Unlocked
    /\ metrics' = [n \in DOMAIN metrics \cup {datagram.name} |->
                     IF n = datagram.name THEN item ELSE metrics[n]]
    /\ heap' = [heap EXCEPT ![item].pernament = TRUE]
    /\ generation' = generation + 1
    /\ Goto(IF datagram.tags = NoTags THEN "mark" ELSE "labels_dict")
    /\ UNCHANGED <<datagram, item, created, status, datagrams, before, pcpVars>>

AddMetric ==
    /\ apc = "add_metric"
    /\ Unlocked
    /\ metrics' = [n \in DOMAIN metrics \cup {datagram.name} |->
                     IF n = datagram.name THEN item ELSE metrics[n]]
    /\ generation' = generation + 1
    /\ Goto(IF datagram.tags = NoTags THEN "mark" ELSE "labels_dict")
    /\ UNCHANGED <<heap, datagram, item, created, status, datagrams, before, pcpVars>>

\* update_metric_value on the root: created on first use, refused on another type.
UpdateRoot ==
    /\ apc = "update_root"
    /\ Unlocked
    /\ \/ /\ heap[item].type = datagram.type
          /\ heap' = [heap EXCEPT ![item].value = TRUE]
          /\ Answer(TRUE)
       \/ UNCHANGED heap /\ Answer(FALSE)
    /\ UNCHANGED <<metrics, generation, datagram, item, created, datagrams, before, pcpVars>>

CreateLabelsDict ==
    /\ apc = "labels_dict"
    /\ Unlocked
    /\ heap' = [heap EXCEPT ![item].has_children = TRUE]
    /\ Goto("find_label")
    /\ UNCHANGED <<metrics, generation, datagram, item, created, status, datagrams,
                   before, pcpVars>>

FindLabel ==
    /\ apc = "find_label"
    /\ Unlocked
    /\ Goto(IF datagram.tags \in heap[item].children THEN "update_label"
                                                     ELSE "create_label")
    /\ UNCHANGED <<storeVars, datagram, item, created, status, datagrams, before, pcpVars>>

UpdateLabel ==
    /\ apc = "update_label"
    /\ Unlocked
    /\ \E ok \in BOOLEAN : Answer(ok)
    /\ UNCHANGED <<storeVars, datagram, item, created, datagrams, before, pcpVars>>

\* Mutants: the metric of a refused label is kept, or always removed.
CreateLabelKeepsMetric ==
    /\ apc = "create_label"
    /\ \/ Goto("add_label") /\ UNCHANGED status
       \/ Answer(FALSE)
    /\ UNCHANGED <<storeVars, datagram, item, created, datagrams, before, pcpVars>>

CreateLabelRemovesAny ==
    /\ apc = "create_label"
    /\ Goto("add_label") \/ Goto("remove_metric")
    /\ UNCHANGED <<storeVars, datagram, item, created, status, datagrams, before, pcpVars>>

\* create_label works on memory of its own.  It may refuse: the tags are too long, or
\* the value is not acceptable (and see FreeUnwritten).
CreateLabel ==
    /\ apc = "create_label"
    /\ \/ Goto("add_label") /\ UNCHANGED status
       \/ created /\ Goto("remove_metric") /\ UNCHANGED status
       \/ ~created /\ Answer(FALSE)
    /\ UNCHANGED <<storeVars, datagram, item, created, datagrams, before, pcpVars>>

\* Mutant: the generation stays as it is.
AddLabelSilently ==
    /\ apc = "add_label"
    /\ Unlocked
    /\ heap' = [heap EXCEPT ![item].children = @ \cup {datagram.tags},
                            ![item].pcp_instance_change_requested = TRUE]
    /\ IF created THEN Goto("mark") /\ UNCHANGED status ELSE Answer(TRUE)
    /\ UNCHANGED <<metrics, generation, datagram, item, created, datagrams, before, pcpVars>>

AddLabel ==
    /\ apc = "add_label"
    /\ Unlocked
    /\ heap' = [heap EXCEPT ![item].children = @ \cup {datagram.tags},
                            ![item].pcp_instance_change_requested = TRUE]
    /\ generation' = generation + 1
    /\ IF created THEN Goto("mark") /\ UNCHANGED status ELSE Answer(TRUE)
    /\ UNCHANGED <<metrics, datagram, item, created, datagrams, before, pcpVars>>

\* Mutant: the mutex is not taken.
RemoveMetricUnlocked ==
    /\ apc = "remove_metric"
    /\ metrics' = [n \in DOMAIN metrics \ {datagram.name} |-> metrics[n]]
    /\ heap' = [heap EXCEPT ![item].alive = FALSE]
    /\ generation' = generation + 1
    /\ Answer(FALSE)
    /\ UNCHANGED <<datagram, item, created, datagrams, before, pcpVars>>

\* The label of a metric created for it was refused: the metric goes as well.
RemoveMetric ==
    /\ apc = "remove_metric"
    /\ Unlocked
    /\ metrics' = [n \in DOMAIN metrics \ {datagram.name} |-> metrics[n]]
    /\ heap' = [heap EXCEPT ![item].alive = FALSE]
    /\ generation' = generation + 1
    /\ Answer(FALSE)
    /\ UNCHANGED <<datagram, item, created, datagrams, before, pcpVars>>

\* mark_metric_as_pernament; the generation stays as it is.
MarkPernament ==
    /\ apc = "mark"
    /\ Unlocked
    /\ heap' = [heap EXCEPT ![item].pernament = TRUE]
    /\ Answer(TRUE)
    /\ UNCHANGED <<metrics, generation, datagram, item, created, datagrams, before, pcpVars>>

AggregatorNext ==
    \/ ReceiveDatagram \/ FindMetric \/ FindNoMetric
    \/ CreateMetric \/ CreateMetricFails \/ AddMetric \/ UpdateRoot
    \/ CreateLabelsDict \/ FindLabel \/ UpdateLabel \/ CreateLabel \/ AddLabel
    \/ RemoveMetric \/ MarkPernament

-----------------------------------------------------------------------------
(* The thread serving PCP *)

\* Every request callback starts with statsd_possible_reload, which compares the
\* generations in a critical section of its own.
PossibleReload ==
    /\ ppc = "idle"
    /\ ppc' = IF generation # data_generation THEN "reload" ELSE "serve"
    /\ UNCHANGED <<storeVars, workVars, toMap, data_generation, tableVars, spaceVars, lookup>>

\* Mutant: the change of names is not reported.
BeginMapSilently ==
    /\ ppc = "reload"
    /\ ppc' = "map"
    /\ toMap' = DOMAIN metrics
    /\ pcp_pmns' = {}
    /\ has_pmns' = TRUE
    /\ UNCHANGED <<storeVars, workVars, data_generation, tableVars, notify, fetched,
                   has_fetched, lookup>>

\* statsd_map_stats up to the lock: a new name space replaces the old one.
\* (Its own names, inserted here, are left out of pcp_pmns.)
BeginMap ==
    /\ ppc = "reload"
    /\ ppc' = "map"
    /\ toMap' = DOMAIN metrics
    /\ pcp_pmns' = {}
    /\ has_pmns' = TRUE
    /\ notify' = (notify \/ has_pmns)
    /\ UNCHANGED <<storeVars, workVars, data_generation, tableVars, fetched,
                   has_fetched, lookup>>

\* map_metric skips a metric that is still being added.
SkipMetric ==
    /\ ppc = "map"
    /\ \E n \in toMap :
         /\ ~heap[metrics[n]].pernament
         /\ toMap' = toMap \ {n}
    /\ UNCHANGED <<storeVars, workVars, ppc, data_generation, tableVars,
                   spaceVars, lookup>>

\* Mutant: the table is one entry too short and the last one is overwritten.
GrownTableTooShort(o) ==
    [pcp_metrics EXCEPT ![Len(pcp_metrics)] = [item |-> o, indom |-> heap[o].pmindom]]

\* create_pcp_metric: the table is made one entry longer than pcp_metric_count
\* and the metric goes into that last entry.
GrownTable(o) ==
    [i \in 1..pcp_metric_count + 1 |->
        IF i = pcp_metric_count + 1 THEN [item |-> o, indom |-> heap[o].pmindom]
        ELSE IF i <= Len(pcp_metrics) THEN pcp_metrics[i]
        ELSE [item |-> Garbage, indom |-> 0]]

\* map_labels_to_instances: the root value first if there is one, then the
\* labels in the order the iterator of the labels' hashtable yields them.
Instances(m, order) == (IF m.value THEN <<NoTags>> ELSE <<>>) \o order

\* map_metric: a metric seen for the first time gets a pmid and a table entry;
\* a pending change of its labels gives it an instance domain, new or renewed;
\* then it is counted and its name inserted.
MapMetric(n) ==
    LET o     == metrics[n]
        m     == heap[o]
        isNew == m.pmid = 0
        index == IF isNew THEN pcp_metric_count ELSE m.pcp_metric_index
        pmid  == IF isNew THEN next_pmid + 1 ELSE m.pmid
        table == IF isNew THEN GrownTable(o) ELSE pcp_metrics
        named == [m EXCEPT !.pmid = pmid, !.pcp_metric_index = index]
    IN  /\ n \in toMap
        /\ m.pernament
        /\ toMap' = toMap \ {n}
        /\ next_pmid' = IF isNew THEN next_pmid + 1 ELSE next_pmid
        /\ IF m.pcp_instance_change_requested /\ m.has_children
           THEN \E order \in SetToSeqs(m.children) :
                  LET indom == IF m.pmindom = 0 THEN Len(pcp_instance_domains) + 1
                                                ELSE m.pmindom
                  IN  /\ pcp_instance_domains' =
                           [d \in DOMAIN pcp_instance_domains \cup {indom} |->
                              IF d = indom THEN Instances(m, order)
                                           ELSE pcp_instance_domains[d]]
                      /\ instance_map' = [d \in DOMAIN instance_map \cup {indom} |->
                                            IF d = indom THEN m.name ELSE instance_map[d]]
                      /\ pcp_metrics' = [table EXCEPT ![index + 1].indom = indom]
                      /\ heap' = [heap EXCEPT ![o] =
                           [named EXCEPT !.pmindom = indom,
                                         !.pcp_instance_map = order,
                                         !.pcp_instance_change_requested = FALSE]]
           ELSE /\ pcp_metrics' = table
                /\ heap' = [heap EXCEPT ![o] = named]
                /\ UNCHANGED <<pcp_instance_domains, instance_map>>
        /\ pcp_metric_count' = pcp_metric_count + 1
        /\ pcp_pmns' = pcp_pmns \cup {<<pmid, m.name>>}
        /\ UNCHANGED <<metrics, generation, workVars, ppc, data_generation,
                       has_pmns, notify, fetched, has_fetched, lookup>>

\* The generation is recorded before the mutex is released; then PMDA's hash of
\* the metric table is rebuilt.
EndMap ==
    /\ ppc = "map"
    /\ toMap = {}
    /\ data_generation' = generation
    /\ ppc' = "serve"
    /\ UNCHANGED <<storeVars, workVars, toMap, tableVars, spaceVars, lookup>>

\* statsd_fetch reports a changed name space to pmcd.
ReportChange ==
    /\ notify' = FALSE
    /\ fetched' = pcp_pmns
    /\ has_fetched' = TRUE
    /\ UNCHANGED <<pcp_pmns, has_pmns>>

\* A fetch of no metric of a client.
ServeFetch ==
    /\ ppc = "serve"
    /\ ReportChange
    /\ ppc' = "idle"
    /\ UNCHANGED <<storeVars, workVars, toMap, data_generation, tableVars, lookup>>

\* Another request, which the library answers from the tables alone.
ServeOther ==
    /\ ppc = "serve"
    /\ ppc' = "idle"
    /\ UNCHANGED <<storeVars, workVars, toMap, data_generation, tableVars, spaceVars, lookup>>

\* statsd_fetch_callback for one instance of one metric: whether the metric has
\* a root value is read before any lock is taken.
FetchInstance ==
    /\ ppc = "serve"
    /\ ReportChange
    /\ \E s \in DOMAIN pcp_metrics :
         LET entry == pcp_metrics[s]
         IN  /\ entry.item \notin {Static, Garbage}
             /\ \E i \in IF entry.indom = 0 THEN {1}
                                            ELSE DOMAIN pcp_instance_domains[entry.indom] :
                  lookup' = [item |-> entry.item, indom |-> entry.indom, instance |-> i,
                             has_root |-> heap[entry.item].value]
    /\ ppc' = "answer"
    /\ UNCHANGED <<storeVars, workVars, toMap, data_generation, tableVars>>

\* statsd_label_callback: only instance domains of labelled metrics are resolved,
\* through the metric's name.
LabelInstance ==
    /\ ppc = "serve"
    /\ \E d \in DOMAIN instance_map :
         /\ instance_map[d] \in DOMAIN metrics
         /\ \E i \in DOMAIN pcp_instance_domains[d] :
              lookup' = [item |-> metrics[instance_map[d]], indom |-> d, instance |-> i,
                         has_root |-> heap[metrics[instance_map[d]]].value]
    /\ ppc' = "answer"
    /\ UNCHANGED <<storeVars, workVars, toMap, data_generation, tableVars, spaceVars>>

\* Through a static domain the root value is read unconditionally.
Readable == lookup.indom = 0 => heap[lookup.item].alive /\ heap[lookup.item].value

\* The value or the labels are read under the mutex and returned.
AnswerInstance ==
    /\ ppc = "answer"
    /\ Readable
    /\ ppc' = "idle"
    /\ lookup' = NoLookup
    /\ UNCHANGED <<storeVars, workVars, toMap, data_generation, tableVars, spaceVars>>

PcpNext ==
    \/ PossibleReload \/ BeginMap \/ SkipMetric
    \/ \E n \in toMap : ppc = "map" /\ MapMetric(n)
    \/ EndMap \/ ServeFetch \/ ServeOther \/ FetchInstance \/ LabelInstance \/ AnswerInstance

-----------------------------------------------------------------------------
(* Steps after which nothing is said of the agent: it used a pointer it must not. *)

Undefined ==
    /\ apc' = "undefined"
    /\ ppc' = "undefined"
    /\ UNCHANGED <<storeVars, datagram, item, created, status, datagrams, before, toMap,
                   data_generation, tableVars, spaceVars, lookup>>

\* A label whose value is refused is freed along with its field value, which nothing
\* has written: create_label ends well only if malloc left a null pointer there.
FreeUnwritten == apc = "create_label" /\ Undefined

\* The metric asked for has no root value (a null pointer), or was freed.
ReadMissing == ppc = "answer" /\ ~Readable /\ Undefined

StayUndefined == apc = "undefined" /\ UNCHANGED vars

Next == AggregatorNext \/ PcpNext \/ FreeUnwritten \/ ReadMissing \/ StayUndefined

Spec == Init /\ [][Next]_vars

\* Which value a lookup ends at: the root value, or the label at the position in
\* the metric's instance map, one further down if there is a root value.
AsksRoot == lookup.has_root /\ lookup.instance = 1

\* Mutant: the instance of the root value is not counted.
LabelIndexNoOffset == lookup.instance

LabelIndex == lookup.instance - (IF lookup.has_root THEN 1 ELSE 0)

Resolved ==
    IF AsksRoot THEN NoTags ELSE heap[lookup.item].pcp_instance_map[LabelIndex]

-----------------------------------------------------------------------------
(* Properties *)

AggregatorPc == {"idle", "find_metric", "create_metric", "add_metric", "update_root",
                 "labels_dict", "find_label", "update_label", "create_label",
                 "add_label", "remove_metric", "mark", "undefined"}

\* Every variable keeps its range; the hashtable and the metric table refer to
\* allocated metrics only.
TypeOK ==
    /\ heap \in Seq(Metric)
    /\ DOMAIN metrics \subseteq Name
    /\ \A n \in DOMAIN metrics : metrics[n] \in DOMAIN heap
    /\ generation \in Nat
    /\ apc \in AggregatorPc
    /\ datagram \in Datagram \cup {<<>>}
    /\ item \in Nat
    /\ created \in BOOLEAN
    /\ status \in BOOLEAN
    /\ datagrams \in 0..MaxDatagrams
    /\ ppc \in {"idle", "reload", "map", "serve", "answer", "undefined"}
    /\ toMap \subseteq DOMAIN metrics
    /\ data_generation \in Nat \cup {-1}
    /\ pcp_metrics \in Seq([item : DOMAIN heap \cup {Static, Garbage}, indom : Nat])
    /\ pcp_metric_count \in Nat
    /\ next_pmid \in Nat
    /\ pcp_instance_domains \in Seq(Seq(Tags \cup {NoTags}))
    /\ instance_map \in Seq(Name)
    /\ pcp_pmns \subseteq (Nat \X Name)
    /\ notify \in BOOLEAN
    /\ has_pmns \in BOOLEAN
    /\ has_fetched \in BOOLEAN

\* Verdict and table agree.  A datagram counted as aggregated is in the table
\* when its processing ends, as the root value or as a label of its name; a
\* refused one has left no trace, not even when the metric was added for it and
\* had to be removed again.
VerdictMatchesTable ==
    apc = "idle" /\ datagrams > 0 =>
        IF status
        THEN \E r \in Recorded :
               /\ r.name = datagram.name
               /\ IF datagram.tags = NoTags THEN r.value ELSE datagram.tags \in r.children
               /\ heap[metrics[r.name]].pernament
        ELSE Recorded = before

\* Every mapped metric owns its identity: its entry of the PCP metric table is
\* the one recorded in it, points back to it, carries its instance domain, and
\* shares neither pmid nor instance domain with another metric.
MappedOnce ==
    \A o \in DOMAIN heap : heap[o].pmid # 0 =>
        /\ heap[o].pcp_metric_index + 1 \in DOMAIN pcp_metrics
        /\ pcp_metrics[heap[o].pcp_metric_index + 1] = [item |-> o, indom |-> heap[o].pmindom]
        /\ \A other \in DOMAIN heap \ {o} :
             /\ heap[other].pmid # heap[o].pmid
             /\ heap[o].pmindom # 0 => heap[other].pmindom # heap[o].pmindom

\* Labels are not forgotten: a mapped metric either exposes exactly its labels in
\* its instance domain, or a change of the domain is requested and a reload that
\* honours it is due or under way.
LabelsExposedOrDue ==
    \A n \in DOMAIN metrics :
        LET m == heap[metrics[n]]
        IN  m.pmid # 0 =>
              \/ /\ ~m.pcp_instance_change_requested
                 /\ ToSet(m.pcp_instance_map) = m.children
                 /\ Len(m.pcp_instance_map) = Cardinality(m.children)
              \/ /\ m.pcp_instance_change_requested
                 /\ generation # data_generation

\* A request never leaves the instance map and never finds a label gone, although
\* it reads whether there is a root value without the mutex; and a metric read
\* through a static instance domain has a root value to read, save one that was
\* mapped for what malloc had left in it.
LookupInRange ==
    ppc = "answer" =>
        IF lookup.indom = 0
        THEN Readable \/ (heap[lookup.item].leftover /\ ~heap[lookup.item].value)
        ELSE \/ AsksRoot /\ heap[lookup.item].value
             \/ /\ ~AsksRoot
                /\ LabelIndex \in DOMAIN heap[lookup.item].pcp_instance_map
                /\ Resolved \in heap[lookup.item].children

\* Places at which a metric created for a labelled datagram is in the table without
\* its label.
AtFirstLabel == {"labels_dict", "find_label", "create_label", "add_label", "remove_metric"}

\* What is half-built or gone is mapped only by accident: every metric with a pmid
\* is in the table under its name with a value or a label to show, or malloc had
\* left its mark set and it still waits for its first label, or was freed when that
\* was refused.
MappedIsRecorded ==
    \A o \in DOMAIN heap : heap[o].pmid # 0 =>
        \/ /\ heap[o].name \in DOMAIN metrics
           /\ metrics[heap[o].name] = o
           /\ heap[o].value \/ heap[o].children # {}
        \/ /\ heap[o].leftover
           /\ \/ ~heap[o].alive
              \/ apc \in AtFirstLabel \cup {"undefined"} /\ created /\ item = o

\* A name PCP once saw stays: the name space of a later fetch contains that of
\* every earlier one but for metrics whose mark malloc had left set and that were
\* freed since, and a metric keeps its pmid for good.
NamespaceGrows ==
    [][/\ \A entry \in fetched \ fetched' : \E o \in DOMAIN heap :
            /\ entry = <<heap[o].pmid, heap[o].name>>
            /\ heap[o].leftover /\ ~heap[o].alive
       /\ \A o \in DOMAIN heap : heap[o].pmid # 0 => heap'[o].pmid = heap[o].pmid]_vars

\* pmcd is told: once a fetch was answered, a name space that differs from the
\* one it was answered from is reported with the next fetch.
NamesReported ==
    ppc \in {"idle", "serve"} /\ has_fetched /\ fetched # pcp_pmns => notify

\* "All recorded metrics will be available under statsd.* namespace": a recorded
\* metric whose processing is over is in the name space, or the generations
\* differ and the next request maps it.
RecordedVisibleOrDue ==
    ppc = "idle" /\ apc = "idle" =>
        \A n \in DOMAIN metrics :
            \/ \E entry \in pcp_pmns : entry[2] = n
            \/ generation # data_generation

\* "Adds new metric to pcp metric table ... and then increments total metric
\* count": the count is the number of entries of the table, and each is written.
TableWithinCount ==
    ppc = "serve" =>
        /\ pcp_metric_count = Len(pcp_metrics)
        /\ \A s \in DOMAIN pcp_metrics : pcp_metrics[s].item # Garbage

\* An instance is named after the value it returns: the instance called after
\* labels returns the value recorded with these labels.
InstanceNamesItsValue ==
    ppc = "answer" /\ lookup.indom # 0 =>
        Resolved = pcp_instance_domains[lookup.indom][lookup.instance]
=============================================================================
