------------------------------ MODULE PcpTables ------------------------------
(***************************************************************************)
(* What pmda-callbacks.c builds for PCP over a sequence of reloads, and    *)
(* main releases at the end: identifiers, the table of metrics with its    *)
(* helpers, and the instance domains with the memory their names are in.   *)
(* A reload holds the mutex of the metrics container: values and labels    *)
(* come between reloads.                                                   *)
(***************************************************************************)
EXTENDS IdAllocation, Sequences, FiniteSets, SequencesExt

CONSTANTS
    Metric,             \* metrics that datagrams may name
    Label,              \* sets of labels they may carry
    Hardcoded,          \* metrics in the table from the start (15)
    DurationInstances,  \* instances of one duration (9)
    NoId,               \* PM_ID_NULL, and no domain of its own
    MaxCount            \* bound: no reload begins with more metrics counted

\* What the names of root values are told from those of labels by.
Shared == "shared"

\* Entries of the table: what realloc has added and nothing has written, and those of
\* the agent's own metrics.
Garbage == "garbage"

Agent == "agent"

ASSUME TablesAssumption ==
    /\ IsFiniteSet(Metric)
    /\ Hardcoded \in Nat /\ DurationInstances \in Nat \ {0} /\ MaxCount \in Nat
    /\ NoId \notin Nat /\ NoId \notin Nat \X Nat
    /\ Shared \notin Metric /\ Garbage \notin Metric

VARIABLES
    duration,       \* whether a metric is a duration
    root,           \* whether it has a root value
    children,       \* the labels it has
    pcp_instance_change_requested,
    pmid, pmindom,  \* identifiers in its meta data; its own domain only
    unmapped,       \* metrics the reload in progress has still to map
    pcp_metrics,    \* helpers (m_user) of the table of metrics
    pcp_metric_count,
    it_set,         \* names of the instances of its own domain
    allocated,      \* names allocated for labels
    freed, twice,   \* memory freed, and freed again
    ended           \* how the agent ended, if it did

memory == <<it_set, allocated, freed, twice>>

table == <<pcp_metrics, pcp_metric_count>>

ids == <<next_cluster_id, next_item_id, next_pmindom, pmid, pmindom>>

datagrams == <<duration, root, children>>

vars == <<duration, root, children, pcp_instance_change_requested, pmid, pmindom, unmapped,
          pcp_metrics, pcp_metric_count, it_set, allocated, freed, twice, ended,
          next_cluster_id, next_item_id, next_pmindom>>

Init ==
    /\ duration \in [Metric -> BOOLEAN]
    /\ root = [m \in Metric |-> FALSE]
    /\ children = [m \in Metric |-> {}]
    /\ pcp_instance_change_requested = [m \in Metric |-> FALSE]
    /\ pmid = [m \in Metric |-> NoId]
    /\ pmindom = [m \in Metric |-> NoId]
    /\ unmapped = {}
    /\ pcp_metrics = [i \in 1..Hardcoded |-> Agent]
    /\ pcp_metric_count = Hardcoded
    /\ it_set = [m \in Metric |-> <<>>]
    /\ allocated = {}
    /\ freed = {}
    /\ twice = {}
    /\ ended = "no"
    /\ IdInit

Running == ended = "no"

Reloading == unmapped # {}

Recorded(m) == root[m] \/ children[m] # {}

-----------------------------------------------------------------------------
(* Datagrams *)

\* A value without tags: neither a reload nor a new domain is asked for.
RecordRoot(m) ==
    /\ Running /\ ~Reloading
    /\ ~root[m]
    /\ root' = [root EXCEPT ![m] = TRUE]
    /\ UNCHANGED <<duration, children, pcp_instance_change_requested, unmapped, ended>>
    /\ UNCHANGED <<ids, table, memory>>

\* add_label.
RecordLabel(m, label) ==
    /\ Running /\ ~Reloading
    /\ label \notin children[m]
    /\ children' = [children EXCEPT ![m] = @ \cup {label}]
    /\ pcp_instance_change_requested' = [pcp_instance_change_requested EXCEPT ![m] = TRUE]
    /\ UNCHANGED <<duration, root, unmapped, ended>>
    /\ UNCHANGED <<ids, table, memory>>

-----------------------------------------------------------------------------
(* Reload *)

\* statsd_map_stats begins to walk the hashtable.  Any change of the generation asks
\* for it, also that of a metric added and removed again for a label it refused.
BeginReload ==
    /\ Running /\ ~Reloading
    /\ pcp_metric_count <= MaxCount
    /\ unmapped' = {m \in Metric : Recorded(m)}
    /\ unmapped' # {}
    /\ UNCHANGED <<datagrams, pcp_instance_change_requested, ended>>
    /\ UNCHANGED <<ids, table, memory>>

\* create_pcp_metric: the table grows to the count, which may be past its end.
Grown(m) ==
    [i \in 1..pcp_metric_count + 1 |->
        IF i = pcp_metric_count + 1 THEN m
        ELSE IF i <= Len(pcp_metrics) THEN pcp_metrics[i] ELSE Garbage]

PerLabel(m) == IF duration[m] THEN DurationInstances ELSE 1

\* Instances are numbered from 0.  The names of the domains the agent starts with
\* are shared by all root values of a kind.
SharedName(is_duration, i_inst) == <<Shared, is_duration, i_inst>>

LabelName(m, i_inst) == <<m, Cardinality(children[m]), i_inst>>

OffsetOf(m) == IF root[m] THEN PerLabel(m) ELSE 0

Instances(m) == OffsetOf(m) + Cardinality(children[m]) * PerLabel(m)

\* map_labels_to_instances: shared names for the root value, one allocated for each
\* instance of each label.
Names(m) ==
    [i \in 1..Instances(m) |->
        IF i <= OffsetOf(m) THEN SharedName(duration[m], i - 1) ELSE LabelName(m, i - 1)]

NewNames(m) == {LabelName(m, i) : i \in OffsetOf(m)..Instances(m) - 1}

MapLabels(m) ==
    /\ it_set' = [it_set EXCEPT ![m] = Names(m)]
    /\ allocated' = allocated \cup NewNames(m)

Free(names) ==
    /\ freed' = freed \cup names
    /\ twice' = twice \cup (freed \cap names)

\* create_instance: the metric's first domain of its own.
CreateInstance(m) ==
    /\ pmindom[m] = NoId
    /\ \E serial \in 0..Serials - 1 :
         /\ GetNextPmInDom(serial)
         /\ pmindom' = [pmindom EXCEPT ![m] = serial]
    /\ MapLabels(m)
    /\ UNCHANGED <<freed, twice>>

\* Mutant: nothing of the old domain is taken for shared.
UpdateInstanceAll(m) ==
    /\ pmindom[m] # NoId
    /\ Free({it_set[m][i] : i \in DOMAIN it_set[m]})
    /\ MapLabels(m)
    /\ UNCHANGED <<next_pmindom, pmindom>>

\* Mutant: the names of the first label are left alone also behind a root value.
UpdateInstanceLate(m) ==
    /\ pmindom[m] # NoId
    /\ Free({it_set[m][i] : i \in {k \in DOMAIN it_set[m] : k > 2 * PerLabel(m)}})
    /\ MapLabels(m)
    /\ UNCHANGED <<next_pmindom, pmindom>>

\* update_instance: the first names of the old domain are taken for shared ones,
\* whether it had a root value or not.
UpdateInstance(m) ==
    /\ pmindom[m] # NoId
    /\ Free({it_set[m][i] : i \in {k \in DOMAIN it_set[m] : k > PerLabel(m)}})
    /\ MapLabels(m)
    /\ UNCHANGED <<next_pmindom, pmindom>>

\* update_pcp_metric_instance_domain, called when a change is requested.
UpdateDomain(m) ==
    \/ /\ pcp_instance_change_requested[m]
       /\ CreateInstance(m) \/ UpdateInstance(m)
       /\ pcp_instance_change_requested' = [pcp_instance_change_requested EXCEPT ![m] = FALSE]
    \/ /\ ~pcp_instance_change_requested[m]
       /\ UNCHANGED <<next_pmindom, pmindom, it_set, allocated, freed, twice, pcp_instance_change_requested>>

\* map_metric.
MapMetric(m) ==
    /\ Running
    /\ m \in unmapped
    /\ \/ /\ pmid[m] = NoId
          /\ \E id \in (0..Clusters - 1) \X (0..Items - 1) :
               GetNextPmID(id) /\ pmid' = [pmid EXCEPT ![m] = id]
          /\ pcp_metrics' = Grown(m)
       \/ /\ pmid[m] # NoId
          /\ UNCHANGED <<next_cluster_id, next_item_id, pmid, pcp_metrics>>
    /\ UpdateDomain(m)
    /\ pcp_metric_count' = pcp_metric_count + 1
    /\ unmapped' = unmapped \ {m}
    /\ UNCHANGED <<datagrams, ended>>

\* The agent dies when it runs out of metric ids.
RunOut(m) ==
    /\ Running
    /\ m \in unmapped
    /\ pmid[m] = NoId
    /\ OutOfIds
    /\ ended' = "died"
    /\ UNCHANGED <<datagrams, pcp_instance_change_requested, unmapped>>
    /\ UNCHANGED <<ids, table, memory>>

-----------------------------------------------------------------------------
(* Release *)

Helper(m) == <<"helper", m>>

\* Mutant: the walk ends one entry early.
DynamicShort == {i \in Hardcoded + 1..pcp_metric_count - 1 :
                   i \in DOMAIN pcp_metrics /\ pcp_metrics[i] # Garbage}

\* The entries the walk finds a helper in.  It reads all up to the count, of which some
\* were never written and some are past the end of the table.
Dynamic == {i \in Hardcoded + 1..pcp_metric_count :
              i \in DOMAIN pcp_metrics /\ pcp_metrics[i] # Garbage}

\* The names in domains, of which those of root values are in several.
Occurrences(name) ==
    {m \in Metric : \E i \in DOMAIN it_set[m] : it_set[m][i] = name}

SharedNames ==
    {SharedName(TRUE, i) : i \in 0..DurationInstances - 1} \cup {SharedName(FALSE, 0)}

\* free_shared_data: the helper after the agent's own entries twice, every name of
\* every domain once for the domain.  What nothing wrote happens to be null.
Release ==
    /\ Running /\ ~Reloading
    /\ LET helpers == {Helper(pcp_metrics[i]) : i \in Dynamic}
           first   == {Helper(pcp_metrics[i]) : i \in Dynamic \cap {Hardcoded + 1}}
           names   == SharedNames \cup UNION {Range(it_set[m]) : m \in Metric}
           often   == {n \in SharedNames : Occurrences(n) # {}}
       IN  /\ freed' = freed \cup helpers \cup names
           /\ twice' = twice \cup first \cup often \cup (freed \cap names)
    /\ ended' = "released"
    /\ UNCHANGED <<datagrams, pcp_instance_change_requested, unmapped, it_set, allocated>>
    /\ UNCHANGED <<ids, table>>

\* The second free of that helper stops the agent, or the walk frees what nothing
\* wrote or lies past the table.
ReleaseUndefined ==
    /\ Running /\ ~Reloading
    /\ pcp_metric_count > Hardcoded
    /\ ended' = "undefined"
    /\ UNCHANGED <<datagrams, pcp_instance_change_requested, unmapped>>
    /\ UNCHANGED <<ids, table, memory>>

Next ==
    \/ \E m \in Metric :
         \/ RecordRoot(m)
         \/ \E label \in Label : RecordLabel(m, label)
         \/ MapMetric(m)
         \/ RunOut(m)
    \/ BeginReload
    \/ Release
    \/ ReleaseUndefined

Spec == Init /\ [][Next]_vars
-----------------------------------------------------------------------------
(* Properties *)

\* No two metrics ever get the same pmID, or the same domain of their own, and none
\* gets one that belongs to the agent's own metrics: the fields the identifiers are
\* built from do not wrap before the agent gives up, and the serials, whose bound
\* is checked one too late, outlast the pmIDs.
Distinct(id, m, n) == id[m] = id[n] /\ id[m] # NoId => m = n

IdsDistinct ==
    /\ \A m, n \in Metric : Distinct(pmid, m, n) /\ Distinct(pmindom, m, n)
    /\ \A m \in Metric : pmid[m] # NoId => pmid[m][1] # 0
    /\ \A m \in Metric : pmindom[m] \notin HardcodedSerials
    /\ next_pmindom <= Serials

InUse == UNION {Range(it_set[m]) : m \in Metric}

\* While the agent runs, every name in a domain that PCP may read is still there,
\* those shared by all domains included, and nothing has been freed twice.
NamesUsable ==
    ended = "no" => freed \cap (InUse \cup SharedNames) = {} /\ twice = {}

\* The names update_instance forgets are exactly those of a replaced domain that
\* stood where the shared names of a root value would have been.
Lost == allocated \ (freed \cup InUse)

Forgotten == {name \in allocated \ InUse : name[3] < PerLabel(name[1])}

NamesLost == Lost = Forgotten

\* When release comes through, after however many reloads, all that is still in
\* memory of the labels' names is what was forgotten before, no helper is, and freed
\* twice are exactly the helper of the first metric that was mapped and, for each
\* domain built with a root value in it, the shared names of its kind; a root value
\* that came later than the domain is no such case.
Doubly ==
    {Helper(m) : m \in {k \in Metric : pmid[k] = <<1, 0>>}}
      \cup UNION {{SharedName(duration[m], i) : i \in 0..PerLabel(m) - 1} :
                    m \in {k \in Metric : Range(it_set[k]) \ allocated # {}}}

ReleasedOnce ==
    ended = "released"
      => /\ allocated \ freed = Forgotten
         /\ \A m \in Metric : pmid[m] # NoId => Helper(m) \in freed
         /\ twice = Doubly
=============================================================================
