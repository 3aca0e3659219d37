-------------------------- MODULE MetricStoreProofs --------------------------
(***************************************************************************)
(* The metric table and its mapping to PCP for any number of names, tags,  *)
(* types, datagrams and requests.                                          *)
(***************************************************************************)
EXTENDS MetricStore, TLAPS, FiniteSetTheorems, SequenceTheorems

(* TypeOK in parts, each with what makes it inductive. *)

HeapTyped ==
    /\ heap \in Seq(Metric)
    /\ \A o \in DOMAIN heap : IsFiniteSet(heap[o].children)

\* The table does not change while a reload visits it.
TableTyped ==
    /\ DOMAIN metrics \subseteq Name
    /\ \A n \in DOMAIN metrics : metrics[n] \in DOMAIN heap
    /\ toMap \subseteq DOMAIN metrics
    /\ ppc # "map" /\ apc # "undefined" => toMap = {}

\* Places at which the aggregator works on a metric, and those of a label.
AtMetric == {"add_metric", "update_root", "mark"}

AtLabel == {"labels_dict", "find_label", "update_label", "create_label", "add_label",
            "remove_metric"}

WorkTyped ==
    /\ generation \in Nat
    /\ apc \in AggregatorPc
    /\ datagram \in Datagram \cup {<<>>}
    /\ apc \notin {"idle", "undefined"} => datagram \in Datagram
    /\ item \in Nat
    /\ apc \in AtMetric \cup AtLabel => item \in DOMAIN heap
    /\ apc \in AtLabel => datagram.tags \in Tags
    /\ created \in BOOLEAN
    /\ status \in BOOLEAN
    /\ datagrams \in 0..MaxDatagrams

RequestTyped ==
    /\ ppc \in {"idle", "reload", "map", "serve", "answer", "undefined"}
    /\ data_generation \in Nat \cup {-1}
    /\ pcp_pmns \subseteq (Nat \X Name)
    /\ notify \in BOOLEAN
    /\ has_pmns \in BOOLEAN
    /\ has_fetched \in BOOLEAN

Entry == [item : DOMAIN heap \cup {Static, Garbage}, indom : Nat]

TablesTyped ==
    /\ pcp_metrics \in Seq(Entry)
    /\ pcp_metric_count \in Nat
    /\ next_pmid \in Nat
    /\ pcp_instance_domains \in Seq(Seq(Tags \cup {NoTags}))
    /\ instance_map \in Seq(Name)
    /\ Len(instance_map) = Len(pcp_instance_domains)
    /\ Len(pcp_metrics) <= pcp_metric_count

Typed == HeapTyped /\ TableTyped /\ WorkTyped /\ RequestTyped /\ TablesTyped

\* Identifiers in use were handed out before.
Issued ==
    \A o \in DOMAIN heap :
        /\ heap[o].pmid <= next_pmid
        /\ heap[o].pmindom <= Len(pcp_instance_domains)
        /\ heap[o].pmid = 0 => heap[o].pmindom = 0

StoreInv == Typed /\ Issued /\ MappedOnce

LEMMA TypedTypes == Typed => TypeOK
BY DEF Typed, HeapTyped, TableTyped, WorkTyped, RequestTyped, TablesTyped, TypeOK, Entry

(* Changes of the heap *)

LEMMA HeapChange ==
    ASSUME heap \in Seq(Metric), NEW o \in DOMAIN heap, NEW m \in Metric,
           heap' = [heap EXCEPT ![o] = m]
    PROVE  /\ heap' \in Seq(Metric)
           /\ DOMAIN heap' = DOMAIN heap
           /\ heap'[o] = m
           /\ \A p \in DOMAIN heap : p # o => heap'[p] = heap[p]
OBVIOUS

LEMMA HeapGrows ==
    ASSUME heap \in Seq(Metric), NEW m \in Metric, heap' = Append(heap, m)
    PROVE  /\ heap' \in Seq(Metric)
           /\ Len(heap) \in Nat
           /\ DOMAIN heap' = DOMAIN heap \cup {Len(heap) + 1}
           /\ Len(heap) + 1 \notin DOMAIN heap
           /\ heap'[Len(heap) + 1] = m
           /\ \A p \in DOMAIN heap : heap'[p] = heap[p]
OBVIOUS

SameIdentity(m, n) ==
    /\ m.name = n.name /\ m.pmid = n.pmid /\ m.pmindom = n.pmindom
    /\ m.pcp_metric_index = n.pcp_metric_index /\ m.leftover = n.leftover

\* What the aggregator does not touch; and what it freed stays freed.
IdentitiesKept ==
    /\ DOMAIN heap \subseteq DOMAIN heap'
    /\ \A o \in DOMAIN heap : SameIdentity(heap'[o], heap[o])
    /\ \A o \in DOMAIN heap : heap'[o].alive => heap[o].alive
    /\ \A o \in DOMAIN heap' \ DOMAIN heap : heap'[o].pmid = 0 /\ heap'[o].pmindom = 0

\* One entry of the heap changes, but not its identity.
LEMMA EntryChange ==
    ASSUME HeapTyped, NEW o \in DOMAIN heap, NEW m \in Metric, heap' = [heap EXCEPT ![o] = m],
           SameIdentity(m, heap[o]), m.alive => heap[o].alive, IsFiniteSet(m.children)
    PROVE  HeapTyped' /\ IdentitiesKept /\ DOMAIN heap' = DOMAIN heap
<1>1. /\ heap' \in Seq(Metric) /\ DOMAIN heap' = DOMAIN heap /\ heap'[o] = m
      /\ \A p \in DOMAIN heap : p # o => heap'[p] = heap[p]
  BY HeapChange DEF HeapTyped
<1> QED BY <1>1 DEF HeapTyped, IdentitiesKept, SameIdentity

\* What the aggregator does to an entry.
Edits(m) ==
    {[m EXCEPT !.value = TRUE], [m EXCEPT !.has_children = TRUE], [m EXCEPT !.alive = FALSE],
     [m EXCEPT !.pernament = TRUE]}
    \cup {[m EXCEPT !.children = @ \cup {t}, !.pcp_instance_change_requested = TRUE] : t \in Tags}

LEMMA EditedEntry ==
    ASSUME NEW m \in Metric, NEW e \in Edits(m)
    PROVE  /\ e \in Metric
           /\ SameIdentity(e, m)
           /\ m.value => e.value
           /\ m.pernament => e.pernament
           /\ e.alive => m.alive
           /\ e.children = m.children \/ \E t \in Tags : e.children = m.children \cup {t}
<1>1. CASE e \in {[m EXCEPT !.value = TRUE], [m EXCEPT !.has_children = TRUE],
                  [m EXCEPT !.alive = FALSE], [m EXCEPT !.pernament = TRUE]}
  BY <1>1 DEF Metric, SameIdentity
<1>2. CASE \E t \in Tags :
             e = [m EXCEPT !.children = @ \cup {t}, !.pcp_instance_change_requested = TRUE]
  <2> PICK t \in Tags :
             e = [m EXCEPT !.children = @ \cup {t}, !.pcp_instance_change_requested = TRUE]
    BY <1>2
  <2> QED BY DEF Metric, SameIdentity
<1> QED BY <1>1, <1>2 DEF Edits

LEMMA HeapEdit ==
    ASSUME HeapTyped, NEW o \in DOMAIN heap, NEW e \in Edits(heap[o]),
           heap' = [heap EXCEPT ![o] = e]
    PROVE  HeapTyped' /\ IdentitiesKept /\ DOMAIN heap' = DOMAIN heap
<1>1. heap[o] \in Metric
  BY DEF HeapTyped
<1>2. IsFiniteSet(e.children)
  <2>1. IsFiniteSet(heap[o].children)
    BY DEF HeapTyped
  <2>2. e.children = heap[o].children \/ \E t \in Tags : e.children = heap[o].children \cup {t}
    BY <1>1, EditedEntry
  <2> QED BY <2>1, <2>2, FS_AddElement
<1> QED BY <1>1, <1>2, EditedEntry, EntryChange

LEMMA HeapNew ==
    ASSUME HeapTyped, NEW d \in Datagram, NEW hasValue \in BOOLEAN, NEW pernament \in BOOLEAN,
           heap' = Append(heap, NewMetric(d, hasValue, pernament))
    PROVE  HeapTyped' /\ IdentitiesKept /\ Len(heap) + 1 \in DOMAIN heap'
<1> DEFINE m == NewMetric(d, hasValue, pernament)
<1>1. m \in Metric /\ m.pmid = 0 /\ m.pmindom = 0 /\ m.children = {}
  BY DEF NewMetric, Metric, Datagram
<1> HIDE DEF m
<1>2. /\ heap' \in Seq(Metric) /\ DOMAIN heap' = DOMAIN heap \cup {Len(heap) + 1}
      /\ Len(heap) + 1 \notin DOMAIN heap /\ heap'[Len(heap) + 1] = m
      /\ \A p \in DOMAIN heap : heap'[p] = heap[p]
  BY <1>1, HeapGrows DEF HeapTyped, m
<1> QED BY <1>1, <1>2, FS_EmptySet DEF HeapTyped, IdentitiesKept, SameIdentity

LEMMA HeapUnchanged == ASSUME HeapTyped, UNCHANGED heap PROVE HeapTyped' /\ IdentitiesKept
BY DEF HeapTyped, IdentitiesKept, SameIdentity

(* The aggregator *)

LEMMA AggregatorTypes ==
    ASSUME HeapTyped, TableTyped, WorkTyped, AggregatorNext
    PROVE  (HeapTyped /\ TableTyped /\ WorkTyped)' /\ IdentitiesKept /\ UNCHANGED pcpVars
<1> USE DEF storeVars, pcpVars, Goto, Answer, AggregatorPc, AtMetric, AtLabel
<1>1. CASE ReceiveDatagram
  <2>1. HeapTyped' /\ IdentitiesKept
    BY <1>1, HeapUnchanged DEF ReceiveDatagram
  <2>2. datagrams' \in 0..MaxDatagrams
    BY <1>1, StoreAssumption DEF StoreAssumption, ReceiveDatagram, WorkTyped
  <2> QED BY <1>1, <2>1, <2>2 DEF ReceiveDatagram, TableTyped, WorkTyped
<1>2. CASE FindMetric
  <2>1. HeapTyped' /\ IdentitiesKept
    BY <1>2, HeapUnchanged DEF FindMetric
  <2>2. item' \in DOMAIN heap /\ item' \in Nat
    BY <1>2 DEF FindMetric, TableTyped, HeapTyped
  <2>3. datagram \in Datagram /\ (datagram.tags # NoTags => datagram.tags \in Tags)
    BY <1>2 DEF FindMetric, WorkTyped, Datagram
  <2> QED BY <1>2, <2>1, <2>2, <2>3 DEF FindMetric, TableTyped, WorkTyped
<1>3. CASE FindNoMetric \/ CreateMetricFails \/ FindLabel \/ UpdateLabel \/ CreateLabel
  BY <1>3, HeapUnchanged
     DEF FindNoMetric, CreateMetricFails, FindLabel, UpdateLabel, CreateLabel, TableTyped, WorkTyped
<1>4. CASE CreateMetric
  <2>1. datagram \in Datagram
    BY <1>4 DEF CreateMetric, WorkTyped
  <2>2. HeapTyped' /\ IdentitiesKept /\ Len(heap) + 1 \in DOMAIN heap'
    BY <1>4, <2>1, HeapNew, StoreAssumption DEF StoreAssumption, CreateMetric
  <2>3. Len(heap) + 1 \in Nat
    BY DEF HeapTyped
  <2> QED BY <1>4, <2>1, <2>2, <2>3 DEF CreateMetric, TableTyped, WorkTyped, IdentitiesKept
<1>5. CASE AddMetric
  BY <1>5, HeapUnchanged DEF AddMetric, Unlocked, TableTyped, WorkTyped, Datagram
<1>6. CASE UpdateRoot
  <2>1. item \in DOMAIN heap
    BY <1>6 DEF UpdateRoot, WorkTyped
  <2>2. HeapTyped' /\ IdentitiesKept /\ DOMAIN heap' = DOMAIN heap
    BY <1>6, <2>1, HeapUnchanged, HeapEdit DEF UpdateRoot, Edits
  <2> QED BY <1>6, <2>2 DEF UpdateRoot, TableTyped, WorkTyped
<1>7. CASE CreateLabelsDict
  <2>1. item \in DOMAIN heap
    BY <1>7 DEF CreateLabelsDict, WorkTyped
  <2>2. HeapTyped' /\ IdentitiesKept /\ DOMAIN heap' = DOMAIN heap
    BY <1>7, <2>1, HeapEdit DEF CreateLabelsDict, Edits
  <2> QED BY <1>7, <2>2 DEF CreateLabelsDict, TableTyped, WorkTyped
<1>8. CASE AddLabel
  <2>1. item \in DOMAIN heap /\ datagram.tags \in Tags
    BY <1>8 DEF AddLabel, WorkTyped
  <2>2. HeapTyped' /\ IdentitiesKept /\ DOMAIN heap' = DOMAIN heap
    <3> DEFINE e == [heap[item] EXCEPT !.children = @ \cup {datagram.tags},
                                       !.pcp_instance_change_requested = TRUE]
    <3>1. heap' = [heap EXCEPT ![item] = e] /\ e \in Edits(heap[item])
      BY <1>8, <2>1 DEF AddLabel, Edits
    <3> HIDE DEF e
    <3> QED BY <2>1, <3>1, HeapEdit
  <2>3. TableTyped'
    BY <1>8, <2>2 DEF AddLabel, TableTyped
  <2>4. generation' \in Nat
    BY <1>8 DEF AddLabel, WorkTyped
  <2>5. apc' \in {"mark", "idle"} /\ (status' = TRUE \/ status' = status)
    BY <1>8 DEF AddLabel
  <2> QED BY <1>8, <2>1, <2>2, <2>3, <2>4, <2>5 DEF AddLabel, WorkTyped
<1>9. CASE RemoveMetric
  <2>1. item \in DOMAIN heap
    BY <1>9 DEF RemoveMetric, WorkTyped
  <2>2. HeapTyped' /\ IdentitiesKept /\ DOMAIN heap' = DOMAIN heap
    BY <1>9, <2>1, HeapEdit DEF RemoveMetric, Edits
  <2>3. TableTyped'
    BY <1>9, <2>2 DEF RemoveMetric, Unlocked, TableTyped
  <2>4. generation' \in Nat
    BY <1>9 DEF RemoveMetric, WorkTyped
  <2> QED BY <1>9, <2>2, <2>3, <2>4 DEF RemoveMetric, WorkTyped
<1>10. CASE MarkPernament
  <2>1. item \in DOMAIN heap
    BY <1>10 DEF MarkPernament, WorkTyped
  <2>2. HeapTyped' /\ IdentitiesKept /\ DOMAIN heap' = DOMAIN heap
    BY <1>10, <2>1, HeapEdit DEF MarkPernament, Edits
  <2> QED BY <1>10, <2>2 DEF MarkPernament, TableTyped, WorkTyped
<1> QED BY <1>1, <1>2, <1>3, <1>4, <1>5, <1>6, <1>7, <1>8, <1>9, <1>10 DEF AggregatorNext

\* Tables that are left alone stay right when the heap keeps its identities.
LEMMA IdentitiesEnough ==
    ASSUME StoreInv, IdentitiesKept, UNCHANGED tableVars
    PROVE  TablesTyped' /\ Issued' /\ MappedOnce'
<1>1. ASSUME NEW o \in DOMAIN heap'
      PROVE  \/ heap'[o].pmid = 0 /\ heap'[o].pmindom = 0
             \/ o \in DOMAIN heap /\ SameIdentity(heap'[o], heap[o])
  BY DEF IdentitiesKept
<1>2. Entry \subseteq Entry'
  BY DEF Entry, IdentitiesKept
<1>3. pcp_metrics' \in Seq(Entry')
  BY <1>2, SeqMonotonic DEF StoreInv, Typed, TablesTyped, tableVars
<1>4. TablesTyped'
  BY <1>3 DEF StoreInv, Typed, TablesTyped, tableVars
<1>5. Issued'
  BY <1>1 DEF StoreInv, Typed, Issued, SameIdentity, TablesTyped, tableVars
<1>6. MappedOnce'
  BY <1>1 DEF StoreInv, MappedOnce, SameIdentity, tableVars
<1> QED BY <1>4, <1>5, <1>6

(* The thread serving PCP *)

PcpQuiet ==
    \/ PossibleReload \/ BeginMap \/ SkipMetric \/ EndMap
    \/ ServeFetch \/ ServeOther \/ FetchInstance \/ LabelInstance \/ AnswerInstance

LEMMA PcpQuietTypes ==
    ASSUME Typed, PcpQuiet
    PROVE  TableTyped' /\ RequestTyped' /\ UNCHANGED <<storeVars, workVars, tableVars>>
<1> USE DEF Typed, TableTyped, RequestTyped, WorkTyped, storeVars, workVars, tableVars, spaceVars
<1>1. CASE PossibleReload
  BY <1>1 DEF PossibleReload
<1>2. CASE BeginMap
  BY <1>2 DEF BeginMap
<1>3. CASE SkipMetric
  BY <1>3 DEF SkipMetric
<1>4. CASE EndMap
  BY <1>4 DEF EndMap
<1>5. CASE ServeFetch \/ ServeOther
  BY <1>5 DEF ServeFetch, ServeOther, ReportChange
<1>6. CASE FetchInstance
  BY <1>6 DEF FetchInstance, ReportChange
<1>7. CASE LabelInstance \/ AnswerInstance
  BY <1>7 DEF LabelInstance, AnswerInstance
<1> QED BY <1>1, <1>2, <1>3, <1>4, <1>5, <1>6, <1>7 DEF PcpQuiet

\* The orders an iterator may yield labels in are sequences of them.
LEMMA OrdersOfLabels ==
    ASSUME NEW children \in SUBSET Tags, IsFiniteSet(children), NEW order \in SetToSeqs(children)
    PROVE  order \in Seq(Tags)
<1>1. Cardinality(children) \in Nat
  BY FS_CardinalityType
<1>2. order \in [1..Cardinality(children) -> Tags]
  BY DEF SetToSeqs
<1> QED BY <1>1, <1>2, SeqDef

\* MapMetric for the metric at o, which its names abbreviate.
PmidFor(o) == IF heap[o].pmid = 0 THEN next_pmid + 1 ELSE heap[o].pmid

IndexFor(o) == IF heap[o].pmid = 0 THEN pcp_metric_count ELSE heap[o].pcp_metric_index

TableFor(o) == IF heap[o].pmid = 0 THEN GrownTable(o) ELSE pcp_metrics

DomainFor(o) ==
    IF heap[o].pmindom = 0 THEN Len(pcp_instance_domains) + 1 ELSE heap[o].pmindom

DomainKept(o) ==
    /\ heap'[o].pmindom = heap[o].pmindom
    /\ heap'[o].pcp_instance_change_requested = heap[o].pcp_instance_change_requested
    /\ heap'[o].pcp_instance_map = heap[o].pcp_instance_map
    /\ ~(heap[o].pcp_instance_change_requested /\ heap[o].has_children)
    /\ UNCHANGED <<pcp_instance_domains, instance_map>>
    /\ pcp_metrics' = TableFor(o)

DomainSet(o) ==
    /\ heap[o].pcp_instance_change_requested
    /\ heap'[o].pmindom = DomainFor(o)
    /\ heap'[o].pcp_instance_change_requested = FALSE
    /\ \E order \in SetToSeqs(heap[o].children) :
         /\ heap'[o].pcp_instance_map = order
         /\ pcp_instance_domains' =
              [d \in DOMAIN pcp_instance_domains \cup {DomainFor(o)} |->
                 IF d = DomainFor(o) THEN Instances(heap[o], order) ELSE pcp_instance_domains[d]]
    /\ instance_map' = [d \in DOMAIN instance_map \cup {DomainFor(o)} |->
                          IF d = DomainFor(o) THEN heap[o].name ELSE instance_map[d]]
    /\ pcp_metrics' = [TableFor(o) EXCEPT ![IndexFor(o) + 1].indom = DomainFor(o)]

SameContent(m, n) ==
    /\ m.name = n.name /\ m.value = n.value /\ m.pernament = n.pernament
    /\ m.children = n.children /\ m.alive = n.alive /\ m.has_children = n.has_children
    /\ m.leftover = n.leftover

MappedEntry(o) ==
    /\ SameContent(heap'[o], heap[o])
    /\ heap'[o].pmid = PmidFor(o)
    /\ heap'[o].pcp_metric_index = IndexFor(o)
    /\ DomainKept(o) \/ DomainSet(o)

\* One entry of the heap changes, and only what belongs to its mapping.
LEMMA MapChangesEntry ==
    ASSUME StoreInv, NEW n \in toMap, MapMetric(n)
    PROVE  /\ metrics[n] \in DOMAIN heap
           /\ MappedEntry(metrics[n])
           /\ HeapTyped' /\ DOMAIN heap' = DOMAIN heap
           /\ \A p \in DOMAIN heap : p # metrics[n] => heap'[p] = heap[p]
<1> DEFINE o == metrics[n]
           m == heap[o]
           named == [m EXCEPT !.pmid = PmidFor(o), !.pcp_metric_index = IndexFor(o)]
           remapped(order) == [named EXCEPT !.pmindom = DomainFor(o), !.pcp_instance_map = order,
                                            !.pcp_instance_change_requested = FALSE]
<1>1. o \in DOMAIN heap /\ m \in Metric /\ IsFiniteSet(m.children)
  BY DEF StoreInv, Typed, HeapTyped, TableTyped
<1>2. PmidFor(o) \in Nat /\ IndexFor(o) \in Nat /\ DomainFor(o) \in Nat
  BY <1>1 DEF StoreInv, Typed, TablesTyped, Metric, PmidFor, IndexFor, DomainFor
<1>3. named \in Metric /\ SameContent(named, m) /\ named.pmid = PmidFor(o)
      /\ named.pcp_metric_index = IndexFor(o) /\ named.pmindom = m.pmindom
      /\ named.pcp_instance_change_requested = m.pcp_instance_change_requested
      /\ named.pcp_instance_map = m.pcp_instance_map
  BY <1>1, <1>2 DEF Metric, SameContent
<1>4. ASSUME NEW order \in SetToSeqs(m.children)
      PROVE  LET e == remapped(order)
             IN  /\ e \in Metric /\ SameContent(e, m) /\ e.pmid = PmidFor(o)
                 /\ e.pcp_metric_index = IndexFor(o) /\ e.pmindom = DomainFor(o)
                 /\ e.pcp_instance_change_requested = FALSE /\ e.pcp_instance_map = order
  <2>1. order \in Seq(Tags)
    BY <1>1, OrdersOfLabels DEF Metric
  <2> HIDE DEF named, m
  <2> QED BY <1>2, <1>3, <2>1 DEF Metric, SameContent
<1>5. ASSUME NEW e \in Metric, heap' = [heap EXCEPT ![o] = e], SameContent(e, m)
      PROVE  /\ HeapTyped' /\ DOMAIN heap' = DOMAIN heap /\ heap'[o] = e
             /\ \A p \in DOMAIN heap : p # o => heap'[p] = heap[p]
  <2> HIDE DEF m, o
  <2>1. /\ heap' \in Seq(Metric) /\ DOMAIN heap' = DOMAIN heap /\ heap'[o] = e
        /\ \A p \in DOMAIN heap : p # o => heap'[p] = heap[p]
    BY <1>1, <1>5, HeapChange DEF StoreInv, Typed, HeapTyped
  <2> QED BY <1>1, <1>5, <2>1 DEF StoreInv, Typed, HeapTyped, SameContent
<1>6. CASE m.pcp_instance_change_requested /\ m.has_children
  <2>1. PICK order \in SetToSeqs(m.children) :
          /\ pcp_instance_domains' =
               [d \in DOMAIN pcp_instance_domains \cup {DomainFor(o)} |->
                  IF d = DomainFor(o) THEN Instances(m, order) ELSE pcp_instance_domains[d]]
          /\ instance_map' = [d \in DOMAIN instance_map \cup {DomainFor(o)} |->
                                IF d = DomainFor(o) THEN m.name ELSE instance_map[d]]
          /\ pcp_metrics' = [TableFor(o) EXCEPT ![IndexFor(o) + 1].indom = DomainFor(o)]
          /\ heap' = [heap EXCEPT ![o] = remapped(order)]
    BY <1>6 DEF MapMetric, PmidFor, IndexFor, TableFor, DomainFor
  <2>2. heap'[o] = remapped(order)
    BY <1>4, <1>5, <2>1
  <2> HIDE DEF remapped, named
  <2>3. MappedEntry(o)
    BY <1>4, <1>6, <2>1, <2>2 DEF MappedEntry, DomainSet
  <2> QED BY <1>1, <1>4, <1>5, <2>1, <2>3
<1>7. CASE ~(m.pcp_instance_change_requested /\ m.has_children)
  <2>1. /\ UNCHANGED <<pcp_instance_domains, instance_map>>
        /\ pcp_metrics' = TableFor(o)
        /\ heap' = [heap EXCEPT ![o] = named]
    BY <1>7 DEF MapMetric, PmidFor, IndexFor, TableFor
  <2>2. heap'[o] = named
    BY <1>3, <1>5, <2>1
  <2> HIDE DEF named
  <2>3. MappedEntry(o)
    BY <1>3, <1>7, <2>1, <2>2 DEF MappedEntry, DomainKept
  <2> QED BY <1>1, <1>3, <1>5, <2>1, <2>3
<1> QED BY <1>6, <1>7

LEMMA SeqOfFunction ==
    ASSUME NEW S, NEW n \in Nat, NEW t \in [1..n -> S]
    PROVE  t \in Seq(S) /\ Len(t) = n /\ DOMAIN t = 1..n
<1>1. t \in Seq(S)
  BY SeqDef
<1>2. DOMAIN t = 1..n /\ DOMAIN t = 1..Len(t) /\ Len(t) \in Nat
  BY <1>1
<1>3. Len(t) = n
  BY <1>2
<1> QED BY <1>1, <1>2, <1>3

\* A sequence of which one element is set, the one behind its end included.
SetAt(s, k, x) == [d \in DOMAIN s \cup {k} |-> IF d = k THEN x ELSE s[d]]

LenAfter(s, k) == IF k = Len(s) + 1 THEN Len(s) + 1 ELSE Len(s)

LEMMA SetAtType ==
    ASSUME NEW S, NEW s \in Seq(S), NEW x \in S, NEW k \in 1..Len(s) + 1
    PROVE  SetAt(s, k, x) \in Seq(S) /\ Len(SetAt(s, k, x)) = LenAfter(s, k)
<1> DEFINE t == SetAt(s, k, x)
           n == LenAfter(s, k)
<1>1. Len(s) \in Nat /\ DOMAIN s = 1..Len(s) /\ \A i \in 1..Len(s) : s[i] \in S
  OBVIOUS
<1>2. n \in Nat /\ (DOMAIN s) \cup {k} = 1..n
  BY <1>1 DEF LenAfter
<1>3. \A i \in (DOMAIN s) \cup {k} : (IF i = k THEN x ELSE s[i]) \in S
  BY <1>1
<1>4. t \in [1..n -> S]
  BY <1>2, <1>3 DEF SetAt
<1> HIDE DEF t, n
<1>5. t \in Seq(S) /\ Len(t) = n
  BY <1>2, <1>4, SeqOfFunction
<1> QED BY <1>5 DEF t, n

\* What mapping does to the instance domains.
LEMMA MapChangesDomains ==
    ASSUME StoreInv, NEW o \in DOMAIN heap, MappedEntry(o)
    PROVE  /\ pcp_instance_domains' \in Seq(Seq(Tags \cup {NoTags}))
           /\ instance_map' \in Seq(Name)
           /\ Len(instance_map') = Len(pcp_instance_domains')
           /\ Len(pcp_instance_domains) \in Nat /\ Len(pcp_instance_domains') \in Nat
           /\ Len(pcp_instance_domains) <= Len(pcp_instance_domains')
           /\ heap'[o].pmindom \in 0..Len(pcp_instance_domains')
           /\ heap[o].pmindom \in {0, heap'[o].pmindom}
<1> DEFINE n == Len(pcp_instance_domains)
<1>1. heap[o] \in Metric /\ IsFiniteSet(heap[o].children)
  BY DEF StoreInv, Typed, HeapTyped
<1>2. /\ pcp_instance_domains \in Seq(Seq(Tags \cup {NoTags})) /\ instance_map \in Seq(Name)
      /\ Len(instance_map) = n /\ n \in Nat
  BY DEF StoreInv, Typed, TablesTyped
<1>3. heap[o].pmindom \in Nat /\ heap[o].pmindom <= n
  BY <1>1 DEF StoreInv, Issued, Metric
<1>4. DomainFor(o) \in 1..n + 1 /\ heap[o].pmindom \in {0, DomainFor(o)}
  BY <1>2, <1>3 DEF DomainFor
<1>5. CASE DomainKept(o)
  BY <1>2, <1>3, <1>5 DEF DomainKept
<1>6. CASE DomainSet(o)
  <2> PICK order \in SetToSeqs(heap[o].children) :
         pcp_instance_domains' =
              [d \in DOMAIN pcp_instance_domains \cup {DomainFor(o)} |->
                 IF d = DomainFor(o) THEN Instances(heap[o], order) ELSE pcp_instance_domains[d]]
    BY <1>6 DEF DomainSet
  <2>1. Instances(heap[o], order) \in Seq(Tags \cup {NoTags})
    <3>1. order \in Seq(Tags)
      BY <1>1, OrdersOfLabels DEF Metric
    <3>2. order \in Seq(Tags \cup {NoTags})
      BY <3>1, SeqMonotonic
    <3>3. <<NoTags>> \in Seq(Tags \cup {NoTags}) /\ <<>> \in Seq(Tags \cup {NoTags})
      OBVIOUS
    <3> QED BY <3>2, <3>3, ConcatProperties DEF Instances
  <2>2. heap[o].name \in Name
    BY <1>1 DEF Metric
  <2>3. DomainFor(o) \in 1..Len(pcp_instance_domains) + 1 /\ DomainFor(o) \in 1..Len(instance_map) + 1
    BY <1>2, <1>4
  <2>4. /\ pcp_instance_domains' = SetAt(pcp_instance_domains, DomainFor(o), Instances(heap[o], order))
        /\ instance_map' = SetAt(instance_map, DomainFor(o), heap[o].name)
    BY <1>6 DEF DomainSet, SetAt
  <2>5. /\ pcp_instance_domains' \in Seq(Seq(Tags \cup {NoTags}))
        /\ Len(pcp_instance_domains') = LenAfter(pcp_instance_domains, DomainFor(o))
    <3> DEFINE domains == Seq(Tags \cup {NoTags})
               x == Instances(heap[o], order)
               k == DomainFor(o)
    <3> HIDE DEF domains, x, k
    <3>1. /\ pcp_instance_domains \in Seq(domains) /\ x \in domains
          /\ k \in 1..Len(pcp_instance_domains) + 1
      BY <1>2, <2>1, <2>3 DEF domains, x, k
    <3>2. /\ SetAt(pcp_instance_domains, k, x) \in Seq(domains)
          /\ Len(SetAt(pcp_instance_domains, k, x)) = LenAfter(pcp_instance_domains, k)
      BY <3>1, SetAtType
    <3> QED BY <2>4, <3>2 DEF domains, x, k
  <2>6. /\ instance_map' \in Seq(Name)
        /\ Len(instance_map') = LenAfter(instance_map, DomainFor(o))
    BY <1>2, <2>2, <2>3, <2>4, SetAtType
  <2>7. heap'[o].pmindom = DomainFor(o)
    BY <1>6 DEF DomainSet
  <2>8. LenAfter(instance_map, DomainFor(o)) = LenAfter(pcp_instance_domains, DomainFor(o))
    BY <1>2 DEF LenAfter
  <2>9. /\ LenAfter(pcp_instance_domains, DomainFor(o)) \in Nat
        /\ n <= LenAfter(pcp_instance_domains, DomainFor(o))
        /\ DomainFor(o) \in 0..LenAfter(pcp_instance_domains, DomainFor(o))
    BY <1>2, <1>4 DEF LenAfter
  <2> QED BY <1>2, <1>4, <2>5, <2>6, <2>7, <2>8, <2>9
<1> QED BY <1>5, <1>6 DEF MappedEntry

\* The table of metrics with an entry for the metric.
LEMMA TableForMetric ==
    ASSUME StoreInv, NEW o \in DOMAIN heap
    PROVE  /\ TableFor(o) \in Seq(Entry)
           /\ Len(TableFor(o)) <= pcp_metric_count + 1
           /\ DOMAIN pcp_metrics \subseteq DOMAIN TableFor(o)
           /\ heap[o].pmid = 0 => IndexFor(o) + 1 \notin DOMAIN pcp_metrics
           /\ IndexFor(o) + 1 \in DOMAIN TableFor(o)
           /\ TableFor(o)[IndexFor(o) + 1] = [item |-> o, indom |-> heap[o].pmindom]
           /\ \A j \in DOMAIN pcp_metrics :
                j # IndexFor(o) + 1 => TableFor(o)[j] = pcp_metrics[j]
           /\ \A j \in DOMAIN TableFor(o) \ DOMAIN pcp_metrics :
                j # IndexFor(o) + 1 => TableFor(o)[j].item = Garbage
<1> DEFINE count == pcp_metric_count
<1>1. heap[o].pmindom \in Nat /\ heap[o].pmid \in Nat /\ heap[o].pcp_metric_index \in Nat
  <2>1. heap[o] \in Metric
    BY DEF StoreInv, Typed, HeapTyped
  <2> QED BY <2>1 DEF Metric
<1>2. /\ pcp_metrics \in Seq(Entry) /\ count \in Nat
      /\ Len(pcp_metrics) \in Nat /\ Len(pcp_metrics) <= count
      /\ DOMAIN pcp_metrics = 1..Len(pcp_metrics)
      /\ \A j \in DOMAIN pcp_metrics : pcp_metrics[j] \in Entry
  BY DEF StoreInv, Typed, TablesTyped
<1>3. CASE heap[o].pmid # 0
  BY <1>1, <1>2, <1>3 DEF StoreInv, MappedOnce, TableFor, IndexFor
<1>4. CASE heap[o].pmid = 0
  <2> DEFINE table == GrownTable(o)
  <2>1. TableFor(o) = table /\ IndexFor(o) = count
    BY <1>4 DEF TableFor, IndexFor
  <2>2. table = [i \in 1..count + 1 |->
            IF i = count + 1 THEN [item |-> o, indom |-> heap[o].pmindom]
            ELSE IF i <= Len(pcp_metrics) THEN pcp_metrics[i]
            ELSE [item |-> Garbage, indom |-> 0]]
    BY DEF GrownTable
  <2>3. [item |-> o, indom |-> heap[o].pmindom] \in Entry /\ [item |-> Garbage, indom |-> 0] \in Entry
    BY <1>1 DEF Entry
  <2> HIDE DEF table
  <2>4. \A i \in 1..count + 1 : table[i] \in Entry
    BY <1>2, <2>2, <2>3
  <2>5. count + 1 \in Nat /\ table \in [1..count + 1 -> Entry]
    BY <1>2, <2>2, <2>4
  <2>7. table \in Seq(Entry) /\ Len(table) = count + 1 /\ DOMAIN table = 1..count + 1
    BY <2>5, SeqOfFunction
  <2>8. table[count + 1] = [item |-> o, indom |-> heap[o].pmindom]
    BY <1>2, <2>2
  <2>9. \A j \in DOMAIN pcp_metrics : table[j] = pcp_metrics[j]
    BY <1>2, <2>2
  <2>10. DOMAIN pcp_metrics \subseteq 1..count + 1 /\ count + 1 \in 1..count + 1
         /\ count + 1 \notin DOMAIN pcp_metrics /\ Len(table) <= count + 1
    BY <1>2, <2>7
  <2>11. \A j \in (1..count + 1) \ DOMAIN pcp_metrics : j # count + 1 => table[j].item = Garbage
    BY <1>2, <2>2
  <2> HIDE DEF count
  <2> QED BY <1>4, <2>1, <2>7, <2>8, <2>9, <2>10, <2>11 DEF count
<1> QED BY <1>3, <1>4

\* What mapping does to the table of metrics.
LEMMA MapChangesTable ==
    ASSUME StoreInv, NEW o \in DOMAIN heap, MappedEntry(o), heap'[o] \in Metric
    PROVE  /\ pcp_metrics' \in Seq(Entry)
           /\ Len(pcp_metrics') <= pcp_metric_count + 1
           /\ DOMAIN pcp_metrics \subseteq DOMAIN pcp_metrics'
           /\ heap[o].pmid = 0 => IndexFor(o) + 1 \notin DOMAIN pcp_metrics
           /\ heap'[o].pcp_metric_index = IndexFor(o)
           /\ IndexFor(o) + 1 \in DOMAIN pcp_metrics'
           /\ pcp_metrics'[IndexFor(o) + 1] = [item |-> o, indom |-> heap'[o].pmindom]
           /\ \A j \in DOMAIN pcp_metrics :
                j # IndexFor(o) + 1 => pcp_metrics'[j] = pcp_metrics[j]
           /\ \A j \in DOMAIN pcp_metrics' \ DOMAIN pcp_metrics :
                j # IndexFor(o) + 1 => pcp_metrics'[j].item = Garbage
<1> DEFINE i == IndexFor(o) + 1
           table == TableFor(o)
           d == heap'[o].pmindom
<1>1. heap'[o].pcp_metric_index = IndexFor(o) /\ d \in Nat
  BY DEF MappedEntry, Metric
<1>2. /\ table \in Seq(Entry) /\ Len(table) <= pcp_metric_count + 1
      /\ DOMAIN pcp_metrics \subseteq DOMAIN table
      /\ heap[o].pmid = 0 => i \notin DOMAIN pcp_metrics
      /\ i \in DOMAIN table /\ table[i] = [item |-> o, indom |-> heap[o].pmindom]
      /\ \A j \in DOMAIN pcp_metrics : j # i => table[j] = pcp_metrics[j]
      /\ \A j \in DOMAIN table \ DOMAIN pcp_metrics : j # i => table[j].item = Garbage
  BY TableForMetric
<1>3. CASE DomainKept(o)
  BY <1>1, <1>2, <1>3 DEF DomainKept
<1>4. CASE DomainSet(o)
  <2> DEFINE e == [item |-> o, indom |-> d]
  <2>1. e \in Entry
    BY <1>1 DEF Entry
  <2>2. pcp_metrics' = [table EXCEPT ![i].indom = d]
    BY <1>4 DEF DomainSet
  <2>3. [table[i] EXCEPT !.indom = d] = e
    BY <1>2
  <2>4. pcp_metrics' = [table EXCEPT ![i] = e]
    BY <2>2, <2>3
  <2> HIDE DEF table, i, e
  <2>5. i \in 1..Len(table) /\ DOMAIN table = 1..Len(table)
    BY <1>2
  <2>6. /\ pcp_metrics' \in Seq(Entry) /\ Len(pcp_metrics') = Len(table)
        /\ \A j \in 1..Len(table) : pcp_metrics'[j] = IF j = i THEN e ELSE table[j]
    BY <1>2, <2>1, <2>4, <2>5, ExceptSeq
  <2>7. DOMAIN pcp_metrics' = DOMAIN table
    BY <2>4
  <2> QED BY <1>1, <1>2, <2>5, <2>6, <2>7 DEF e, i, table
<1> QED BY <1>3, <1>4 DEF MappedEntry

\* An identity given out is one nobody has.
LEMMA MapIdentity ==
    ASSUME StoreInv, NEW o \in DOMAIN heap, MappedEntry(o),
           NEW other \in DOMAIN heap, other # o
    PROVE  /\ heap'[o].pmid # 0
           /\ heap[other].pmid # heap'[o].pmid
           /\ heap'[o].pmindom # 0 => heap[other].pmindom # heap'[o].pmindom
<1>1. heap[o] \in Metric /\ heap[other] \in Metric /\ next_pmid \in Nat
      /\ Len(pcp_instance_domains) \in Nat
  BY DEF StoreInv, Typed, HeapTyped, TablesTyped
<1>2. /\ heap[o].pmid \in Nat /\ heap[other].pmid \in Nat
      /\ heap[o].pmindom \in Nat /\ heap[other].pmindom \in Nat
  BY <1>1 DEF Metric
<1>3. /\ heap[other].pmid <= next_pmid
      /\ heap[other].pmindom <= Len(pcp_instance_domains)
      /\ heap[o].pmid = 0 => heap[o].pmindom = 0
  BY DEF StoreInv, Issued
<1>4. heap[o].pmid # 0 =>
        /\ heap[other].pmid # heap[o].pmid
        /\ heap[o].pmindom # 0 => heap[other].pmindom # heap[o].pmindom
  BY DEF StoreInv, MappedOnce
<1>5. heap'[o].pmid = PmidFor(o)
  BY DEF MappedEntry
<1>6. heap'[o].pmid # 0 /\ heap[other].pmid # heap'[o].pmid
  BY <1>1, <1>2, <1>3, <1>4, <1>5 DEF PmidFor
<1>7. heap'[o].pmindom \in {heap[o].pmindom, DomainFor(o)}
  BY DEF MappedEntry, DomainKept, DomainSet
<1>8. CASE heap'[o].pmindom = heap[o].pmindom
  BY <1>3, <1>4, <1>6, <1>8
<1>9. CASE heap'[o].pmindom = DomainFor(o)
  <2>1. CASE heap[o].pmindom = 0
    BY <1>1, <1>2, <1>3, <1>6, <1>9, <2>1 DEF DomainFor
  <2>2. CASE heap[o].pmindom # 0
    BY <1>3, <1>4, <1>6, <1>9, <2>2 DEF DomainFor
  <2> QED BY <2>1, <2>2
<1> QED BY <1>7, <1>8, <1>9

LEMMA MapMetricKeeps ==
    ASSUME StoreInv, NEW n \in toMap, ppc = "map", MapMetric(n)
    PROVE  StoreInv'
<1> DEFINE o == metrics[n]
<1>1. /\ o \in DOMAIN heap /\ MappedEntry(o) /\ HeapTyped' /\ DOMAIN heap' = DOMAIN heap
      /\ \A p \in DOMAIN heap : p # o => heap'[p] = heap[p]
  BY MapChangesEntry
<1>2. /\ toMap' = toMap \ {n}
      /\ next_pmid' = IF heap[o].pmid = 0 THEN next_pmid + 1 ELSE next_pmid
      /\ pcp_metric_count' = pcp_metric_count + 1
      /\ pcp_pmns' = pcp_pmns \cup {<<PmidFor(o), heap[o].name>>}
      /\ UNCHANGED <<metrics, generation, workVars, ppc, data_generation,
                     has_pmns, notify, has_fetched>>
  BY DEF MapMetric, PmidFor
<1> HIDE DEF o
<1>3. heap[o] \in Metric /\ heap'[o] \in Metric /\ next_pmid \in Nat /\ pcp_metric_count \in Nat
  BY <1>1 DEF HeapTyped, StoreInv, Typed, TablesTyped
<1>4. heap[o].pmid \in Nat /\ heap[o].name \in Name /\ PmidFor(o) \in Nat /\ next_pmid' \in Nat
      /\ next_pmid <= next_pmid' /\ PmidFor(o) <= next_pmid' /\ heap'[o].pmid = PmidFor(o)
  <2>1. heap[o].pmid \in Nat /\ heap[o].name \in Name
    BY <1>3 DEF Metric
  <2>2. heap[o].pmid <= next_pmid
    BY <1>1 DEF StoreInv, Issued
  <2>3. heap'[o].pmid = PmidFor(o)
    BY <1>1 DEF MappedEntry
  <2> QED BY <1>2, <1>3, <2>1, <2>2, <2>3 DEF PmidFor
<1>5. /\ pcp_instance_domains' \in Seq(Seq(Tags \cup {NoTags}))
      /\ instance_map' \in Seq(Name)
      /\ Len(instance_map') = Len(pcp_instance_domains')
      /\ Len(pcp_instance_domains) \in Nat /\ Len(pcp_instance_domains') \in Nat
      /\ Len(pcp_instance_domains) <= Len(pcp_instance_domains')
      /\ heap'[o].pmindom \in 0..Len(pcp_instance_domains')
  BY <1>1, MapChangesDomains
<1>6. /\ pcp_metrics' \in Seq(Entry)
      /\ Len(pcp_metrics') <= pcp_metric_count + 1
      /\ DOMAIN pcp_metrics \subseteq DOMAIN pcp_metrics'
      /\ heap[o].pmid = 0 => IndexFor(o) + 1 \notin DOMAIN pcp_metrics
      /\ heap'[o].pcp_metric_index = IndexFor(o)
      /\ IndexFor(o) + 1 \in DOMAIN pcp_metrics'
      /\ pcp_metrics'[IndexFor(o) + 1] = [item |-> o, indom |-> heap'[o].pmindom]
      /\ \A j \in DOMAIN pcp_metrics :
           j # IndexFor(o) + 1 => pcp_metrics'[j] = pcp_metrics[j]
  BY <1>1, <1>3, MapChangesTable
<1>7. \A other \in DOMAIN heap \ {o} :
        /\ heap'[o].pmid # 0
        /\ heap[other].pmid # heap'[o].pmid
        /\ heap'[o].pmindom # 0 => heap[other].pmindom # heap'[o].pmindom
  BY <1>1, MapIdentity
<1>8. TableTyped' /\ WorkTyped' /\ RequestTyped'
  <2>1. TableTyped'
    BY <1>1, <1>2 DEF StoreInv, Typed, TableTyped
  <2>2. WorkTyped'
    BY <1>1, <1>2 DEF StoreInv, Typed, WorkTyped, workVars
  <2>3. RequestTyped'
    BY <1>2, <1>4 DEF StoreInv, Typed, RequestTyped
  <2> QED BY <2>1, <2>2, <2>3
<1>9. TablesTyped'
  <2>1. Entry' = Entry
    BY <1>1 DEF Entry
  <2> QED BY <1>2, <1>3, <1>4, <1>5, <1>6, <2>1 DEF TablesTyped
<1>10. Issued'
  <2> SUFFICES ASSUME NEW p \in DOMAIN heap
               PROVE  /\ heap'[p].pmid <= next_pmid'
                      /\ heap'[p].pmindom <= Len(pcp_instance_domains')
                      /\ heap'[p].pmid = 0 => heap'[p].pmindom = 0
    BY <1>1 DEF Issued
  <2>1. CASE p = o
    <3>1. PmidFor(o) # 0
      BY <1>3, <1>4 DEF PmidFor
    <3> QED BY <1>4, <1>5, <2>1, <3>1
  <2>2. CASE p # o
    <3>1. heap[p] \in Metric
      BY DEF StoreInv, Typed, HeapTyped
    <3>2. heap[p].pmid \in Nat /\ heap[p].pmindom \in Nat
      BY <3>1 DEF Metric
    <3>3. /\ heap[p].pmid <= next_pmid
          /\ heap[p].pmindom <= Len(pcp_instance_domains)
          /\ heap[p].pmid = 0 => heap[p].pmindom = 0
      BY DEF StoreInv, Issued
    <3>4. heap'[p] = heap[p]
      BY <1>1, <2>2
    <3> QED BY <1>3, <1>4, <1>5, <3>2, <3>3, <3>4
  <2> QED BY <2>1, <2>2
<1>11. MappedOnce'
  <2> SUFFICES ASSUME NEW p \in DOMAIN heap, heap'[p].pmid # 0
               PROVE  /\ heap'[p].pcp_metric_index + 1 \in DOMAIN pcp_metrics'
                      /\ pcp_metrics'[heap'[p].pcp_metric_index + 1]
                           = [item |-> p, indom |-> heap'[p].pmindom]
                      /\ \A other \in DOMAIN heap \ {p} :
                           /\ heap'[other].pmid # heap'[p].pmid
                           /\ heap'[p].pmindom # 0 => heap'[other].pmindom # heap'[p].pmindom
    BY <1>1 DEF MappedOnce
  <2>1. CASE p = o
    BY <1>1, <1>6, <1>7, <2>1
  <2>2. CASE p # o
    <3>1. heap'[p] = heap[p]
      BY <1>1, <2>2
    <3>2. /\ heap[p].pcp_metric_index + 1 \in DOMAIN pcp_metrics
          /\ pcp_metrics[heap[p].pcp_metric_index + 1] = [item |-> p, indom |-> heap[p].pmindom]
          /\ \A other \in DOMAIN heap \ {p} :
               /\ heap[other].pmid # heap[p].pmid
               /\ heap[p].pmindom # 0 => heap[other].pmindom # heap[p].pmindom
      BY <3>1 DEF StoreInv, MappedOnce
    <3>3. heap[p].pcp_metric_index + 1 # IndexFor(o) + 1
      <4>1. CASE heap[o].pmid = 0
        BY <1>6, <3>2, <4>1
      <4>2. CASE heap[o].pmid # 0
        <5>1. pcp_metrics[heap[o].pcp_metric_index + 1] = [item |-> o, indom |-> heap[o].pmindom]
          BY <1>1, <4>2 DEF StoreInv, MappedOnce
        <5>2. pcp_metrics[heap[p].pcp_metric_index + 1].item = p
          BY <3>2
        <5>3. IndexFor(o) = heap[o].pcp_metric_index
          BY <4>2 DEF IndexFor
        <5> QED BY <2>2, <5>1, <5>2, <5>3
      <4> QED BY <4>1, <4>2
    <3>4. ASSUME NEW other \in DOMAIN heap \ {p}
          PROVE  /\ heap'[other].pmid # heap[p].pmid
                 /\ heap[p].pmindom # 0 => heap'[other].pmindom # heap[p].pmindom
      <4>1. CASE other = o
        BY <1>7, <2>2, <4>1
      <4>2. CASE other # o
        BY <1>1, <3>2, <4>2
      <4> QED BY <4>1, <4>2
    <3>5. pcp_metrics'[heap[p].pcp_metric_index + 1] = pcp_metrics[heap[p].pcp_metric_index + 1]
          /\ heap[p].pcp_metric_index + 1 \in DOMAIN pcp_metrics'
      BY <1>6, <3>2, <3>3
    <3> QED BY <3>1, <3>2, <3>4, <3>5
  <2> QED BY <2>1, <2>2
<1> QED BY <1>1, <1>8, <1>9, <1>10, <1>11 DEF StoreInv, Typed

(* The theorems *)

LEMMA StoreInvInit == Init => StoreInv
<1> SUFFICES ASSUME Init PROVE StoreInv
  OBVIOUS
<1>1. heap = <<>> /\ metrics = <<>> /\ toMap = {} /\ ppc = "idle"
  BY DEF Init
<1>2. HeapTyped /\ TableTyped
  BY <1>1 DEF HeapTyped, TableTyped
<1>3. WorkTyped
  <2>1. apc = "idle" /\ datagram = <<>> /\ generation = 0 /\ item = 0 /\ created = FALSE
        /\ status = FALSE /\ datagrams = 0
    BY DEF Init
  <2>2. 0 \in 0..MaxDatagrams
    BY StoreAssumption DEF StoreAssumption
  <2> QED BY <2>1, <2>2 DEF WorkTyped, AggregatorPc, AtMetric, AtLabel
<1>7. RequestTyped
  BY DEF Init, RequestTyped
<1>4. pcp_metrics \in Seq(Entry) /\ Len(pcp_metrics) = Hardcoded
  <2>1. pcp_metrics \in [1..Hardcoded -> Entry] /\ Hardcoded \in Nat
    BY StoreAssumption DEF Init, StoreAssumption, Entry, Static
  <2> QED BY <2>1, SeqOfFunction
<1>5. TablesTyped
  BY <1>4, StoreAssumption DEF Init, StoreAssumption, TablesTyped
<1>6. Issued /\ MappedOnce
  BY <1>1 DEF Issued, MappedOnce
<1> QED BY <1>2, <1>3, <1>5, <1>6, <1>7 DEF StoreInv, Typed

LEMMA StoreInvNext == StoreInv /\ [Next]_vars => StoreInv'
<1> SUFFICES ASSUME StoreInv, [Next]_vars PROVE StoreInv'
  OBVIOUS
<1>1. CASE AggregatorNext
  <2>1. (HeapTyped /\ TableTyped /\ WorkTyped)' /\ IdentitiesKept /\ UNCHANGED pcpVars
    BY <1>1, AggregatorTypes DEF StoreInv, Typed
  <2>2. UNCHANGED tableVars
    BY <2>1 DEF pcpVars
  <2>3. TablesTyped' /\ Issued' /\ MappedOnce'
    BY <2>1, <2>2, IdentitiesEnough
  <2>4. RequestTyped'
    BY <2>1 DEF StoreInv, Typed, RequestTyped, pcpVars, spaceVars
  <2> QED BY <2>1, <2>3, <2>4 DEF StoreInv, Typed
<1>2. ASSUME NEW n \in toMap, ppc = "map", MapMetric(n) PROVE StoreInv'
  BY <1>2, MapMetricKeeps
<1>3. CASE PcpQuiet
  <2>1. TableTyped' /\ RequestTyped' /\ UNCHANGED <<storeVars, workVars, tableVars>>
    BY <1>3, PcpQuietTypes DEF StoreInv
  <2>2. HeapTyped' /\ IdentitiesKept
    BY <2>1, HeapUnchanged DEF storeVars, StoreInv, Typed
  <2>3. WorkTyped'
    BY <2>1 DEF storeVars, workVars, StoreInv, Typed, WorkTyped
  <2>4. TablesTyped' /\ Issued' /\ MappedOnce'
    BY <2>1, <2>2, IdentitiesEnough
  <2> QED BY <2>1, <2>2, <2>3, <2>4 DEF StoreInv, Typed
<1>4. CASE UNCHANGED vars
  <2>1. UNCHANGED <<storeVars, workVars, pcpVars>>
    BY <1>4 DEF vars
  <2>2. HeapTyped' /\ IdentitiesKept
    BY <2>1, HeapUnchanged DEF storeVars, StoreInv, Typed
  <2>3. TableTyped' /\ WorkTyped' /\ RequestTyped'
    BY <2>1
       DEF StoreInv, Typed, TableTyped, WorkTyped, RequestTyped, storeVars, workVars, pcpVars,
                spaceVars
  <2>4. TablesTyped' /\ Issued' /\ MappedOnce'
    BY <2>1, <2>2, IdentitiesEnough DEF pcpVars
  <2> QED BY <2>2, <2>3, <2>4 DEF StoreInv, Typed
<1>5. CASE Undefined
  <2>1. /\ apc' = "undefined" /\ ppc' = "undefined"
        /\ UNCHANGED <<storeVars, tableVars, spaceVars, datagram, item, created, status,
                       datagrams, toMap, data_generation>>
    BY <1>5 DEF Undefined
  <2>2. HeapTyped' /\ IdentitiesKept
    BY <2>1, HeapUnchanged DEF storeVars, StoreInv, Typed
  <2>3. TableTyped' /\ WorkTyped'
    BY <2>1 DEF StoreInv, Typed, TableTyped, WorkTyped, AggregatorPc, AtMetric, AtLabel,
                storeVars
  <2>4. RequestTyped'
    BY <2>1 DEF StoreInv, Typed, RequestTyped, spaceVars
  <2>5. TablesTyped' /\ Issued' /\ MappedOnce'
    BY <2>1, <2>2, IdentitiesEnough
  <2> QED BY <2>2, <2>3, <2>4, <2>5 DEF StoreInv, Typed
<1> QED BY <1>1, <1>2, <1>3, <1>4, <1>5
        DEF Next, PcpNext, PcpQuiet, FreeUnwritten, ReadMissing, StayUndefined

\* Every reference between the hashtable, the metrics, the PCP table and the
\* instance domains is to something that exists, whatever the requests and
\* datagrams and however they interleave.
THEOREM TypeCorrect == Spec => []TypeOK
<1>1. Spec => []StoreInv
  BY StoreInvInit, StoreInvNext, PTL DEF Spec
<1>2. StoreInv => TypeOK
  BY TypedTypes DEF StoreInv
<1> QED BY <1>1, <1>2, PTL

\* map_metric, create_pcp_metric and create_instance never give two metrics one
\* pmid, table entry or instance domain, and the entry a metric records is its
\* own, although pcp_metric_count runs ahead of the table.
THEOREM MappedOnceCorrect == Spec => []MappedOnce
<1>1. Spec => []StoreInv
  BY StoreInvInit, StoreInvNext, PTL DEF Spec
<1>2. StoreInv => MappedOnce
  BY DEF StoreInv
<1> QED BY <1>1, <1>2, PTL

-----------------------------------------------------------------------------
(* What PCP is shown of the metric table, whatever malloc leaves in a new metric. *)

Shown(m) == m.value \/ m.children # {}

\* A metric whose first label was not added.
Bare(m) ==
    /\ ~m.value /\ m.children = {}
    /\ ~m.pcp_instance_change_requested /\ m.pmindom = 0

\* What the table holds is not freed.
NamesOwn == \A n \in DOMAIN metrics : heap[metrics[n]].name = n /\ heap[metrics[n]].alive

InTable(o) == heap[o].name \in DOMAIN metrics /\ metrics[heap[o].name] = o

Settled(o) == InTable(o) /\ Shown(heap[o])

\* Places at which a metric created for the datagram is in the table, unmarked.
AtUnmarked == AtFirstLabel \cup {"mark"}

AtCreation == AtUnmarked \cup {"add_metric", "undefined"}

InCreation(o) == created /\ item = o /\ apc \in AtCreation

\* What is mapped is marked; what process_metric marked is in the table for good;
\* what it did not is being created, or it was freed without having shown anything.
MarkedAt(o) ==
    /\ heap[o].pmid # 0 => heap[o].pernament
    /\ heap[o].pernament => heap[o].leftover \/ Settled(o)
    /\ heap[o].alive => Settled(o) \/ InCreation(o)
    /\ heap[o].alive /\ heap[o].pmid # 0 => InTable(o)
    /\ ~heap[o].alive => Bare(heap[o])

Marked == \A o \in DOMAIN heap : MarkedAt(o)

\* How far the aggregator has come with a metric it creates.
Progress ==
    /\ apc \in {"find_metric", "create_metric", "update_root"} => ~created
    /\ apc \in {"add_metric", "remove_metric", "mark"} => created
    /\ apc \in {"create_metric", "add_metric"} => datagram.name \notin DOMAIN metrics
    /\ apc \in AtUnmarked \cup {"update_root", "update_label"} =>
         datagram.name \in DOMAIN metrics /\ metrics[datagram.name] = item
    /\ apc = "add_metric" =>
         /\ heap[item].name = datagram.name
         /\ heap[item].alive
         /\ IF datagram.tags = NoTags THEN heap[item].value ELSE Bare(heap[item])
    /\ apc \in AtFirstLabel /\ created => Bare(heap[item])
    /\ apc = "mark" => Shown(heap[item])

RecordInv == NamesOwn /\ Marked /\ Progress

\* One entry is edited.
LEMMA EditContent ==
    ASSUME HeapTyped, NEW o \in DOMAIN heap, NEW e \in Edits(heap[o]),
           heap' = [heap EXCEPT ![o] = e]
    PROVE  /\ DOMAIN heap' = DOMAIN heap
           /\ heap'[o] = e
           /\ \A p \in DOMAIN heap : p # o => heap'[p] = heap[p]
           /\ e.name = heap[o].name
           /\ e.pmid = heap[o].pmid
           /\ e.leftover = heap[o].leftover
           /\ Shown(heap[o]) => Shown(e)
<1>1. heap[o] \in Metric /\ heap \in Seq(Metric)
  BY DEF HeapTyped
<1>2. /\ e \in Metric /\ SameIdentity(e, heap[o]) /\ (heap[o].value => e.value)
      /\ e.children = heap[o].children \/ \E t \in Tags : e.children = heap[o].children \cup {t}
  BY <1>1, EditedEntry
<1>3. /\ DOMAIN heap' = DOMAIN heap /\ heap'[o] = e
      /\ \A p \in DOMAIN heap : p # o => heap'[p] = heap[p]
  BY <1>1, <1>2, HeapChange
<1> QED BY <1>2, <1>3 DEF SameIdentity, Shown

\* Marks stay right when the entry worked on is edited without being marked or freed.
LEMMA MarksKept ==
    ASSUME HeapTyped, NamesOwn, Marked, UNCHANGED <<metrics, item, created>>,
           \A n \in DOMAIN metrics : metrics[n] \in DOMAIN heap,
           item \in DOMAIN heap, heap[item].alive,
           NEW e \in Edits(heap[item]), heap' = [heap EXCEPT ![item] = e],
           e.pernament = heap[item].pernament, e.alive,
           created /\ apc \in AtCreation => apc' \in AtCreation
    PROVE  NamesOwn' /\ Marked'
<1>1. /\ DOMAIN heap' = DOMAIN heap /\ heap'[item] = e
      /\ \A p \in DOMAIN heap : p # item => heap'[p] = heap[p]
      /\ e.name = heap[item].name /\ e.pmid = heap[item].pmid
      /\ e.leftover = heap[item].leftover /\ (Shown(heap[item]) => Shown(e))
  BY EditContent
<1>2. NamesOwn'
  BY <1>1 DEF NamesOwn
<1>3. ASSUME NEW p \in DOMAIN heap PROVE MarkedAt(p)'
  <2>1. MarkedAt(p)
    BY DEF Marked
  <2>2. /\ heap'[p].name = heap[p].name /\ heap'[p].pmid = heap[p].pmid
        /\ heap'[p].pernament = heap[p].pernament /\ heap'[p].leftover = heap[p].leftover
        /\ heap'[p].alive <=> heap[p].alive
        /\ Shown(heap[p]) => Shown(heap'[p])
        /\ ~heap[p].alive => heap'[p] = heap[p]
    BY <1>1
  <2>3. (InTable(p) => InTable(p)') /\ (Settled(p) => Settled(p)')
    BY <2>2 DEF InTable, Settled
  <2>4. InCreation(p) => InCreation(p)'
    BY DEF InCreation
  <2> QED BY <2>1, <2>2, <2>3, <2>4 DEF MarkedAt
<1> QED BY <1>1, <1>2, <1>3 DEF Marked

\* Marks stay right when the store does.
LEMMA MarksStay ==
    ASSUME NamesOwn, Marked, UNCHANGED storeVars,
           \A p \in DOMAIN heap : InCreation(p) => InCreation(p)'
    PROVE  NamesOwn' /\ Marked'
<1>1. UNCHANGED <<heap, metrics>>
  BY DEF storeVars
<1>2. NamesOwn'
  BY <1>1 DEF NamesOwn
<1>3. ASSUME NEW p \in DOMAIN heap PROVE MarkedAt(p)'
  <2>1. MarkedAt(p) /\ (InCreation(p) => InCreation(p)')
    BY DEF Marked
  <2>2. (InTable(p) => InTable(p)') /\ (Settled(p) => Settled(p)')
    BY <1>1 DEF InTable, Settled
  <2> QED BY <1>1, <2>1, <2>2 DEF MarkedAt
<1> QED BY <1>1, <1>2, <1>3 DEF Marked

LEMMA RecordAggregator ==
    ASSUME StoreInv, RecordInv, AggregatorNext
    PROVE  RecordInv'
<1> USE DEF Goto, Answer
<1>0. /\ HeapTyped /\ NamesOwn /\ Marked /\ Progress
      /\ DOMAIN metrics \subseteq Name
      /\ \A n \in DOMAIN metrics : metrics[n] \in DOMAIN heap
      /\ apc \in AtMetric \cup AtLabel => item \in DOMAIN heap
      /\ apc \notin {"idle", "undefined"} => datagram \in Datagram
  BY DEF StoreInv, Typed, TableTyped, WorkTyped, RecordInv
\* The metric worked on is in the table.
<1>a. ASSUME apc \in AtUnmarked \cup {"update_root", "update_label"}
      PROVE  /\ item \in DOMAIN heap /\ heap[item] \in Metric /\ heap[item].alive
             /\ datagram.name \in DOMAIN metrics /\ metrics[datagram.name] = item
             /\ heap[item].name = datagram.name
  <2>1. datagram.name \in DOMAIN metrics /\ metrics[datagram.name] = item
    BY <1>0, <1>a DEF Progress
  <2> QED BY <1>0, <2>1 DEF NamesOwn, HeapTyped
<1>1. CASE ReceiveDatagram \/ FindMetric \/ FindNoMetric \/ CreateMetricFails
             \/ FindLabel \/ UpdateLabel \/ CreateLabel
  <2>1. UNCHANGED storeVars /\ UNCHANGED <<heap, metrics>>
    BY <1>1 DEF ReceiveDatagram, FindMetric, FindNoMetric, CreateMetricFails, FindLabel,
                UpdateLabel, CreateLabel, storeVars
  <2>2. CASE ReceiveDatagram \/ FindMetric \/ FindNoMetric \/ CreateMetricFails \/ UpdateLabel
    <3>1. apc \notin AtCreation
      BY <2>2 DEF ReceiveDatagram, FindMetric, FindNoMetric, CreateMetricFails, UpdateLabel,
                  AtCreation, AtUnmarked, AtFirstLabel
    <3>2. NamesOwn' /\ Marked'
      BY <1>0, <2>1, <3>1, MarksStay DEF InCreation
    <3>3. CASE ReceiveDatagram
      BY <1>0, <2>1, <3>2, <3>3
         DEF RecordInv, ReceiveDatagram, Progress, AtUnmarked, AtFirstLabel
    <3>4. CASE FindMetric
      BY <1>0, <2>1, <3>2, <3>4 DEF RecordInv, FindMetric, Progress, AtUnmarked, AtFirstLabel
    <3>5. CASE FindNoMetric \/ CreateMetricFails \/ UpdateLabel
      BY <1>0, <2>1, <3>2, <3>5
         DEF RecordInv, FindNoMetric, NameAvailable, CreateMetricFails, UpdateLabel, Progress,
             AtUnmarked, AtFirstLabel
    <3> QED BY <2>2, <3>3, <3>4, <3>5
  <2>3. CASE FindLabel
    <3>1. /\ apc = "find_label" /\ UNCHANGED <<datagram, item, created>>
          /\ \/ apc' = "update_label" /\ datagram.tags \in heap[item].children
             \/ apc' = "create_label"
      BY <2>3 DEF FindLabel
    <3>2. created => apc' = "create_label"
      BY <1>0, <3>1 DEF Progress, Bare, AtFirstLabel
    <3>3. NamesOwn' /\ Marked'
      BY <1>0, <2>1, <3>1, <3>2, MarksStay DEF InCreation, AtCreation, AtUnmarked, AtFirstLabel
    <3>4. Progress'
      BY <1>0, <2>1, <3>1, <3>2 DEF Progress, AtUnmarked, AtFirstLabel
    <3> QED BY <3>3, <3>4 DEF RecordInv
  <2>4. CASE CreateLabel
    <3>1. /\ apc = "create_label" /\ UNCHANGED <<datagram, item, created>>
          /\ \/ apc' = "add_label"
             \/ created /\ apc' = "remove_metric"
             \/ ~created /\ apc' = "idle"
      BY <2>4 DEF CreateLabel
    <3>2. NamesOwn' /\ Marked'
      BY <1>0, <2>1, <3>1, MarksStay DEF InCreation, AtCreation, AtUnmarked, AtFirstLabel
    <3>3. Progress'
      BY <1>0, <2>1, <3>1 DEF Progress, AtUnmarked, AtFirstLabel
    <3> QED BY <3>2, <3>3 DEF RecordInv
  <2> QED BY <1>1, <2>2, <2>3, <2>4
<1>2. CASE CreateMetric
  <2>1. PICK pernament \in FreshPernament :
          heap' = Append(heap, NewMetric(datagram, datagram.tags = NoTags, pernament))
    BY <1>2 DEF CreateMetric
  <2> DEFINE m == NewMetric(datagram, datagram.tags = NoTags, pernament)
  <2>2. /\ m.name = datagram.name /\ m.pmid = 0 /\ m.pmindom = 0 /\ m.leftover = m.pernament
        /\ m.alive = TRUE /\ m.value = (datagram.tags = NoTags) /\ m.children = {}
        /\ m.pcp_instance_change_requested = FALSE
    BY DEF NewMetric
  <2>3. m \in Metric
    <3>1. datagram \in Datagram /\ pernament \in BOOLEAN
      BY <1>2, StoreAssumption DEF CreateMetric, StoreInv, Typed, WorkTyped, StoreAssumption
    <3> QED BY <3>1 DEF NewMetric, Metric, Datagram
  <2>4. heap' = Append(heap, m)
    BY <2>1
  <2> HIDE DEF m
  <2>5. /\ Len(heap) \in Nat /\ DOMAIN heap' = DOMAIN heap \cup {Len(heap) + 1}
        /\ Len(heap) + 1 \notin DOMAIN heap /\ heap'[Len(heap) + 1] = m
        /\ \A p \in DOMAIN heap : heap'[p] = heap[p]
    BY <1>0, <2>3, <2>4, HeapGrows DEF HeapTyped
  <2>6. /\ apc = "create_metric" /\ apc' = "add_metric" /\ item' = Len(heap) + 1
        /\ created' = TRUE /\ UNCHANGED <<metrics, datagram>>
    BY <1>2 DEF CreateMetric
  <2>7. NamesOwn'
    BY <1>0, <2>5, <2>6 DEF NamesOwn
  <2>8. ASSUME NEW p \in DOMAIN heap PROVE MarkedAt(p)'
    <3>1. MarkedAt(p) /\ ~InCreation(p)
      BY <1>0, <2>6 DEF Marked, InCreation, AtCreation, AtUnmarked, AtFirstLabel
    <3>2. heap'[p] = heap[p] /\ UNCHANGED metrics
      BY <2>5, <2>6
    <3>3. (InTable(p) => InTable(p)') /\ (Settled(p) => Settled(p)')
      BY <3>2 DEF InTable, Settled
    <3> QED BY <3>1, <3>2, <3>3 DEF MarkedAt
  <2>9. MarkedAt(item)'
    <3>1. InCreation(item)'
      BY <2>6 DEF InCreation, AtCreation
    <3> QED BY <2>2, <2>5, <2>6, <3>1 DEF MarkedAt
  <2>10. Marked'
    BY <2>5, <2>6, <2>8, <2>9 DEF Marked
  <2>11. Progress'
    BY <1>0, <2>2, <2>5, <2>6 DEF Progress, Bare, AtUnmarked, AtFirstLabel
  <2> QED BY <2>7, <2>10, <2>11 DEF RecordInv
<1>3. CASE AddMetric
  <2>1. /\ item \in DOMAIN heap /\ heap[item].name = datagram.name /\ heap[item].alive
        /\ created /\ datagram.name \notin DOMAIN metrics
        /\ IF datagram.tags = NoTags THEN heap[item].value ELSE Bare(heap[item])
    BY <1>0, <1>3 DEF AddMetric, AtMetric, Progress
  <2>2. /\ metrics' = [n \in DOMAIN metrics \cup {datagram.name} |->
                         IF n = datagram.name THEN item ELSE metrics[n]]
        /\ apc' = IF datagram.tags = NoTags THEN "mark" ELSE "labels_dict"
        /\ UNCHANGED <<heap, datagram, item, created>>
    BY <1>3 DEF AddMetric
  <2>3. NamesOwn'
    BY <1>0, <2>1, <2>2 DEF NamesOwn
  <2>4. ASSUME NEW p \in DOMAIN heap PROVE MarkedAt(p)'
    <3>1. MarkedAt(p)
      BY <1>0 DEF Marked
    <3>2. (InTable(p) => InTable(p)') /\ (Settled(p) => Settled(p)')
      BY <2>1, <2>2 DEF InTable, Settled
    <3>3. InCreation(p) => p = item /\ InCreation(p)' /\ InTable(p)'
      BY <2>1, <2>2 DEF InCreation, InTable, AtCreation, AtUnmarked, AtFirstLabel
    <3> QED BY <2>2, <3>1, <3>2, <3>3 DEF MarkedAt
  <2>5. Marked'
    BY <2>2, <2>4 DEF Marked
  <2>6. Progress'
    BY <2>1, <2>2 DEF Progress, Shown, AtUnmarked, AtFirstLabel
  <2> QED BY <2>3, <2>5, <2>6 DEF RecordInv
<1>4. CASE UpdateRoot
  <2>1. /\ item \in DOMAIN heap /\ heap[item] \in Metric /\ heap[item].alive
        /\ apc = "update_root" /\ apc' = "idle" /\ UNCHANGED <<metrics, generation, item, created>>
    BY <1>4, <1>a DEF UpdateRoot
  <2>2. Progress'
    BY <2>1 DEF Progress, AtUnmarked, AtFirstLabel
  <2>3. apc \notin AtCreation
    BY <2>1 DEF AtCreation, AtUnmarked, AtFirstLabel
  <2>4. CASE UNCHANGED heap
    BY <1>0, <2>1, <2>2, <2>3, <2>4, MarksStay DEF RecordInv, InCreation, storeVars
  <2>5. CASE heap' = [heap EXCEPT ![item].value = TRUE]
    <3> DEFINE e == [heap[item] EXCEPT !.value = TRUE]
    <3>1. heap' = [heap EXCEPT ![item] = e] /\ e \in Edits(heap[item])
      BY <2>5 DEF Edits
    <3>2. e.pernament = heap[item].pernament /\ e.alive
      BY <2>1 DEF Metric
    <3> HIDE DEF e
    <3> QED BY <1>0, <2>1, <2>2, <2>3, <3>1, <3>2, MarksKept DEF RecordInv
  <2> QED BY <1>4, <2>4, <2>5 DEF UpdateRoot
<1>5. CASE CreateLabelsDict
  <2>1. /\ apc = "labels_dict" /\ apc' = "find_label"
        /\ UNCHANGED <<metrics, datagram, item, created>>
    BY <1>5 DEF CreateLabelsDict
  <2>2. item \in DOMAIN heap /\ heap[item] \in Metric /\ heap[item].alive
    BY <1>a, <2>1 DEF AtUnmarked, AtFirstLabel
  <2> DEFINE e == [heap[item] EXCEPT !.has_children = TRUE]
  <2>3. heap' = [heap EXCEPT ![item] = e] /\ e \in Edits(heap[item])
    BY <1>5 DEF CreateLabelsDict, Edits
  <2>4. e.pernament = heap[item].pernament /\ e.alive /\ (Bare(heap[item]) => Bare(e))
    BY <2>2 DEF Metric, Bare
  <2> HIDE DEF e
  <2>5. NamesOwn' /\ Marked'
    <3>1. created /\ apc \in AtCreation => apc' \in AtCreation
      BY <2>1 DEF AtCreation, AtUnmarked, AtFirstLabel
    <3> QED BY <1>0, <2>1, <2>2, <2>3, <2>4, <3>1, MarksKept
  <2>6. heap'[item] = e
    BY <1>0, <2>2, <2>3, EditContent
  <2>7. Progress'
    BY <1>0, <2>1, <2>4, <2>6 DEF Progress, AtUnmarked, AtFirstLabel
  <2> QED BY <2>5, <2>7 DEF RecordInv
<1>6. CASE AddLabel
  <2>1. /\ apc = "add_label" /\ UNCHANGED <<metrics, datagram, item, created>>
        /\ (~created /\ apc' = "idle") \/ (created /\ apc' = "mark")
    BY <1>6 DEF AddLabel
  <2>2. item \in DOMAIN heap /\ heap[item] \in Metric /\ heap[item].alive /\ datagram.tags \in Tags
    BY <1>a, <2>1 DEF AtUnmarked, AtFirstLabel, AtLabel, StoreInv, Typed, WorkTyped
  <2> DEFINE e == [heap[item] EXCEPT !.children = @ \cup {datagram.tags},
                                     !.pcp_instance_change_requested = TRUE]
  <2>3. heap' = [heap EXCEPT ![item] = e] /\ e \in Edits(heap[item])
    BY <1>6, <2>2 DEF AddLabel, Edits
  <2>4. e.pernament = heap[item].pernament /\ e.alive /\ Shown(e)
    BY <2>2 DEF Metric, Shown
  <2> HIDE DEF e
  <2>5. NamesOwn' /\ Marked'
    <3>1. created /\ apc \in AtCreation => apc' \in AtCreation
      BY <2>1 DEF AtCreation, AtUnmarked, AtFirstLabel
    <3> QED BY <1>0, <2>1, <2>2, <2>3, <2>4, <3>1, MarksKept
  <2>6. heap'[item] = e
    BY <1>0, <2>2, <2>3, EditContent
  <2>7. Progress'
    BY <1>0, <2>1, <2>4, <2>6 DEF Progress, AtUnmarked, AtFirstLabel
  <2> QED BY <2>5, <2>7 DEF RecordInv
<1>7. CASE RemoveMetric
  <2>1. /\ apc = "remove_metric" /\ apc' = "idle" /\ created
        /\ metrics' = [n \in DOMAIN metrics \ {datagram.name} |-> metrics[n]]
    BY <1>0, <1>7 DEF RemoveMetric, Progress
  <2>2. /\ item \in DOMAIN heap /\ heap[item] \in Metric /\ heap[item].name = datagram.name
        /\ datagram.name \in DOMAIN metrics /\ metrics[datagram.name] = item
        /\ Bare(heap[item])
    BY <1>0, <1>a, <2>1 DEF AtUnmarked, AtFirstLabel, Progress
  <2> DEFINE e == [heap[item] EXCEPT !.alive = FALSE]
  <2>3. heap' = [heap EXCEPT ![item] = e] /\ e \in Edits(heap[item])
    BY <1>7 DEF RemoveMetric, Edits
  <2>4. e.pernament = heap[item].pernament /\ ~e.alive /\ Bare(e)
    BY <2>2 DEF Metric, Bare
  <2> HIDE DEF e
  <2>5. /\ DOMAIN heap' = DOMAIN heap /\ heap'[item] = e
        /\ \A p \in DOMAIN heap : p # item => heap'[p] = heap[p]
        /\ e.name = heap[item].name /\ e.pmid = heap[item].pmid
        /\ e.leftover = heap[item].leftover
    BY <1>0, <2>2, <2>3, EditContent
  <2>6. NamesOwn'
    BY <1>0, <2>1, <2>2, <2>5 DEF NamesOwn
  <2>7. ASSUME NEW p \in DOMAIN heap PROVE MarkedAt(p)'
    <3>1. MarkedAt(p)
      BY <1>0 DEF Marked
    <3>2. CASE p = item
      <4>1. ~Settled(p)
        BY <2>2, <3>2 DEF Settled, Shown, Bare
      <4> QED BY <2>4, <2>5, <3>1, <3>2, <4>1 DEF MarkedAt
    <3>3. CASE p # item
      <4>1. heap'[p] = heap[p] /\ ~InCreation(p)
        BY <2>5, <3>3 DEF InCreation
      <4>2. (InTable(p) => InTable(p)') /\ (Settled(p) => Settled(p)')
        BY <2>1, <2>2, <3>3, <4>1 DEF InTable, Settled
      <4> QED BY <3>1, <4>1, <4>2 DEF MarkedAt
    <3> QED BY <3>2, <3>3
  <2>8. Marked'
    BY <2>5, <2>7 DEF Marked
  <2>9. Progress'
    BY <2>1 DEF Progress, AtUnmarked, AtFirstLabel
  <2> QED BY <2>6, <2>8, <2>9 DEF RecordInv
<1>8. CASE MarkPernament
  <2>1. apc = "mark" /\ apc' = "idle" /\ UNCHANGED <<metrics, item, created>>
    BY <1>8 DEF MarkPernament
  <2>2. /\ item \in DOMAIN heap /\ heap[item] \in Metric /\ heap[item].alive
        /\ heap[item].name = datagram.name
        /\ datagram.name \in DOMAIN metrics /\ metrics[datagram.name] = item
        /\ Shown(heap[item])
    BY <1>0, <1>a, <2>1 DEF AtUnmarked, Progress
  <2> DEFINE e == [heap[item] EXCEPT !.pernament = TRUE]
  <2>3. heap' = [heap EXCEPT ![item] = e] /\ e \in Edits(heap[item])
    BY <1>8 DEF MarkPernament, Edits
  <2>4. e.pernament /\ e.alive
    BY <2>2 DEF Metric
  <2> HIDE DEF e
  <2>5. /\ DOMAIN heap' = DOMAIN heap /\ heap'[item] = e
        /\ \A p \in DOMAIN heap : p # item => heap'[p] = heap[p]
        /\ e.name = heap[item].name /\ e.pmid = heap[item].pmid /\ Shown(e)
    BY <1>0, <2>2, <2>3, EditContent
  <2>6. NamesOwn'
    BY <1>0, <2>1, <2>4, <2>5 DEF NamesOwn
  <2>7. ASSUME NEW p \in DOMAIN heap PROVE MarkedAt(p)'
    <3>1. MarkedAt(p)
      BY <1>0 DEF Marked
    <3>2. CASE p = item
      <4>1. Settled(p)' /\ InTable(p)'
        BY <2>1, <2>2, <2>5, <3>2 DEF Settled, InTable
      <4> QED BY <2>4, <2>5, <3>2, <4>1 DEF MarkedAt
    <3>3. CASE p # item
      <4>1. heap'[p] = heap[p] /\ ~InCreation(p)
        BY <2>5, <3>3 DEF InCreation
      <4>2. (InTable(p) => InTable(p)') /\ (Settled(p) => Settled(p)')
        BY <2>1, <4>1 DEF InTable, Settled
      <4> QED BY <3>1, <4>1, <4>2 DEF MarkedAt
    <3> QED BY <3>2, <3>3
  <2>8. Marked'
    BY <2>5, <2>7 DEF Marked
  <2>9. Progress'
    BY <2>1 DEF Progress, AtUnmarked, AtFirstLabel
  <2> QED BY <2>6, <2>8, <2>9 DEF RecordInv
<1> QED BY <1>1, <1>2, <1>3, <1>4, <1>5, <1>6, <1>7, <1>8 DEF AggregatorNext

\* Mapping a metric, as far as what is shown of it goes.
LEMMA MapContent ==
    ASSUME StoreInv, NEW n \in toMap, MapMetric(n)
    PROVE  /\ n \in DOMAIN metrics /\ metrics[n] \in DOMAIN heap
           /\ DOMAIN heap' = DOMAIN heap
           /\ \A p \in DOMAIN heap : p # metrics[n] => heap'[p] = heap[p]
           /\ SameContent(heap'[metrics[n]], heap[metrics[n]])
           /\ Bare(heap[metrics[n]]) => Bare(heap'[metrics[n]])
           /\ heap[metrics[n]].pernament
           /\ heap'[metrics[n]].pmid = PmidFor(metrics[n])
           /\ PmidFor(metrics[n]) # 0
           /\ heap[metrics[n]].pmid # 0 => PmidFor(metrics[n]) = heap[metrics[n]].pmid
           /\ toMap' = toMap \ {n}
           /\ pcp_pmns' = pcp_pmns \cup {<<PmidFor(metrics[n]), heap[metrics[n]].name>>}
           /\ UNCHANGED <<metrics, workVars, ppc, fetched>>
<1> DEFINE o == metrics[n]
<1>1. /\ o \in DOMAIN heap /\ MappedEntry(o) /\ DOMAIN heap' = DOMAIN heap
      /\ \A p \in DOMAIN heap : p # o => heap'[p] = heap[p]
  BY MapChangesEntry
<1>2. n \in DOMAIN metrics
  BY DEF StoreInv, Typed, TableTyped
<1>3. /\ heap[o].pernament /\ toMap' = toMap \ {n}
      /\ pcp_pmns' = pcp_pmns \cup {<<PmidFor(o), heap[o].name>>}
      /\ UNCHANGED <<metrics, workVars, ppc, fetched>>
  BY DEF MapMetric, PmidFor
<1>4. /\ SameContent(heap'[o], heap[o]) /\ heap'[o].pmid = PmidFor(o)
      /\ Bare(heap[o]) => Bare(heap'[o])
  BY <1>1 DEF MappedEntry, SameContent, DomainKept, DomainSet, Bare
<1>5. next_pmid \in Nat
  BY DEF StoreInv, Typed, TablesTyped
<1>6. PmidFor(o) # 0 /\ (heap[o].pmid # 0 => PmidFor(o) = heap[o].pmid)
  BY <1>5 DEF PmidFor
<1> QED BY <1>1, <1>2, <1>3, <1>4, <1>6

LEMMA RecordMap ==
    ASSUME StoreInv, RecordInv, NEW n \in toMap, MapMetric(n)
    PROVE  RecordInv'
<1> DEFINE o == metrics[n]
<1>1. /\ n \in DOMAIN metrics /\ o \in DOMAIN heap /\ DOMAIN heap' = DOMAIN heap
      /\ \A p \in DOMAIN heap : p # o => heap'[p] = heap[p]
      /\ SameContent(heap'[o], heap[o]) /\ heap[o].pernament
      /\ Bare(heap[o]) => Bare(heap'[o])
      /\ UNCHANGED <<metrics, workVars>>
  BY MapContent
<1>2. /\ \A m \in DOMAIN metrics : metrics[m] \in DOMAIN heap
      /\ NamesOwn /\ Marked /\ Progress /\ InTable(o)
  BY <1>1 DEF StoreInv, Typed, TableTyped, RecordInv, NamesOwn, InTable
<1> HIDE DEF o
<1>3. ASSUME NEW p \in DOMAIN heap
      PROVE  /\ SameContent(heap'[p], heap[p])
             /\ Shown(heap[p]) => Shown(heap'[p])
             /\ Bare(heap[p]) => Bare(heap'[p])
             /\ p = o \/ heap'[p] = heap[p]
  BY <1>1 DEF SameContent, Shown
<1>4. NamesOwn'
  BY <1>1, <1>2, <1>3 DEF NamesOwn, SameContent
<1>5. ASSUME NEW p \in DOMAIN heap PROVE MarkedAt(p)'
  <2>1. MarkedAt(p)
    BY <1>2 DEF Marked
  <2>2. /\ heap'[p].name = heap[p].name /\ heap'[p].pernament = heap[p].pernament
        /\ heap'[p].leftover = heap[p].leftover /\ heap'[p].alive = heap[p].alive
        /\ Shown(heap[p]) => Shown(heap'[p])
        /\ Bare(heap[p]) => Bare(heap'[p])
    BY <1>3 DEF SameContent
  <2>3. (InTable(p) => InTable(p)') /\ (Settled(p) => Settled(p)')
    BY <1>1, <2>2 DEF InTable, Settled
  <2>4. InCreation(p) => InCreation(p)'
    BY <1>1 DEF InCreation, workVars
  <2>5. heap'[p].pmid # 0 => heap'[p].pernament /\ (heap'[p].alive => InTable(p)')
    <3>1. CASE p = o
      BY <1>1, <1>2, <2>2, <2>3, <3>1
    <3>2. CASE heap'[p] = heap[p]
      BY <2>1, <2>3, <3>2 DEF MarkedAt
    <3> QED BY <1>3, <3>1, <3>2
  <2> QED BY <2>1, <2>2, <2>3, <2>4, <2>5 DEF MarkedAt
<1>6. Marked'
  BY <1>1, <1>5 DEF Marked
<1>7. Progress'
  <2>1. apc \in AtMetric \cup AtLabel => item \in DOMAIN heap
    BY DEF StoreInv, Typed, WorkTyped
  <2>2. apc \in {"add_metric", "mark"} \cup AtFirstLabel => item \in DOMAIN heap
    BY <2>1 DEF AtMetric, AtLabel, AtFirstLabel
  <2>3. apc \in {"add_metric", "mark"} \cup AtFirstLabel =>
          /\ heap'[item].name = heap[item].name /\ heap'[item].alive = heap[item].alive
          /\ heap'[item].value = heap[item].value
          /\ Shown(heap[item]) => Shown(heap'[item])
          /\ Bare(heap[item]) => Bare(heap'[item])
    BY <1>3, <2>2 DEF SameContent
  <2>4. UNCHANGED <<metrics, apc, datagram, item, created>>
    BY <1>1 DEF workVars
  <2> QED BY <1>2, <2>3, <2>4 DEF Progress
<1> QED BY <1>4, <1>6, <1>7 DEF RecordInv

LEMMA RecordQuiet ==
    ASSUME RecordInv, UNCHANGED <<storeVars, workVars>>
    PROVE  RecordInv'
<1>1. UNCHANGED <<heap, metrics, apc, datagram, item, created>>
  BY DEF storeVars, workVars
<1>2. \A p \in DOMAIN heap : InCreation(p) => InCreation(p)'
  BY <1>1 DEF InCreation
<1>3. NamesOwn' /\ Marked'
  BY <1>2, MarksStay DEF RecordInv
<1>4. Progress'
  BY <1>1 DEF RecordInv, Progress
<1> QED BY <1>3, <1>4 DEF RecordInv

LEMMA RecordUndefined ==
    ASSUME RecordInv, Undefined
    PROVE  RecordInv'
<1>1. UNCHANGED <<storeVars, heap, metrics, datagram, item, created>> /\ apc' = "undefined"
  BY DEF Undefined, storeVars
<1>2. \A p \in DOMAIN heap : InCreation(p) => InCreation(p)'
  BY <1>1 DEF InCreation, AtCreation
<1>3. NamesOwn' /\ Marked'
  BY <1>1, <1>2, MarksStay DEF RecordInv
<1>4. Progress'
  BY <1>1 DEF Progress, AtUnmarked, AtFirstLabel
<1> QED BY <1>3, <1>4 DEF RecordInv

(* The name space and what a fetch saw of it. *)

\* A complete name space names mapped metrics, and every one of them not freed.
SpaceInv ==
    /\ \A entry \in pcp_pmns \cup fetched :
         \E o \in DOMAIN heap : heap[o].pmid # 0 /\ entry = <<heap[o].pmid, heap[o].name>>
    /\ \A o \in DOMAIN heap : heap[o].pmid # 0 =>
         \/ <<heap[o].pmid, heap[o].name>> \in pcp_pmns
         \/ ppc \in {"map", "undefined"} /\ heap[o].name \in toMap
         \/ ~heap[o].alive

\* A change of the name space is reported, and there was one before any fetch.
ReportInv ==
    /\ ppc \in {"map", "serve", "answer"} \/ data_generation # -1 \/ has_fetched => has_pmns
    /\ has_fetched => IF ppc = "map" THEN notify ELSE fetched = pcp_pmns \/ notify

LEMMA SpaceAggregator ==
    ASSUME StoreInv, SpaceInv, AggregatorNext
    PROVE  SpaceInv'
<1>1. IdentitiesKept /\ UNCHANGED pcpVars
  BY AggregatorTypes DEF StoreInv, Typed
<1>2. /\ DOMAIN heap \subseteq DOMAIN heap'
      /\ \A o \in DOMAIN heap : /\ heap'[o].pmid = heap[o].pmid /\ heap'[o].name = heap[o].name
                                /\ heap'[o].alive => heap[o].alive
      /\ \A o \in DOMAIN heap' \ DOMAIN heap : heap'[o].pmid = 0
      /\ UNCHANGED <<pcp_pmns, fetched, ppc, toMap>>
  BY <1>1 DEF IdentitiesKept, SameIdentity, pcpVars, spaceVars
<1> QED BY <1>2 DEF SpaceInv

LEMMA SpaceMap ==
    ASSUME StoreInv, RecordInv, SpaceInv, NEW n \in toMap, ppc = "map", MapMetric(n)
    PROVE  SpaceInv'
<1> DEFINE o == metrics[n]
           new == <<PmidFor(o), heap[o].name>>
<1>1. /\ n \in DOMAIN metrics /\ o \in DOMAIN heap /\ DOMAIN heap' = DOMAIN heap
      /\ \A p \in DOMAIN heap : p # o => heap'[p] = heap[p]
      /\ heap'[o].name = heap[o].name /\ heap'[o].pmid = PmidFor(o) /\ PmidFor(o) # 0
      /\ heap[o].pmid # 0 => PmidFor(o) = heap[o].pmid
      /\ toMap' = toMap \ {n} /\ pcp_pmns' = pcp_pmns \cup {new}
      /\ UNCHANGED <<metrics, ppc, fetched>>
  BY MapContent DEF SameContent
<1>2. heap[o].name = n
  BY <1>1 DEF RecordInv, NamesOwn
<1>3. ASSUME NEW p \in DOMAIN heap
      PROVE  /\ heap'[p].name = heap[p].name
             /\ heap[p].pmid # 0 => heap'[p].pmid = heap[p].pmid
  BY <1>1
<1>4. ASSUME NEW entry \in pcp_pmns' \cup fetched'
      PROVE  \E p \in DOMAIN heap' : heap'[p].pmid # 0 /\ entry = <<heap'[p].pmid, heap'[p].name>>
  <2>1. CASE entry = new
    BY <1>1, <2>1
  <2>2. CASE entry # new
    <3>1. PICK p \in DOMAIN heap : heap[p].pmid # 0 /\ entry = <<heap[p].pmid, heap[p].name>>
      BY <1>1, <2>2 DEF SpaceInv
    <3> QED BY <1>1, <1>3, <3>1
  <2> QED BY <2>1, <2>2
<1>5. ASSUME NEW p \in DOMAIN heap', heap'[p].pmid # 0
      PROVE  \/ <<heap'[p].pmid, heap'[p].name>> \in pcp_pmns'
             \/ ppc' = "map" /\ heap'[p].name \in toMap'
             \/ ~heap'[p].alive
  <2>1. CASE p = o
    BY <1>1, <2>1
  <2>2. CASE p # o
    <3>1. heap'[p] = heap[p] /\ p \in DOMAIN heap /\ heap[p].pmid # 0
      BY <1>1, <1>5, <2>2
    <3>2. heap[p].alive => metrics[heap[p].name] = p
      BY <3>1 DEF RecordInv, Marked, MarkedAt, InTable
    <3>3. heap[p].alive => heap[p].name # n
      BY <2>2, <3>2
    <3> QED BY <1>1, <3>1, <3>3 DEF SpaceInv
  <2> QED BY <2>1, <2>2
<1> QED BY <1>4, <1>5 DEF SpaceInv

LEMMA SpaceQuiet ==
    ASSUME StoreInv, RecordInv, SpaceInv, PcpQuiet
    PROVE  SpaceInv'
<1>1. UNCHANGED heap
  BY PcpQuietTypes DEF StoreInv, storeVars
<1>3. CASE PossibleReload \/ ServeOther \/ LabelInstance \/ AnswerInstance
  BY <1>1, <1>3 DEF PossibleReload, ServeOther, LabelInstance, AnswerInstance, SpaceInv, spaceVars
<1>4. CASE BeginMap
  <2>1. \A o \in DOMAIN heap : heap[o].pmid # 0 =>
          heap[o].name \in DOMAIN metrics \/ ~heap[o].alive
    BY DEF RecordInv, Marked, MarkedAt, InTable
  <2> QED BY <1>1, <1>4, <2>1 DEF BeginMap, SpaceInv
<1>5. CASE SkipMetric
  <2>1. PICK n \in toMap : ~heap[metrics[n]].pernament /\ toMap' = toMap \ {n}
    BY <1>5 DEF SkipMetric
  <2>2. UNCHANGED <<pcp_pmns, fetched, ppc>>
    BY <1>5 DEF SkipMetric, spaceVars
  <2>3. ASSUME NEW o \in DOMAIN heap, heap[o].pmid # 0
        PROVE  heap[o].name # n \/ ~heap[o].alive
    BY <2>1, <2>3 DEF RecordInv, Marked, MarkedAt, InTable
  <2> QED BY <1>1, <2>1, <2>2, <2>3 DEF SpaceInv
<1>6. CASE EndMap
  BY <1>1, <1>6 DEF EndMap, SpaceInv, spaceVars
<1>7. CASE ServeFetch \/ FetchInstance
  <2>1. /\ UNCHANGED pcp_pmns /\ fetched' \in {fetched, pcp_pmns}
        /\ ppc = "serve" /\ ppc' # "map"
    BY <1>7 DEF ServeFetch, FetchInstance, ReportChange, spaceVars
  <2> QED BY <1>1, <2>1 DEF SpaceInv
<1> QED BY <1>3, <1>4, <1>5, <1>6, <1>7 DEF PcpQuiet

LEMMA ReportNext ==
    ASSUME StoreInv, ReportInv, [Next]_vars
    PROVE  ReportInv'
<1>1. generation \in Nat /\ notify \in BOOLEAN /\ has_pmns \in BOOLEAN /\ has_fetched \in BOOLEAN
  BY DEF StoreInv, Typed, WorkTyped, RequestTyped
<1>2. CASE AggregatorNext \/ UNCHANGED vars
  <2>1. UNCHANGED pcpVars
    BY <1>2, AggregatorTypes DEF StoreInv, Typed, vars
  <2> QED BY <2>1 DEF ReportInv, pcpVars, spaceVars
<1>3. ASSUME NEW n \in toMap, ppc = "map", MapMetric(n) PROVE ReportInv'
  <2>1. UNCHANGED <<ppc, data_generation, has_pmns, notify, has_fetched>>
    BY <1>3 DEF MapMetric
  <2> QED BY <1>3, <2>1 DEF ReportInv
<1>4. CASE PossibleReload
  BY <1>1, <1>4 DEF PossibleReload, ReportInv, spaceVars
<1>5. CASE BeginMap
  BY <1>1, <1>5 DEF BeginMap, ReportInv
<1>6. CASE SkipMetric \/ EndMap
  BY <1>6 DEF SkipMetric, EndMap, ReportInv, spaceVars
<1>7. CASE ServeFetch \/ FetchInstance
  <2>1. /\ ReportChange /\ ppc = "serve" /\ ppc' \in {"idle", "answer"}
        /\ UNCHANGED data_generation
    BY <1>7 DEF ServeFetch, FetchInstance
  <2> QED BY <1>1, <2>1 DEF ReportChange, ReportInv, spaceVars
<1>8. CASE ServeOther \/ LabelInstance \/ AnswerInstance
  BY <1>8 DEF ServeOther, LabelInstance, AnswerInstance, ReportInv, spaceVars
<1>9. CASE Undefined
  BY <1>9 DEF Undefined, ReportInv, spaceVars
<1> QED BY <1>2, <1>3, <1>4, <1>5, <1>6, <1>7, <1>8, <1>9
        DEF Next, PcpNext, FreeUnwritten, ReadMissing, StayUndefined

(* The theorems on names *)

NamesInv == StoreInv /\ RecordInv /\ SpaceInv

LEMMA NamesInvInit == Init => NamesInv
<1> SUFFICES ASSUME Init PROVE NamesInv
  OBVIOUS
<1>1. StoreInv
  BY StoreInvInit
<1>2. RecordInv
  BY DEF Init, RecordInv, NamesOwn, Marked, Progress, AtUnmarked, AtFirstLabel
<1>3. SpaceInv
  BY DEF Init, SpaceInv
<1> QED BY <1>1, <1>2, <1>3 DEF NamesInv

LEMMA NamesInvNext == ASSUME NamesInv, [Next]_vars PROVE NamesInv'
<1>1. StoreInv'
  BY StoreInvNext DEF NamesInv
<1>2. CASE AggregatorNext
  BY <1>1, <1>2, RecordAggregator, SpaceAggregator DEF NamesInv
<1>3. ASSUME NEW n \in toMap, ppc = "map", MapMetric(n) PROVE NamesInv'
  BY <1>1, <1>3, RecordMap, SpaceMap DEF NamesInv
<1>4. CASE PcpQuiet
  <2>1. UNCHANGED <<storeVars, workVars>>
    BY <1>4, PcpQuietTypes DEF NamesInv, StoreInv
  <2> QED BY <1>1, <1>4, <2>1, RecordQuiet, SpaceQuiet DEF NamesInv
<1>5. CASE UNCHANGED vars
  <2>1. UNCHANGED <<storeVars, workVars, pcpVars>>
    BY <1>5 DEF vars
  <2>2. SpaceInv'
    BY <2>1 DEF NamesInv, SpaceInv, storeVars, pcpVars, spaceVars
  <2> QED BY <1>1, <2>1, <2>2, RecordQuiet DEF NamesInv
<1>6. CASE Undefined
  <2>1. SpaceInv'
    BY <1>6 DEF Undefined, NamesInv, StoreInv, Typed, TableTyped, SpaceInv, storeVars, spaceVars
  <2> QED BY <1>1, <1>6, <2>1, RecordUndefined DEF NamesInv
<1> QED BY <1>2, <1>3, <1>4, <1>5, <1>6
        DEF Next, PcpNext, PcpQuiet, FreeUnwritten, ReadMissing, StayUndefined

LEMMA NamesInvHolds == Spec => []NamesInv
<1>1. NamesInv /\ [Next]_vars => NamesInv'
  BY NamesInvNext
<1> QED BY <1>1, NamesInvInit, PTL DEF Spec

\* What map_metric exposes is in the hashtable under its name with a value or a
\* label, whatever malloc hands out and however reloads and datagrams interleave;
\* the one way around is a mark that malloc had left in a metric, and then only
\* until its first label is added, or after it was freed for want of one.
THEOREM MappedIsRecordedCorrect == Spec => []MappedIsRecorded
<1>1. ASSUME NamesInv, NEW o \in DOMAIN heap, heap[o].pmid # 0
      PROVE  \/ /\ heap[o].name \in DOMAIN metrics /\ metrics[heap[o].name] = o
                /\ heap[o].value \/ heap[o].children # {}
             \/ /\ heap[o].leftover
                /\ \/ ~heap[o].alive
                   \/ apc \in AtFirstLabel \cup {"undefined"} /\ created /\ item = o
  <2>1. MarkedAt(o) /\ Progress
    BY <1>1 DEF NamesInv, RecordInv, Marked
  <2>2. Settled(o) \/ heap[o].leftover
    BY <1>1, <2>1 DEF MarkedAt
  <2>3. CASE Settled(o)
    BY <2>3 DEF Settled, InTable, Shown
  <2>4. CASE ~Settled(o) /\ heap[o].alive
    <3>1. InCreation(o) /\ InTable(o) /\ ~Shown(heap[o])
      BY <1>1, <2>1, <2>4 DEF MarkedAt, Settled
    <3>2. apc # "mark" /\ apc # "add_metric"
      BY <2>1, <3>1 DEF Progress, InCreation, InTable
    <3> QED BY <2>2, <2>4, <3>1, <3>2 DEF InCreation, AtCreation, AtUnmarked
  <2> QED BY <2>2, <2>3, <2>4
<1>2. NamesInv => MappedIsRecorded
  BY <1>1 DEF MappedIsRecorded
<1> QED BY <1>2, NamesInvHolds, PTL

\* No name a fetch saw in the name space is missing in a later one, or has another
\* pmid there, although statsd_map_stats builds the name space anew each time: but
\* for a metric that was mapped for the mark malloc had left in it and then freed.
THEOREM NamespaceGrowsCorrect == Spec => NamespaceGrows
<1> DEFINE Gone(entry) == \E o \in DOMAIN heap : /\ entry = <<heap[o].pmid, heap[o].name>>
                                                 /\ heap[o].leftover /\ ~heap[o].alive
           Grows == /\ \A entry \in fetched \ fetched' : Gone(entry)
                    /\ \A o \in DOMAIN heap : heap[o].pmid # 0 => heap'[o].pmid = heap[o].pmid
<1>1. ASSUME NamesInv, [Next]_vars PROVE [Grows]_vars
  <2>1. CASE AggregatorNext
    <3>1. IdentitiesKept /\ UNCHANGED pcpVars
      BY <1>1, <2>1, AggregatorTypes DEF NamesInv, StoreInv, Typed
    <3>2. UNCHANGED fetched
      BY <3>1 DEF pcpVars, spaceVars
    <3> QED BY <3>1, <3>2 DEF IdentitiesKept, SameIdentity
  <2>2. ASSUME NEW n \in toMap, MapMetric(n) PROVE Grows
    <3>1. /\ UNCHANGED fetched /\ DOMAIN heap' = DOMAIN heap
          /\ \A p \in DOMAIN heap : heap[p].pmid # 0 => heap'[p].pmid = heap[p].pmid
      BY <1>1, <2>2, MapContent DEF NamesInv
    <3> QED BY <3>1
  <2>3. CASE PcpQuiet
    <3>1. UNCHANGED heap
      BY <1>1, <2>3, PcpQuietTypes DEF NamesInv, StoreInv, storeVars
    <3>2. UNCHANGED fetched \/ (ppc = "serve" /\ fetched' = pcp_pmns)
      BY <2>3 DEF PcpQuiet, PossibleReload, BeginMap, SkipMetric, EndMap, ServeFetch, ServeOther,
                  FetchInstance, LabelInstance, AnswerInstance, ReportChange, spaceVars
    <3>3. ASSUME ppc = "serve", NEW entry \in fetched, entry \notin pcp_pmns PROVE Gone(entry)
      <4>1. PICK o \in DOMAIN heap : heap[o].pmid # 0 /\ entry = <<heap[o].pmid, heap[o].name>>
        BY <1>1, <3>3 DEF NamesInv, SpaceInv
      <4>2. ~heap[o].alive
        BY <1>1, <3>3, <4>1 DEF NamesInv, SpaceInv
      <4>3. heap[o].leftover
        BY <1>1, <4>1, <4>2 DEF NamesInv, RecordInv, Marked, MarkedAt, Settled, Shown, Bare
      <4> QED BY <4>1, <4>2, <4>3
    <3> HIDE DEF Gone
    <3> QED BY <3>1, <3>2, <3>3
  <2>4. CASE Undefined
    BY <2>4 DEF Undefined, storeVars, spaceVars
  <2> QED BY <1>1, <2>1, <2>2, <2>3, <2>4
          DEF Next, PcpNext, PcpQuiet, FreeUnwritten, ReadMissing, StayUndefined
<1> HIDE DEF Grows
<1>2. NamesInv /\ [Next]_vars => [Grows]_vars
  BY <1>1
<1>3. Spec => [][Grows]_vars
  BY <1>2, NamesInvHolds, PTL DEF Spec
<1> QED BY <1>3 DEF Grows, NamespaceGrows

\* Whatever malloc hands out, statsd_fetch tells pmcd of every change of the name
\* space made since the fetch before it.
THEOREM NamesReportedCorrect == Spec => []NamesReported
<1>1. Init => StoreInv /\ ReportInv
  BY StoreInvInit DEF Init, ReportInv
<1>2. StoreInv /\ ReportInv /\ [Next]_vars => (StoreInv /\ ReportInv)'
  BY StoreInvNext, ReportNext
<1>3. StoreInv /\ ReportInv => NamesReported
  BY DEF StoreInv, Typed, RequestTyped, ReportInv, NamesReported
<1> QED BY <1>1, <1>2, <1>3, PTL DEF Spec

(* Labels and the instances that expose them. *)

Exposed(m) ==
    /\ ToSet(m.pcp_instance_map) = m.children
    /\ Len(m.pcp_instance_map) = Cardinality(m.children)

\* A metric's labels are those its instance map holds, or a change is requested.
LabelsKnown ==
    \A o \in DOMAIN heap :
        /\ ToSet(heap[o].pcp_instance_map) \subseteq heap[o].children
        /\ heap[o].pmindom = 0 => heap[o].pcp_instance_map = <<>>
        /\ heap[o].pcp_instance_change_requested => heap[o].has_children
        /\ ~heap[o].pcp_instance_change_requested => Exposed(heap[o])

\* A requested change is behind the last reload and ahead of the running one.
ChangeDue ==
    /\ data_generation <= generation
    /\ ppc \in {"reload", "map"} => data_generation # generation
    /\ \A o \in DOMAIN heap : heap[o].pmid # 0 /\ heap[o].pcp_instance_change_requested =>
         /\ data_generation # generation
         /\ ppc = "map" => heap[o].name \in toMap

\* The dictionary of labels is there when a label is looked for.
Usable ==
    apc \in {"find_label", "update_label", "create_label", "add_label"} =>
        heap[item].has_children

LabelInv == LabelsKnown /\ ChangeDue /\ Usable

\* An entry of the table is that of the metric it holds.
EntriesOwn ==
    \A s \in DOMAIN pcp_metrics : pcp_metrics[s].item \in DOMAIN heap =>
        /\ heap[pcp_metrics[s].item].pmid # 0
        /\ heap[pcp_metrics[s].item].pcp_metric_index + 1 = s

Root(m) == IF m.value THEN 1 ELSE 0

\* An instance domain has an owner, whose root value and labels it names.
DomainsOwn ==
    /\ \A o \in DOMAIN heap : heap[o].pmid # 0 =>
         IF heap[o].pmindom = 0
         THEN heap[o].value \/ heap[o].leftover
         ELSE /\ instance_map[heap[o].pmindom] = heap[o].name
              /\ Len(pcp_instance_domains[heap[o].pmindom])
                   <= Len(heap[o].pcp_instance_map) + Root(heap[o])
    /\ \A d \in DOMAIN instance_map :
         \E o \in DOMAIN heap : heap[o].pmid # 0 /\ heap[o].pmindom = d

\* The lookup under way is of an instance of a mapped metric.
LookupOwn ==
    ppc = "answer" =>
        /\ lookup.item \in DOMAIN heap
        /\ heap[lookup.item].pmid # 0
        /\ lookup.has_root => heap[lookup.item].value
        /\ lookup.instance \in Nat \ {0}
        /\ IF lookup.indom = 0
           THEN heap[lookup.item].value \/ heap[lookup.item].leftover
           ELSE lookup.instance <= Len(heap[lookup.item].pcp_instance_map)
                                     + (IF lookup.has_root THEN 1 ELSE 0)

InstanceInv == EntriesOwn /\ DomainsOwn /\ LookupOwn

\* What a step of the aggregator makes of a metric m.
Evolves(e, m) ==
    /\ SameIdentity(e, m)
    /\ e.pcp_instance_map = m.pcp_instance_map
    /\ m.value => e.value
    /\ m.children \subseteq e.children
    /\ m.has_children => e.has_children
    /\ \/ /\ e.children = m.children
          /\ e.pcp_instance_change_requested = m.pcp_instance_change_requested
       \/ /\ e.pcp_instance_change_requested
          /\ e.has_children
          /\ generation' = generation + 1
          /\ ppc # "map"

Blank(m) ==
    /\ m.pmid = 0 /\ m.pmindom = 0 /\ m.children = {} /\ m.pcp_instance_map = <<>>
    /\ ~m.pcp_instance_change_requested

LEMMA EvolvesItself == ASSUME NEW m \in Metric PROVE Evolves(m, m)
BY DEF Evolves, SameIdentity

LEMMA EditEvolves ==
    ASSUME NEW m \in Metric,
           NEW e \in {[m EXCEPT !.value = TRUE], [m EXCEPT !.has_children = TRUE],
                      [m EXCEPT !.alive = FALSE], [m EXCEPT !.pernament = TRUE]}
    PROVE  Evolves(e, m)
<1>1. /\ SameIdentity(e, m) /\ e.pcp_instance_map = m.pcp_instance_map
      /\ e.children = m.children
      /\ e.pcp_instance_change_requested = m.pcp_instance_change_requested
  BY DEF Metric, SameIdentity
<1>2. (m.value => e.value) /\ (m.has_children => e.has_children)
  BY DEF Metric
<1> QED BY <1>1, <1>2 DEF Evolves

LEMMA AggregatorEvolves ==
    ASSUME StoreInv, Usable, AggregatorNext
    PROVE  /\ \A o \in DOMAIN heap : o \in DOMAIN heap' /\ Evolves(heap'[o], heap[o])
           /\ \A o \in DOMAIN heap' \ DOMAIN heap : Blank(heap'[o])
           /\ generation' \in {generation, generation + 1}
<1> USE DEF Goto, Answer
<1>0. /\ heap \in Seq(Metric) /\ HeapTyped
      /\ \A o \in DOMAIN heap : heap[o] \in Metric /\ Evolves(heap[o], heap[o])
      /\ apc \in AtMetric \cup AtLabel => item \in DOMAIN heap
  BY EvolvesItself DEF StoreInv, Typed, HeapTyped, WorkTyped
<1>1. CASE UNCHANGED heap /\ generation' \in {generation, generation + 1}
  BY <1>0, <1>1
<1>2. ASSUME NEW e \in Metric, item \in DOMAIN heap, heap' = [heap EXCEPT ![item] = e],
             Evolves(e, heap[item])
      PROVE  \A o \in DOMAIN heap : o \in DOMAIN heap' /\ Evolves(heap'[o], heap[o])
             /\ DOMAIN heap' = DOMAIN heap
  <2>1. /\ DOMAIN heap' = DOMAIN heap /\ heap'[item] = e
        /\ \A p \in DOMAIN heap : p # item => heap'[p] = heap[p]
    BY <1>0, <1>2, HeapChange
  <2> SUFFICES ASSUME NEW o \in DOMAIN heap PROVE Evolves(heap'[o], heap[o])
    BY <2>1
  <2>2. CASE o = item
    BY <1>2, <2>1, <2>2
  <2>3. CASE o # item
    <3>1. heap'[o] = heap[o]
      BY <2>1, <2>3
    <3> QED BY <1>0, <3>1
  <2> QED BY <2>2, <2>3
<1>3. CASE UpdateRoot
  <2>1. item \in DOMAIN heap /\ UNCHANGED generation
    BY <1>0, <1>3 DEF UpdateRoot, AtMetric
  <2>2. CASE UNCHANGED heap
    BY <1>1, <2>1, <2>2
  <2>3. CASE heap' = [heap EXCEPT ![item].value = TRUE]
    <3> DEFINE e == [heap[item] EXCEPT !.value = TRUE]
    <3>1. heap' = [heap EXCEPT ![item] = e]
      BY <2>3
    <3>2. e \in Metric
      BY <1>0, <2>1 DEF Metric
    <3>3. Evolves(e, heap[item])
      BY <1>0, <2>1, EditEvolves
    <3> QED BY <1>2, <2>1, <3>1, <3>2, <3>3
  <2> QED BY <1>3, <2>2, <2>3 DEF UpdateRoot
<1>4. CASE CreateLabelsDict
  <2>1. item \in DOMAIN heap /\ UNCHANGED generation
    BY <1>0, <1>4 DEF CreateLabelsDict, AtLabel
  <2> DEFINE e == [heap[item] EXCEPT !.has_children = TRUE]
  <2>2. heap' = [heap EXCEPT ![item] = e]
    BY <1>4 DEF CreateLabelsDict
  <2>3. e \in Metric
    BY <1>0, <2>1 DEF Metric
  <2>4. Evolves(e, heap[item])
    BY <1>0, <2>1, EditEvolves
  <2> QED BY <1>2, <2>1, <2>2, <2>3, <2>4
<1>5. CASE RemoveMetric
  <2>1. item \in DOMAIN heap /\ generation' = generation + 1
    BY <1>0, <1>5 DEF RemoveMetric, AtLabel
  <2> DEFINE e == [heap[item] EXCEPT !.alive = FALSE]
  <2>2. heap' = [heap EXCEPT ![item] = e]
    BY <1>5 DEF RemoveMetric
  <2>3. e \in Metric
    BY <1>0, <2>1 DEF Metric
  <2>4. Evolves(e, heap[item])
    BY <1>0, <2>1, EditEvolves
  <2> QED BY <1>2, <2>1, <2>2, <2>3, <2>4
<1>6. CASE MarkPernament
  <2>1. item \in DOMAIN heap /\ UNCHANGED generation
    BY <1>0, <1>6 DEF MarkPernament, AtMetric
  <2> DEFINE e == [heap[item] EXCEPT !.pernament = TRUE]
  <2>2. heap' = [heap EXCEPT ![item] = e]
    BY <1>6 DEF MarkPernament
  <2>3. e \in Metric
    BY <1>0, <2>1 DEF Metric
  <2>4. Evolves(e, heap[item])
    BY <1>0, <2>1, EditEvolves
  <2> QED BY <1>2, <2>1, <2>2, <2>3, <2>4
<1>7. CASE AddLabel
  <2>1. /\ item \in DOMAIN heap /\ generation' = generation + 1 /\ ppc # "map"
        /\ heap[item].has_children
    BY <1>0, <1>7 DEF AddLabel, AtLabel, Unlocked, Usable
  <2>2. datagram.tags \in Tags
    BY <1>7 DEF AddLabel, AtLabel, StoreInv, Typed, WorkTyped
  <2> DEFINE m == heap[item]
             e == [m EXCEPT !.children = @ \cup {datagram.tags},
                            !.pcp_instance_change_requested = TRUE]
  <2>3. heap' = [heap EXCEPT ![item] = e]
    BY <1>7 DEF AddLabel
  <2>4. m \in Metric
    BY <1>0, <2>1
  <2> HIDE DEF m
  <2>5. e \in Metric /\ SameIdentity(e, m) /\ e.pcp_instance_map = m.pcp_instance_map
        /\ m.children \subseteq e.children /\ e.pcp_instance_change_requested
    BY <2>2, <2>4 DEF Metric, SameIdentity
  <2>6. e.value = m.value /\ e.has_children = m.has_children
    BY <2>4 DEF Metric
  <2> HIDE DEF e
  <2>7. Evolves(e, heap[item])
    BY <2>1, <2>5, <2>6 DEF Evolves, m
  <2> QED BY <1>2, <2>1, <2>3, <2>5, <2>7
<1>8. CASE CreateMetric
  <2>1. PICK pernament \in FreshPernament :
          heap' = Append(heap, NewMetric(datagram, datagram.tags = NoTags, pernament))
    BY <1>8 DEF CreateMetric
  <2>2. datagram \in Datagram /\ pernament \in BOOLEAN
    BY <1>8, StoreAssumption DEF CreateMetric, StoreInv, Typed, WorkTyped, StoreAssumption
  <2> DEFINE m == NewMetric(datagram, datagram.tags = NoTags, pernament)
  <2>3. m \in Metric
    BY <2>2 DEF NewMetric, Metric, Datagram
  <2>4. Blank(m)
    BY DEF NewMetric, Blank
  <2>5. heap' = Append(heap, m)
    BY <2>1
  <2> HIDE DEF m
  <2>6. /\ DOMAIN heap' = DOMAIN heap \cup {Len(heap) + 1} /\ heap'[Len(heap) + 1] = m
        /\ \A p \in DOMAIN heap : heap'[p] = heap[p]
    BY <1>0, <2>3, <2>5, HeapGrows
  <2>7. UNCHANGED generation
    BY <1>8 DEF CreateMetric
  <2> QED BY <1>0, <2>4, <2>6, <2>7
<1>9. CASE ReceiveDatagram \/ FindMetric \/ FindNoMetric \/ CreateMetricFails \/ AddMetric
             \/ FindLabel \/ UpdateLabel \/ CreateLabel
  <2>1. UNCHANGED heap /\ generation' \in {generation, generation + 1}
    BY <1>9 DEF ReceiveDatagram, FindMetric, FindNoMetric, CreateMetricFails, AddMetric,
                FindLabel, UpdateLabel, CreateLabel, storeVars
  <2> QED BY <1>1, <2>1
<1> QED BY <1>3, <1>4, <1>5, <1>6, <1>7, <1>8, <1>9 DEF AggregatorNext

\* The aggregator's own part.
LEMMA UsableAggregator ==
    ASSUME StoreInv, Usable, AggregatorNext
    PROVE  Usable'
<1> USE DEF Goto, Answer
<1> DEFINE AtDict == {"find_label", "update_label", "create_label", "add_label"}
<1>0. /\ HeapTyped
      /\ \A n \in DOMAIN metrics : metrics[n] \in DOMAIN heap
      /\ apc \in AtLabel => item \in DOMAIN heap /\ heap[item] \in Metric
      /\ apc \in AtDict => heap[item].has_children
  BY DEF StoreInv, Typed, TableTyped, WorkTyped, HeapTyped, Usable
<1>1. CASE FindMetric
  BY <1>0, <1>1 DEF FindMetric, storeVars, Usable
<1>2. CASE FindLabel \/ UpdateLabel \/ CreateLabel
  BY <1>0, <1>2 DEF FindLabel, UpdateLabel, CreateLabel, storeVars, Usable
<1>3. CASE CreateLabelsDict
  <2>1. item \in DOMAIN heap /\ heap[item] \in Metric /\ UNCHANGED item
    BY <1>0, <1>3 DEF CreateLabelsDict, AtLabel
  <2> DEFINE e == [heap[item] EXCEPT !.has_children = TRUE]
  <2>2. heap' = [heap EXCEPT ![item] = e] /\ e \in Edits(heap[item])
    BY <1>3 DEF CreateLabelsDict, Edits
  <2>3. e.has_children
    BY <2>1 DEF Metric
  <2> HIDE DEF e
  <2>4. heap'[item] = e
    BY <1>0, <2>1, <2>2, EditContent
  <2> QED BY <2>1, <2>3, <2>4 DEF Usable
<1>4. CASE ReceiveDatagram \/ FindNoMetric \/ CreateMetric \/ CreateMetricFails \/ AddMetric
             \/ UpdateRoot \/ AddLabel \/ RemoveMetric \/ MarkPernament
  <2>1. apc' \notin AtDict
    BY <1>4 DEF ReceiveDatagram, FindNoMetric, CreateMetric, CreateMetricFails, AddMetric,
                UpdateRoot, AddLabel, RemoveMetric, MarkPernament
  <2> QED BY <2>1 DEF Usable
<1> QED BY <1>1, <1>2, <1>3, <1>4 DEF AggregatorNext

LEMMA LabelAggregator ==
    ASSUME StoreInv, RecordInv, LabelInv, AggregatorNext
    PROVE  LabelInv'
<1>1. /\ \A o \in DOMAIN heap : o \in DOMAIN heap' /\ Evolves(heap'[o], heap[o])
      /\ \A o \in DOMAIN heap' \ DOMAIN heap : Blank(heap'[o])
      /\ generation' \in {generation, generation + 1}
  BY AggregatorEvolves DEF LabelInv
<1>2. Usable'
  BY UsableAggregator DEF LabelInv
<1>3. UNCHANGED <<ppc, toMap, data_generation>>
  BY AggregatorTypes DEF StoreInv, Typed, pcpVars
<1>4. generation \in Nat /\ data_generation \in Nat \cup {-1} /\ data_generation <= generation
  BY DEF StoreInv, Typed, WorkTyped, RequestTyped, LabelInv, ChangeDue
<1>5. LabelsKnown'
  <2> SUFFICES ASSUME NEW o \in DOMAIN heap'
               PROVE  /\ ToSet(heap'[o].pcp_instance_map) \subseteq heap'[o].children
                      /\ heap'[o].pmindom = 0 => heap'[o].pcp_instance_map = <<>>
                      /\ heap'[o].pcp_instance_change_requested => heap'[o].has_children
                      /\ ~heap'[o].pcp_instance_change_requested => Exposed(heap'[o])
    BY DEF LabelsKnown
  <2>1. CASE o \in DOMAIN heap
    <3>1. Evolves(heap'[o], heap[o])
      BY <1>1, <2>1
    <3>2. /\ ToSet(heap[o].pcp_instance_map) \subseteq heap[o].children
          /\ heap[o].pmindom = 0 => heap[o].pcp_instance_map = <<>>
          /\ heap[o].pcp_instance_change_requested => heap[o].has_children
          /\ ~heap[o].pcp_instance_change_requested => Exposed(heap[o])
      BY <2>1 DEF LabelInv, LabelsKnown
    <3> QED BY <3>1, <3>2 DEF Evolves, SameIdentity, Exposed
  <2>2. CASE o \notin DOMAIN heap
    <3>1. Blank(heap'[o])
      BY <1>1, <2>2
    <3>2. ToSet(<<>>) = {} /\ Len(<<>>) = 0 /\ Cardinality({}) = 0
      BY FS_EmptySet DEF ToSet
    <3> QED BY <3>1, <3>2 DEF Blank, Exposed
  <2> QED BY <2>1, <2>2
<1>6. ChangeDue'
  <2>1. data_generation' <= generation' /\ (data_generation # generation => data_generation' # generation')
    BY <1>1, <1>3, <1>4
  <2>2. ASSUME NEW o \in DOMAIN heap', heap'[o].pmid # 0, heap'[o].pcp_instance_change_requested
        PROVE  data_generation' # generation' /\ (ppc' = "map" => heap'[o].name \in toMap')
    <3>1. o \in DOMAIN heap /\ Evolves(heap'[o], heap[o])
      BY <1>1, <2>2 DEF Blank
    <3>2. heap[o].pmid # 0 /\ heap'[o].name = heap[o].name
      BY <2>2, <3>1 DEF Evolves, SameIdentity
    <3>3. CASE heap'[o].pcp_instance_change_requested = heap[o].pcp_instance_change_requested
      BY <1>3, <2>1, <2>2, <3>1, <3>2, <3>3 DEF LabelInv, ChangeDue
    <3>4. CASE generation' = generation + 1 /\ ppc # "map"
      BY <1>3, <1>4, <3>4
    <3> QED BY <3>1, <3>3, <3>4 DEF Evolves
  <2>3. ppc' \in {"reload", "map"} => data_generation' # generation'
    BY <1>3, <2>1 DEF LabelInv, ChangeDue
  <2> QED BY <2>1, <2>2, <2>3 DEF ChangeDue
<1> QED BY <1>2, <1>5, <1>6 DEF LabelInv

\* An order of the labels names each of them once.
LEMMA OrderExposes ==
    ASSUME NEW S, IsFiniteSet(S), NEW order \in SetToSeqs(S)
    PROVE  ToSet(order) = S /\ Len(order) = Cardinality(S)
<1> DEFINE n == Cardinality(S)
<1>1. n \in Nat
  BY FS_CardinalityType
<1>2. order \in [1..n -> S] /\ \A i, j \in 1..n : i # j => order[i] # order[j]
  BY DEF SetToSeqs
<1> HIDE DEF n
<1>3. order \in Seq(S) /\ Len(order) = n /\ DOMAIN order = 1..n
  BY <1>1, <1>2, SeqOfFunction
<1>4. IsFiniteSet(1..n) /\ Cardinality(1..n) = n
  BY <1>1, FS_Interval
<1>5. order \in Injection(1..n, S)
  BY <1>2 DEF Injection, IsInjective
<1>6. order \in Surjection(1..n, S)
  <2>1. Cardinality(1..n) = Cardinality(S)
    BY <1>4 DEF n
  <2> QED BY <1>5, <2>1, FS_Injection
<1>7. ToSet(order) = S
  BY <1>2, <1>3, <1>6 DEF ToSet, Surjection
<1> QED BY <1>3, <1>7 DEF n

LEMMA LabelMap ==
    ASSUME StoreInv, RecordInv, LabelInv, NEW n \in toMap, ppc = "map", MapMetric(n)
    PROVE  LabelInv'
<1> DEFINE o == metrics[n]
<1>1. /\ n \in DOMAIN metrics /\ o \in DOMAIN heap /\ DOMAIN heap' = DOMAIN heap
      /\ \A p \in DOMAIN heap : p # o => heap'[p] = heap[p]
      /\ SameContent(heap'[o], heap[o]) /\ toMap' = toMap \ {n}
      /\ UNCHANGED <<metrics, workVars, ppc>>
  BY MapContent
<1>2. MappedEntry(o) /\ HeapTyped'
  BY MapChangesEntry
<1>3. UNCHANGED <<data_generation, generation>>
  BY DEF MapMetric
<1>4. heap[o].name = n
  BY <1>1 DEF RecordInv, NamesOwn
<1> HIDE DEF o
<1>5. heap[o].children \in SUBSET Tags /\ IsFiniteSet(heap[o].children)
  <2>1. heap[o] \in Metric /\ IsFiniteSet(heap[o].children)
    BY <1>1 DEF StoreInv, Typed, HeapTyped
  <2> QED BY <2>1 DEF Metric
<1>6. /\ ToSet(heap'[o].pcp_instance_map) \subseteq heap'[o].children
      /\ heap'[o].pmindom = 0 => heap'[o].pcp_instance_map = <<>>
      /\ ~heap'[o].pcp_instance_change_requested
      /\ Exposed(heap'[o])
  <2>1. /\ ToSet(heap[o].pcp_instance_map) \subseteq heap[o].children
        /\ heap[o].pmindom = 0 => heap[o].pcp_instance_map = <<>>
        /\ heap[o].pcp_instance_change_requested => heap[o].has_children
        /\ ~heap[o].pcp_instance_change_requested => Exposed(heap[o])
    BY <1>1 DEF LabelInv, LabelsKnown
  <2>2. heap'[o].children = heap[o].children
    BY <1>1 DEF SameContent
  <2>3. CASE DomainKept(o)
    BY <2>1, <2>2, <2>3 DEF DomainKept, Exposed
  <2>4. CASE DomainSet(o)
    <3>1. heap'[o].pcp_instance_map \in SetToSeqs(heap[o].children)
          /\ ~heap'[o].pcp_instance_change_requested
      BY <2>4 DEF DomainSet
    <3>2. Exposed(heap'[o])
      BY <1>5, <2>2, <3>1, OrderExposes DEF Exposed
    <3>3. heap'[o].pmindom # 0
      <4>1. Len(pcp_instance_domains) \in Nat
        BY DEF StoreInv, Typed, TablesTyped
      <4> QED BY <2>4, <4>1 DEF DomainSet, DomainFor
    <3> QED BY <3>1, <3>2, <3>3 DEF Exposed
  <2> QED BY <1>2, <2>3, <2>4 DEF MappedEntry
<1>7. LabelsKnown'
  <2> SUFFICES ASSUME NEW p \in DOMAIN heap
               PROVE  /\ ToSet(heap'[p].pcp_instance_map) \subseteq heap'[p].children
                      /\ heap'[p].pmindom = 0 => heap'[p].pcp_instance_map = <<>>
                      /\ heap'[p].pcp_instance_change_requested => heap'[p].has_children
                      /\ ~heap'[p].pcp_instance_change_requested => Exposed(heap'[p])
    BY <1>1 DEF LabelsKnown
  <2>1. CASE p = o
    BY <1>6, <2>1
  <2>2. CASE p # o
    <3>1. heap'[p] = heap[p]
      BY <1>1, <2>2
    <3> QED BY <3>1 DEF LabelInv, LabelsKnown
  <2> QED BY <2>1, <2>2
<1>8. ChangeDue'
  <2>1. ASSUME NEW p \in DOMAIN heap, heap'[p].pmid # 0, heap'[p].pcp_instance_change_requested
        PROVE  data_generation # generation /\ heap'[p].name \in toMap'
    <3>1. p # o
      BY <1>6, <2>1
    <3>2. heap'[p] = heap[p]
      BY <1>1, <3>1
    <3>3. metrics[heap[p].name] = p
      BY <2>1, <3>2 DEF RecordInv, Marked, MarkedAt, InTable, Bare
    <3>4. heap[p].name # n
      BY <3>1, <3>3 DEF o
    <3> QED BY <1>1, <2>1, <3>2, <3>4 DEF LabelInv, ChangeDue
  <2> QED BY <1>1, <1>3, <2>1 DEF LabelInv, ChangeDue
<1>9. Usable'
  <2>1. apc \in AtMetric \cup AtLabel => item \in DOMAIN heap
    BY DEF StoreInv, Typed, WorkTyped
  <2>2. \A m \in DOMAIN metrics : metrics[m] \in DOMAIN heap
    BY DEF StoreInv, Typed, TableTyped
  <2>3. \A p \in DOMAIN heap : heap'[p].alive = heap[p].alive
                               /\ heap'[p].has_children = heap[p].has_children
    BY <1>1 DEF SameContent
  <2> QED BY <1>1, <2>1, <2>2, <2>3 DEF LabelInv, Usable, workVars, AtMetric, AtLabel
<1> QED BY <1>7, <1>8, <1>9 DEF LabelInv

LEMMA LabelQuiet ==
    ASSUME StoreInv, RecordInv, LabelInv, PcpQuiet
    PROVE  LabelInv'
<1>1. UNCHANGED <<storeVars, workVars>>
  BY PcpQuietTypes DEF StoreInv
<1>2. LabelsKnown' /\ Usable'
  BY <1>1 DEF LabelInv, LabelsKnown, Usable, storeVars, workVars
<1> SUFFICES ChangeDue'
  BY <1>2 DEF LabelInv
<1>3. /\ UNCHANGED <<heap, generation>> /\ data_generation <= generation /\ generation \in Nat
      /\ \A o \in DOMAIN heap : heap[o].pmid # 0 =>
           /\ heap[o].pernament
           /\ heap[o].pcp_instance_change_requested =>
                heap[o].name \in DOMAIN metrics /\ metrics[heap[o].name] = o
  BY <1>1 DEF storeVars, StoreInv, Typed, WorkTyped, LabelInv, ChangeDue, RecordInv, Marked,
              MarkedAt, InTable, Bare
<1>4. CASE PossibleReload
  BY <1>3, <1>4 DEF PossibleReload, LabelInv, ChangeDue
<1>5. CASE BeginMap
  BY <1>3, <1>5 DEF BeginMap, LabelInv, ChangeDue
<1>6. CASE SkipMetric
  <2>1. PICK n \in toMap : ~heap[metrics[n]].pernament /\ toMap' = toMap \ {n}
    BY <1>6 DEF SkipMetric
  <2>2. UNCHANGED <<ppc, data_generation>>
    BY <1>6 DEF SkipMetric
  <2>3. \A o \in DOMAIN heap :
          heap[o].pmid # 0 /\ heap[o].pcp_instance_change_requested => heap[o].name # n
    BY <1>3, <2>1
  <2> QED BY <1>3, <2>1, <2>2, <2>3 DEF LabelInv, ChangeDue
<1>7. CASE EndMap
  <2>1. toMap = {} /\ ppc = "map" /\ ppc' = "serve" /\ data_generation' = generation
    BY <1>7 DEF EndMap
  <2>2. \A o \in DOMAIN heap : ~(heap[o].pmid # 0 /\ heap[o].pcp_instance_change_requested)
    BY <2>1 DEF LabelInv, ChangeDue
  <2> QED BY <1>3, <2>1, <2>2 DEF ChangeDue
<1>8. CASE ServeFetch \/ ServeOther \/ FetchInstance \/ LabelInstance \/ AnswerInstance
  <2>1. UNCHANGED data_generation /\ ppc' \in {"idle", "answer"}
    BY <1>8 DEF ServeFetch, ServeOther, FetchInstance, LabelInstance, AnswerInstance
  <2> QED BY <1>3, <2>1 DEF LabelInv, ChangeDue
<1> QED BY <1>4, <1>5, <1>6, <1>7, <1>8 DEF PcpQuiet

(* Instances *)

LEMMA InstanceAggregator ==
    ASSUME StoreInv, LabelInv, InstanceInv, AggregatorNext
    PROVE  InstanceInv'
<1>1. /\ \A o \in DOMAIN heap : o \in DOMAIN heap' /\ Evolves(heap'[o], heap[o])
      /\ \A o \in DOMAIN heap' \ DOMAIN heap : Blank(heap'[o])
  BY AggregatorEvolves DEF LabelInv
<1>2. UNCHANGED <<ppc, pcp_metrics, pcp_instance_domains, instance_map, lookup>>
  BY AggregatorTypes DEF StoreInv, Typed, pcpVars, tableVars
<1>3. ASSUME NEW o \in DOMAIN heap
      PROVE  /\ o \in DOMAIN heap' /\ heap'[o].name = heap[o].name
             /\ heap'[o].pmid = heap[o].pmid /\ heap'[o].pmindom = heap[o].pmindom
             /\ heap'[o].pcp_metric_index = heap[o].pcp_metric_index
             /\ heap'[o].pcp_instance_map = heap[o].pcp_instance_map
             /\ heap'[o].leftover = heap[o].leftover
             /\ heap[o].value => heap'[o].value
  BY <1>1 DEF Evolves, SameIdentity
<1>4. \A o \in DOMAIN heap' \ DOMAIN heap : heap'[o].pmid = 0
  BY <1>1 DEF Blank
<1>5. EntriesOwn'
  <2> SUFFICES ASSUME NEW s \in DOMAIN pcp_metrics, pcp_metrics[s].item \in DOMAIN heap'
               PROVE  /\ heap'[pcp_metrics[s].item].pmid # 0
                      /\ heap'[pcp_metrics[s].item].pcp_metric_index + 1 = s
    BY <1>2 DEF EntriesOwn
  <2>1. pcp_metrics[s].item \in DOMAIN heap
    <3>1. pcp_metrics[s] \in Entry
      BY DEF StoreInv, Typed, TablesTyped
    <3>2. pcp_metrics[s].item \in DOMAIN heap \cup {Static, Garbage}
      BY <3>1 DEF Entry
    <3>3. DOMAIN heap' = 1..Len(heap')
      BY AggregatorTypes DEF StoreInv, Typed, HeapTyped
    <3> QED BY <3>2, <3>3 DEF Static, Garbage
  <2> QED BY <1>3, <2>1 DEF InstanceInv, EntriesOwn
<1>6. DomainsOwn'
  <2>1. ASSUME NEW o \in DOMAIN heap', heap'[o].pmid # 0
        PROVE  IF heap'[o].pmindom = 0
               THEN heap'[o].value \/ heap'[o].leftover
               ELSE /\ instance_map[heap'[o].pmindom] = heap'[o].name
                    /\ Len(pcp_instance_domains[heap'[o].pmindom])
                         <= Len(heap'[o].pcp_instance_map) + Root(heap'[o])
    <3>1. o \in DOMAIN heap /\ heap[o].pmid # 0
      BY <1>3, <1>4, <2>1
    <3>2. IF heap[o].pmindom = 0
          THEN heap[o].value \/ heap[o].leftover
          ELSE /\ instance_map[heap[o].pmindom] = heap[o].name
               /\ Len(pcp_instance_domains[heap[o].pmindom])
                    <= Len(heap[o].pcp_instance_map) + Root(heap[o])
      BY <3>1 DEF InstanceInv, DomainsOwn
    <3>3. CASE heap[o].pmindom = 0
      BY <1>3, <3>1, <3>2, <3>3
    <3>4. CASE heap[o].pmindom # 0
      <4>1. /\ heap[o].pmindom \in 1..Len(pcp_instance_domains)
            /\ Len(heap[o].pcp_instance_map) \in Nat
        <5>1. heap[o] \in Metric
          BY <3>1 DEF StoreInv, Typed, HeapTyped
        <5>2. heap[o].pmindom \in Nat /\ heap[o].pcp_instance_map \in Seq(Tags)
          BY <5>1 DEF Metric
        <5>3. heap[o].pmindom <= Len(pcp_instance_domains) /\ Len(pcp_instance_domains) \in Nat
          BY <3>1 DEF StoreInv, Issued, Typed, TablesTyped
        <5> QED BY <3>4, <5>2, <5>3
      <4>2. Len(pcp_instance_domains[heap[o].pmindom]) \in Nat
        BY <4>1 DEF StoreInv, Typed, TablesTyped
      <4>3. Root(heap[o]) \in 0..1 /\ Root(heap'[o]) \in 0..1 /\ Root(heap[o]) <= Root(heap'[o])
        BY <1>3, <3>1 DEF Root
      <4> QED BY <1>3, <3>1, <3>2, <3>4, <4>1, <4>2, <4>3
    <3> QED BY <3>3, <3>4
  <2>2. ASSUME NEW d \in DOMAIN instance_map
        PROVE  \E o \in DOMAIN heap' : heap'[o].pmid # 0 /\ heap'[o].pmindom = d
    BY <1>3 DEF InstanceInv, DomainsOwn
  <2> QED BY <1>2, <2>1, <2>2 DEF DomainsOwn
<1>7. LookupOwn'
  BY <1>2, <1>3 DEF InstanceInv, LookupOwn
<1> QED BY <1>5, <1>6, <1>7 DEF InstanceInv

\* What mapping makes of the instance domains: that of the metric names its root
\* value and its labels, the others are left alone.
LEMMA MapOwnsDomain ==
    ASSUME StoreInv, LabelInv, NEW n \in toMap, MapMetric(n),
           Shown(heap[metrics[n]]) \/ heap[metrics[n]].leftover,
           NEW o, o = metrics[n],
           heap[o].pmid # 0 => IF heap[o].pmindom = 0
                               THEN heap[o].value \/ heap[o].leftover
                               ELSE /\ instance_map[heap[o].pmindom] = heap[o].name
                                    /\ Len(pcp_instance_domains[heap[o].pmindom])
                                         <= Len(heap[o].pcp_instance_map) + Root(heap[o])
    PROVE  /\ IF heap'[o].pmindom = 0
              THEN heap'[o].value \/ heap'[o].leftover
              ELSE /\ instance_map'[heap'[o].pmindom] = heap'[o].name
                   /\ Len(pcp_instance_domains'[heap'[o].pmindom])
                        <= Len(heap'[o].pcp_instance_map) + Root(heap'[o])
           /\ \A d \in DOMAIN instance_map :
                /\ d \in DOMAIN instance_map'
                /\ d # heap'[o].pmindom =>
                     /\ instance_map'[d] = instance_map[d]
                     /\ pcp_instance_domains'[d] = pcp_instance_domains[d]
           /\ \A d \in DOMAIN instance_map' : d \in DOMAIN instance_map \/ d = heap'[o].pmindom
           /\ heap[o].pmindom \in {0, heap'[o].pmindom}
<1>1. o \in DOMAIN heap /\ MappedEntry(o) /\ SameContent(heap'[o], heap[o])
  BY MapChangesEntry DEF MappedEntry
<1>2. /\ heap'[o].name = heap[o].name /\ heap'[o].value = heap[o].value
      /\ heap'[o].leftover = heap[o].leftover
      /\ Root(heap'[o]) = Root(heap[o])
  BY <1>1 DEF SameContent, Root
<1>3. heap[o].pmindom \in {0, heap'[o].pmindom}
  BY <1>1, MapChangesDomains
<1>4. /\ DOMAIN instance_map = 1..Len(instance_map)
      /\ DOMAIN pcp_instance_domains = 1..Len(instance_map)
      /\ Len(instance_map) = Len(pcp_instance_domains) /\ Len(instance_map) \in Nat
  BY DEF StoreInv, Typed, TablesTyped
<1>5. heap[o].pmid = 0 => heap[o].pmindom = 0
  BY <1>1 DEF StoreInv, Issued
<1>6. CASE DomainKept(o)
  <2>1. heap'[o].pmindom = heap[o].pmindom /\ heap'[o].pcp_instance_map = heap[o].pcp_instance_map
        /\ UNCHANGED <<pcp_instance_domains, instance_map>>
        /\ ~(heap[o].pcp_instance_change_requested /\ heap[o].has_children)
    BY <1>6 DEF DomainKept
  <2>2. CASE heap[o].pmindom = 0
    <3>1. heap[o].pcp_instance_map = <<>> /\ ~heap[o].pcp_instance_change_requested
          /\ Exposed(heap[o])
      BY <1>1, <2>1, <2>2 DEF LabelInv, LabelsKnown
    <3>2. heap[o].children = {}
      BY <3>1 DEF Exposed, ToSet
    <3>3. heap[o].value \/ heap[o].leftover
      BY <3>2 DEF Shown
    <3> QED BY <1>2, <2>1, <2>2, <3>3
  <2>3. CASE heap[o].pmindom # 0
    BY <1>2, <1>5, <2>1, <2>3
  <2> QED BY <2>2, <2>3
<1>7. CASE DomainSet(o)
  <2> PICK order \in SetToSeqs(heap[o].children) :
         /\ heap'[o].pcp_instance_map = order
         /\ pcp_instance_domains' =
              [d \in DOMAIN pcp_instance_domains \cup {DomainFor(o)} |->
                 IF d = DomainFor(o) THEN Instances(heap[o], order) ELSE pcp_instance_domains[d]]
    BY <1>7 DEF DomainSet
  <2>1. heap'[o].pmindom = DomainFor(o)
        /\ instance_map' = [d \in DOMAIN instance_map \cup {DomainFor(o)} |->
                              IF d = DomainFor(o) THEN heap[o].name ELSE instance_map[d]]
    BY <1>7 DEF DomainSet
  <2>2. DomainFor(o) # 0
    BY <1>4 DEF DomainFor
  <2>3. order \in Seq(Tags)
    <3>1. heap[o] \in Metric /\ IsFiniteSet(heap[o].children)
      BY <1>1 DEF StoreInv, Typed, HeapTyped
    <3> QED BY <3>1, OrdersOfLabels DEF Metric
  <2>4. Len(Instances(heap[o], order)) = Len(order) + Root(heap[o]) /\ Len(order) \in Nat
    <3>1. CASE heap[o].value
      <4>1. order \in Seq(Tags \cup {NoTags}) /\ <<NoTags>> \in Seq(Tags \cup {NoTags})
        BY <2>3, SeqMonotonic
      <4> QED BY <3>1, <4>1, ConcatProperties DEF Instances, Root
    <3>2. CASE ~heap[o].value
      <4>1. <<>> \o order = order
        BY <2>3
      <4> QED BY <2>3, <3>2, <4>1 DEF Instances, Root
    <3> QED BY <3>1, <3>2
  <2>5. Root(heap[o]) \in 0..1
    BY DEF Root
  <2>6. /\ pcp_instance_domains'[heap'[o].pmindom] = Instances(heap[o], order)
        /\ instance_map'[heap'[o].pmindom] = heap'[o].name
    BY <1>2, <2>1
  <2>7. Len(pcp_instance_domains'[heap'[o].pmindom])
          <= Len(heap'[o].pcp_instance_map) + Root(heap'[o])
    BY <1>2, <2>4, <2>5, <2>6
  <2>8. /\ \A d \in DOMAIN instance_map :
             /\ d \in DOMAIN instance_map'
             /\ d # heap'[o].pmindom =>
                  /\ instance_map'[d] = instance_map[d]
                  /\ pcp_instance_domains'[d] = pcp_instance_domains[d]
        /\ \A d \in DOMAIN instance_map' : d \in DOMAIN instance_map \/ d = heap'[o].pmindom
    BY <1>4, <2>1
  <2> QED BY <1>3, <2>1, <2>2, <2>6, <2>7, <2>8
<1> QED BY <1>1, <1>6, <1>7 DEF MappedEntry

LEMMA InstanceMap ==
    ASSUME StoreInv, RecordInv, LabelInv, InstanceInv, NEW n \in toMap, ppc = "map", MapMetric(n)
    PROVE  InstanceInv'
<1> DEFINE o == metrics[n]
<1>1. /\ n \in DOMAIN metrics /\ o \in DOMAIN heap /\ DOMAIN heap' = DOMAIN heap
      /\ \A p \in DOMAIN heap : p # o => heap'[p] = heap[p]
      /\ heap[o].pernament /\ heap'[o].pmid # 0
      /\ UNCHANGED <<metrics, ppc>>
  BY MapContent
<1>2. MappedEntry(o) /\ heap'[o] \in Metric
  BY <1>1, MapChangesEntry DEF HeapTyped
<1>3. Shown(heap[o]) \/ heap[o].leftover
  BY <1>1 DEF RecordInv, Marked, MarkedAt, Settled
<1>4. heap[o].pmid # 0 => IF heap[o].pmindom = 0
                          THEN heap[o].value \/ heap[o].leftover
                          ELSE /\ instance_map[heap[o].pmindom] = heap[o].name
                               /\ Len(pcp_instance_domains[heap[o].pmindom])
                                    <= Len(heap[o].pcp_instance_map) + Root(heap[o])
  BY <1>1 DEF InstanceInv, DomainsOwn
<1>5. /\ IF heap'[o].pmindom = 0
         THEN heap'[o].value \/ heap'[o].leftover
         ELSE /\ instance_map'[heap'[o].pmindom] = heap'[o].name
              /\ Len(pcp_instance_domains'[heap'[o].pmindom])
                   <= Len(heap'[o].pcp_instance_map) + Root(heap'[o])
      /\ \A d \in DOMAIN instance_map :
           /\ d \in DOMAIN instance_map'
           /\ d # heap'[o].pmindom =>
                /\ instance_map'[d] = instance_map[d]
                /\ pcp_instance_domains'[d] = pcp_instance_domains[d]
      /\ \A d \in DOMAIN instance_map' : d \in DOMAIN instance_map \/ d = heap'[o].pmindom
      /\ heap[o].pmindom \in {0, heap'[o].pmindom}
  BY <1>3, <1>4, MapOwnsDomain
<1>6. \A other \in DOMAIN heap \ {o} :
        heap'[o].pmindom # 0 => heap[other].pmindom # heap'[o].pmindom
  BY <1>1, <1>2, MapIdentity
<1>7. /\ DOMAIN pcp_metrics \subseteq DOMAIN pcp_metrics'
      /\ heap[o].pmid = 0 => IndexFor(o) + 1 \notin DOMAIN pcp_metrics
      /\ heap'[o].pcp_metric_index = IndexFor(o)
      /\ pcp_metrics'[IndexFor(o) + 1] = [item |-> o, indom |-> heap'[o].pmindom]
      /\ \A j \in DOMAIN pcp_metrics :
           j # IndexFor(o) + 1 => pcp_metrics'[j] = pcp_metrics[j]
      /\ \A j \in DOMAIN pcp_metrics' \ DOMAIN pcp_metrics :
           j # IndexFor(o) + 1 => pcp_metrics'[j].item = Garbage
  BY <1>1, <1>2, MapChangesTable
<1> HIDE DEF o
<1>8. EntriesOwn'
  <2> SUFFICES ASSUME NEW s \in DOMAIN pcp_metrics', pcp_metrics'[s].item \in DOMAIN heap
               PROVE  /\ heap'[pcp_metrics'[s].item].pmid # 0
                      /\ heap'[pcp_metrics'[s].item].pcp_metric_index + 1 = s
    BY <1>1 DEF EntriesOwn
  <2>1. CASE s = IndexFor(o) + 1
    BY <1>1, <1>7, <2>1
  <2>2. CASE s # IndexFor(o) + 1
    <3>1. Garbage \notin DOMAIN heap
      BY DEF StoreInv, Typed, HeapTyped, Garbage
    <3>2. s \in DOMAIN pcp_metrics /\ pcp_metrics'[s] = pcp_metrics[s]
      BY <1>7, <2>2, <3>1
    <3>3. heap[pcp_metrics[s].item].pmid # 0 /\ heap[pcp_metrics[s].item].pcp_metric_index + 1 = s
      BY <3>2 DEF InstanceInv, EntriesOwn
    <3>4. pcp_metrics[s].item # o
      BY <2>2, <3>3 DEF IndexFor
    <3> QED BY <1>1, <3>2, <3>3, <3>4
  <2> QED BY <2>1, <2>2
<1>9. DomainsOwn'
  <2>1. ASSUME NEW p \in DOMAIN heap, heap'[p].pmid # 0
        PROVE  IF heap'[p].pmindom = 0
               THEN heap'[p].value \/ heap'[p].leftover
               ELSE /\ instance_map'[heap'[p].pmindom] = heap'[p].name
                    /\ Len(pcp_instance_domains'[heap'[p].pmindom])
                         <= Len(heap'[p].pcp_instance_map) + Root(heap'[p])
    <3>1. CASE p = o
      BY <1>5, <3>1
    <3>2. CASE p # o
      <4>1. heap'[p] = heap[p]
        BY <1>1, <3>2
      <4>2. IF heap[p].pmindom = 0
            THEN heap[p].value \/ heap[p].leftover
            ELSE /\ instance_map[heap[p].pmindom] = heap[p].name
                 /\ Len(pcp_instance_domains[heap[p].pmindom])
                      <= Len(heap[p].pcp_instance_map) + Root(heap[p])
        BY <2>1, <4>1 DEF InstanceInv, DomainsOwn
      <4>3. CASE heap[p].pmindom # 0
        <5>1. heap[p].pmindom \in DOMAIN instance_map
          <6>1. heap[p] \in Metric
            BY DEF StoreInv, Typed, HeapTyped
          <6>2. heap[p].pmindom \in Nat
            BY <6>1 DEF Metric
          <6>3. heap[p].pmindom <= Len(pcp_instance_domains)
                /\ Len(instance_map) = Len(pcp_instance_domains) /\ instance_map \in Seq(Name)
            BY DEF StoreInv, Issued, Typed, TablesTyped
          <6> QED BY <4>3, <6>2, <6>3
        <5>2. heap[p].pmindom # heap'[o].pmindom
          BY <1>6, <3>2, <4>3
        <5> QED BY <1>5, <4>1, <4>2, <5>1, <5>2
      <4> QED BY <4>1, <4>2, <4>3
    <3> QED BY <3>1, <3>2
  <2>2. ASSUME NEW d \in DOMAIN instance_map'
        PROVE  \E p \in DOMAIN heap : heap'[p].pmid # 0 /\ heap'[p].pmindom = d
    <3>1. CASE d = heap'[o].pmindom
      BY <1>1, <3>1
    <3>2. CASE d # heap'[o].pmindom
      <4>1. PICK p \in DOMAIN heap : heap[p].pmid # 0 /\ heap[p].pmindom = d
        BY <1>5, <3>2 DEF InstanceInv, DomainsOwn
      <4>2. d # 0
        BY <1>5, <3>2 DEF StoreInv, Typed, TablesTyped
      <4>3. p # o
        BY <1>5, <3>2, <4>1, <4>2
      <4> QED BY <1>1, <4>1, <4>3
    <3> QED BY <3>1, <3>2
  <2> QED BY <1>1, <2>1, <2>2 DEF DomainsOwn
<1>10. LookupOwn'
  BY <1>1 DEF LookupOwn
<1> QED BY <1>8, <1>9, <1>10 DEF InstanceInv

LEMMA InstanceQuiet ==
    ASSUME StoreInv, RecordInv, InstanceInv, PcpQuiet
    PROVE  InstanceInv'
<1>1. UNCHANGED <<storeVars, workVars, tableVars>>
  BY PcpQuietTypes DEF StoreInv
<1>2. EntriesOwn' /\ DomainsOwn'
  BY <1>1 DEF InstanceInv, EntriesOwn, DomainsOwn, Root, storeVars, tableVars
<1> SUFFICES LookupOwn'
  BY <1>2 DEF InstanceInv
<1>3. UNCHANGED <<heap, metrics>>
  BY <1>1 DEF storeVars
<1>4. /\ \A o \in DOMAIN heap :
           /\ heap[o].pmid # 0 /\ heap[o].pmindom # 0 => metrics[heap[o].name] = o
           /\ heap[o].pmindom \in Nat /\ heap[o].pmindom <= Len(pcp_instance_domains)
           /\ Len(heap[o].pcp_instance_map) \in Nat
      /\ pcp_instance_domains \in Seq(Seq(Tags \cup {NoTags})) /\ instance_map \in Seq(Name)
      /\ Len(instance_map) = Len(pcp_instance_domains)
      /\ DOMAIN instance_map = 1..Len(instance_map)
      /\ DOMAIN pcp_instance_domains = 1..Len(instance_map)
      /\ Len(instance_map) \in Nat
  <2>1. \A o \in DOMAIN heap : heap[o] \in Metric /\ heap[o].pmindom <= Len(pcp_instance_domains)
    BY DEF StoreInv, Issued, Typed, HeapTyped
  <2>2. \A o \in DOMAIN heap : heap[o].pmindom \in Nat /\ heap[o].pcp_instance_map \in Seq(Tags)
    BY <2>1 DEF Metric
  <2>3. \A o \in DOMAIN heap :
          heap[o].pmid # 0 /\ heap[o].pmindom # 0 => metrics[heap[o].name] = o
    BY DEF RecordInv, Marked, MarkedAt, InTable, Bare
  <2> QED BY <2>1, <2>2, <2>3 DEF StoreInv, Typed, TablesTyped
\* An instance of the domain of the mapped metric at o.
<1>5. ASSUME NEW o \in DOMAIN heap, heap[o].pmid # 0, heap[o].pmindom # 0,
             NEW i \in DOMAIN pcp_instance_domains[heap[o].pmindom]
      PROVE  i \in Nat \ {0} /\ i <= Len(heap[o].pcp_instance_map) + (IF heap[o].value THEN 1 ELSE 0)
  <2>1. pcp_instance_domains[heap[o].pmindom] \in Seq(Tags \cup {NoTags})
    BY <1>4, <1>5
  <2>2. i \in Nat \ {0} /\ i <= Len(pcp_instance_domains[heap[o].pmindom])
        /\ Len(pcp_instance_domains[heap[o].pmindom]) \in Nat
    BY <2>1
  <2>3. Len(pcp_instance_domains[heap[o].pmindom]) <= Len(heap[o].pcp_instance_map) + Root(heap[o])
    BY <1>5 DEF InstanceInv, DomainsOwn
  <2>4. Len(heap[o].pcp_instance_map) \in Nat
    BY <1>4
  <2>5. CASE heap[o].value
    BY <2>2, <2>3, <2>4, <2>5 DEF Root
  <2>6. CASE ~heap[o].value
    BY <2>2, <2>3, <2>4, <2>6 DEF Root
  <2> QED BY <2>5, <2>6
<1>6. CASE FetchInstance
  <2>1. PICK s \in DOMAIN pcp_metrics :
          /\ pcp_metrics[s].item \notin {Static, Garbage}
          /\ \E i \in IF pcp_metrics[s].indom = 0
                      THEN {1} ELSE DOMAIN pcp_instance_domains[pcp_metrics[s].indom] :
               lookup' = [item |-> pcp_metrics[s].item, indom |-> pcp_metrics[s].indom,
                          instance |-> i, has_root |-> heap[pcp_metrics[s].item].value]
    BY <1>6 DEF FetchInstance
  <2> DEFINE o == pcp_metrics[s].item
             d == pcp_metrics[s].indom
  <2>2. PICK i \in IF d = 0 THEN {1} ELSE DOMAIN pcp_instance_domains[d] :
          lookup' = [item |-> o, indom |-> d, instance |-> i, has_root |-> heap[o].value]
    BY <2>1
  <2>3. o \in DOMAIN heap
    <3>1. pcp_metrics[s] \in Entry
      BY DEF StoreInv, Typed, TablesTyped
    <3> QED BY <2>1, <3>1 DEF Entry
  <2>4. heap[o].pmid # 0 /\ heap[o].pcp_metric_index + 1 = s
    BY <2>3 DEF InstanceInv, EntriesOwn
  <2>5. d = heap[o].pmindom
    <3>1. pcp_metrics[s] = [item |-> o, indom |-> heap[o].pmindom]
      BY <2>3, <2>4 DEF StoreInv, MappedOnce
    <3> QED BY <3>1
  <2> HIDE DEF o, d
  <2>6. CASE d = 0
    <3>1. heap[o].value \/ heap[o].leftover
      BY <2>3, <2>4, <2>5, <2>6 DEF InstanceInv, DomainsOwn
    <3> QED BY <1>3, <2>2, <2>3, <2>4, <2>6, <3>1 DEF LookupOwn
  <2>7. CASE d # 0
    BY <1>3, <1>5, <2>2, <2>3, <2>4, <2>5, <2>7 DEF LookupOwn
  <2> QED BY <2>6, <2>7
<1>7. CASE LabelInstance
  <2>1. PICK d \in DOMAIN instance_map :
          /\ instance_map[d] \in DOMAIN metrics
          /\ \E i \in DOMAIN pcp_instance_domains[d] :
               lookup' = [item |-> metrics[instance_map[d]], indom |-> d, instance |-> i,
                          has_root |-> heap[metrics[instance_map[d]]].value]
    BY <1>7 DEF LabelInstance
  <2>2. PICK o \in DOMAIN heap : heap[o].pmid # 0 /\ heap[o].pmindom = d
    BY DEF InstanceInv, DomainsOwn
  <2>3. d # 0
    BY <1>4
  <2>4. instance_map[d] = heap[o].name
    BY <2>2, <2>3 DEF InstanceInv, DomainsOwn
  <2>5. metrics[instance_map[d]] = o
    BY <1>4, <2>2, <2>3, <2>4
  <2>6. PICK i \in DOMAIN pcp_instance_domains[d] :
          lookup' = [item |-> o, indom |-> d, instance |-> i, has_root |-> heap[o].value]
    BY <2>1, <2>5
  <2> QED BY <1>3, <1>5, <2>2, <2>3, <2>6 DEF LookupOwn
<1>8. CASE PossibleReload \/ BeginMap \/ SkipMetric \/ EndMap \/ ServeFetch \/ ServeOther
             \/ AnswerInstance
  <2>1. ppc' # "answer"
    BY <1>8 DEF PossibleReload, BeginMap, SkipMetric, EndMap, ServeFetch, ServeOther,
                AnswerInstance
  <2> QED BY <2>1 DEF LookupOwn
<1> QED BY <1>6, <1>7, <1>8 DEF PcpQuiet

(* The theorems on labels and instances *)

FullInv == NamesInv /\ LabelInv /\ InstanceInv

LEMMA FullInvInit == Init => FullInv
<1> SUFFICES ASSUME Init PROVE FullInv
  OBVIOUS
<1>1. NamesInv
  BY NamesInvInit
<1>2. heap = <<>> /\ metrics = <<>> /\ apc = "idle" /\ ppc = "idle" /\ instance_map = <<>>
      /\ generation = 0 /\ data_generation = -1
  BY DEF Init
<1>3. LabelInv
  BY <1>2 DEF LabelInv, LabelsKnown, ChangeDue, Usable
<1>4. InstanceInv
  BY <1>2 DEF InstanceInv, EntriesOwn, DomainsOwn, LookupOwn
<1> QED BY <1>1, <1>3, <1>4 DEF FullInv

LEMMA FullInvNext == ASSUME FullInv, [Next]_vars PROVE FullInv'
<1>1. NamesInv' /\ StoreInv /\ RecordInv /\ LabelInv /\ InstanceInv
  BY NamesInvNext DEF FullInv, NamesInv
<1>2. CASE AggregatorNext
  BY <1>1, <1>2, LabelAggregator, InstanceAggregator DEF FullInv
<1>3. ASSUME NEW n \in toMap, ppc = "map", MapMetric(n) PROVE FullInv'
  BY <1>1, <1>3, LabelMap, InstanceMap DEF FullInv
<1>4. CASE PcpQuiet
  BY <1>1, <1>4, LabelQuiet, InstanceQuiet DEF FullInv
<1>5. CASE UNCHANGED vars
  <2>1. UNCHANGED <<storeVars, workVars, pcpVars>>
    BY <1>5 DEF vars
  <2>2. LabelInv'
    BY <1>1, <2>1 DEF LabelInv, LabelsKnown, ChangeDue, Usable, storeVars, workVars, pcpVars
  <2>3. InstanceInv'
    BY <1>1, <2>1
       DEF InstanceInv, EntriesOwn, DomainsOwn, LookupOwn, storeVars, pcpVars, tableVars
  <2> QED BY <1>1, <2>2, <2>3 DEF FullInv
<1>6. CASE Undefined
  <2>1. /\ apc' = "undefined" /\ ppc' = "undefined"
        /\ UNCHANGED <<heap, metrics, generation, data_generation, pcp_metrics,
                       pcp_instance_domains, instance_map>>
    BY <1>6 DEF Undefined, storeVars, tableVars
  <2>2. LabelInv'
    BY <1>1, <2>1 DEF LabelInv, LabelsKnown, ChangeDue, Usable
  <2>3. InstanceInv'
    BY <1>1, <2>1 DEF InstanceInv, EntriesOwn, DomainsOwn, LookupOwn
  <2> QED BY <1>1, <2>2, <2>3 DEF FullInv
<1> QED BY <1>2, <1>3, <1>4, <1>5, <1>6
        DEF Next, PcpNext, PcpQuiet, FreeUnwritten, ReadMissing, StayUndefined

LEMMA FullInvHolds == Spec => []FullInv
<1>1. FullInv /\ [Next]_vars => FullInv'
  BY FullInvNext
<1> QED BY <1>1, FullInvInit, PTL DEF Spec

\* map_labels_to_instances never forgets a label: a mapped metric exposes exactly
\* its labels, or a change is requested and the next generation check starts the
\* reload that honours it.
THEOREM LabelsExposedOrDueCorrect == Spec => []LabelsExposedOrDue
<1>1. ASSUME FullInv, NEW n \in DOMAIN metrics, heap[metrics[n]].pmid # 0
      PROVE  LET m == heap[metrics[n]]
             IN  \/ /\ ~m.pcp_instance_change_requested
                    /\ ToSet(m.pcp_instance_map) = m.children
                    /\ Len(m.pcp_instance_map) = Cardinality(m.children)
                 \/ /\ m.pcp_instance_change_requested
                    /\ generation # data_generation
  <2> DEFINE o == metrics[n]
  <2>1. o \in DOMAIN heap
    BY <1>1 DEF FullInv, NamesInv, StoreInv, Typed, TableTyped
  <2>2. /\ ~heap[o].pcp_instance_change_requested => Exposed(heap[o])
        /\ heap[o].pcp_instance_change_requested => data_generation # generation
    BY <1>1, <2>1 DEF FullInv, LabelInv, LabelsKnown, ChangeDue
  <2> QED BY <2>2 DEF Exposed
<1>2. FullInv => LabelsExposedOrDue
  BY <1>1 DEF LabelsExposedOrDue
<1> QED BY <1>2, FullInvHolds, PTL

\* statsd_fetch_callback and statsd_label_callback never step outside the instance
\* map, and what they read is there, although whether the metric has a root value is
\* read before the mutex is taken: but for a metric without a value that was mapped
\* for the mark malloc had left in it.
THEOREM LookupInRangeCorrect == Spec => []LookupInRange
<1>1. ASSUME FullInv, ppc = "answer"
      PROVE  IF lookup.indom = 0
             THEN Readable \/ (heap[lookup.item].leftover /\ ~heap[lookup.item].value)
             ELSE \/ AsksRoot /\ heap[lookup.item].value
                  \/ /\ ~AsksRoot
                     /\ LabelIndex \in DOMAIN heap[lookup.item].pcp_instance_map
                     /\ Resolved \in heap[lookup.item].children
  <2> DEFINE o == lookup.item
             m == heap[lookup.item]
  <2>1. /\ o \in DOMAIN heap /\ m.pmid # 0 /\ (lookup.has_root => m.value)
        /\ lookup.instance \in Nat \ {0}
        /\ IF lookup.indom = 0
           THEN m.value \/ m.leftover
           ELSE lookup.instance <= Len(m.pcp_instance_map) + (IF lookup.has_root THEN 1 ELSE 0)
    BY <1>1 DEF FullInv, InstanceInv, LookupOwn
  <2>2. m \in Metric
    BY <1>1, <2>1 DEF FullInv, NamesInv, StoreInv, Typed, HeapTyped
  <2>3. m.pcp_instance_map \in Seq(Tags)
    BY <2>2 DEF Metric
  <2>4. m.value => m.alive
    BY <1>1, <2>1 DEF FullInv, NamesInv, RecordInv, Marked, MarkedAt, Bare
  <2>5. ToSet(m.pcp_instance_map) \subseteq m.children
    BY <1>1, <2>1 DEF FullInv, LabelInv, LabelsKnown
  <2> HIDE DEF o, m
  <2>6. CASE lookup.indom = 0
    BY <2>1, <2>4, <2>6 DEF Readable, m
  <2>7. CASE lookup.indom # 0 /\ AsksRoot
    BY <2>1, <2>7 DEF AsksRoot, m
  <2>8. CASE lookup.indom # 0 /\ ~AsksRoot
    <3>1. DOMAIN m.pcp_instance_map = 1..Len(m.pcp_instance_map) /\ Len(m.pcp_instance_map) \in Nat
      BY <2>3
    <3>2. LabelIndex \in 1..Len(m.pcp_instance_map)
      <4>1. CASE lookup.has_root
        BY <2>1, <2>8, <3>1, <4>1 DEF LabelIndex, AsksRoot
      <4>2. CASE ~lookup.has_root
        BY <2>1, <2>8, <3>1, <4>2 DEF LabelIndex
      <4> QED BY <4>1, <4>2
    <3>3. Resolved = m.pcp_instance_map[LabelIndex]
      BY <2>8 DEF Resolved, m
    <3>4. Resolved \in m.children
      BY <2>5, <3>1, <3>2, <3>3 DEF ToSet
    <3> QED BY <2>8, <3>1, <3>2, <3>4 DEF m
  <2> QED BY <2>6, <2>7, <2>8
<1>2. FullInv => LookupInRange
  BY <1>1 DEF LookupInRange
<1> QED BY <1>2, FullInvHolds, PTL

(* The verdict on a datagram. *)

\* The metric at o holds the datagram, as its root value or under its labels.
Holds(o) == IF datagram.tags = NoTags THEN heap[o].value ELSE datagram.tags \in heap[o].children

OthersRecorded == {r \in Recorded : r.name # datagram.name}

VerdictInv ==
    /\ \A n \in DOMAIN metrics :
         \/ heap[metrics[n]].pernament
         \/ apc \in AtUnmarked \cup {"undefined"} /\ created /\ n = datagram.name
    /\ apc = "add_metric" \/ (apc \notin {"idle", "undefined"} /\ ~created) =>
         Recorded = before
    /\ apc \in AtUnmarked /\ created => OthersRecorded = before
    /\ apc \in AtLabel \cup {"update_root"} /\ ~created =>
         datagram.name \in DOMAIN metrics /\ metrics[datagram.name] = item
    /\ apc \in {"add_metric", "labels_dict", "find_label"} /\ created => heap[item].children = {}
    /\ apc = "update_label" => ~created /\ datagram.tags \in heap[item].children
    /\ apc = "update_root" => datagram.tags = NoTags
    /\ apc = "mark" => Holds(item)
    /\ apc = "idle" =>
         IF status
         THEN /\ datagram.name \in DOMAIN metrics
              /\ heap[metrics[datagram.name]].pernament
              /\ Holds(metrics[datagram.name])
         ELSE Recorded = before

LEMMA RecordedSame ==
    ASSUME UNCHANGED metrics,
           \A n \in DOMAIN metrics : /\ heap'[metrics[n]].value = heap[metrics[n]].value
                                     /\ heap'[metrics[n]].children = heap[metrics[n]].children
    PROVE  Recorded' = Recorded
BY DEF Recorded

LEMMA OthersSame ==
    ASSUME UNCHANGED datagram,
           DOMAIN metrics' \ {datagram.name} = DOMAIN metrics \ {datagram.name},
           \A n \in DOMAIN metrics \ {datagram.name} :
             /\ metrics'[n] = metrics[n]
             /\ heap'[metrics[n]].value = heap[metrics[n]].value
             /\ heap'[metrics[n]].children = heap[metrics[n]].children
    PROVE  OthersRecorded' = OthersRecorded
<1> DEFINE names == DOMAIN metrics \ {datagram.name}
           record(n) == [name |-> n, value |-> heap[metrics[n]].value,
                         children |-> heap[metrics[n]].children]
           later(n) == [name |-> n, value |-> heap'[metrics'[n]].value,
                        children |-> heap'[metrics'[n]].children]
<1>1. OthersRecorded = {record(n) : n \in names}
  BY DEF OthersRecorded, Recorded
<1>2. OthersRecorded' = {later(n) : n \in DOMAIN metrics' \ {datagram.name}}
  BY DEF OthersRecorded, Recorded
<1>3. \A n \in names : later(n) = record(n)
  OBVIOUS
<1> QED BY <1>1, <1>2, <1>3

LEMMA VerdictAggregator ==
    ASSUME StoreInv, RecordInv, VerdictInv, AggregatorNext
    PROVE  VerdictInv'
<1> USE DEF Goto, Answer
<1>0. /\ HeapTyped /\ NamesOwn /\ Marked /\ Progress
      /\ \A n \in DOMAIN metrics : metrics[n] \in DOMAIN heap /\ heap[metrics[n]].name = n
      /\ apc \in AtMetric \cup AtLabel => item \in DOMAIN heap /\ heap[item] \in Metric
      /\ apc \notin {"idle", "undefined"} => datagram \in Datagram
      /\ apc \in AtLabel => datagram.tags \in Tags
      /\ NoTags \notin Tags
  BY StoreAssumption DEF StoreAssumption, StoreInv, Typed, TableTyped, WorkTyped, HeapTyped,
                         RecordInv, NamesOwn
<1>1. CASE ReceiveDatagram
  <2>1. UNCHANGED <<heap, metrics>> /\ apc = "idle" /\ apc' = "find_metric" /\ created' = FALSE
        /\ before' = Recorded
    BY <1>1 DEF ReceiveDatagram, storeVars
  <2>2. Recorded' = Recorded
    BY <2>1, RecordedSame
  <2> QED BY <2>1, <2>2 DEF VerdictInv, AtUnmarked, AtFirstLabel, AtLabel
<1>2. CASE FindMetric \/ FindNoMetric \/ CreateMetricFails \/ FindLabel \/ UpdateLabel \/ CreateLabel
  <2>1. UNCHANGED <<heap, metrics, datagram, created, before>>
    BY <1>2 DEF FindMetric, FindNoMetric, CreateMetricFails, FindLabel, UpdateLabel, CreateLabel,
                storeVars
  <2>2. Recorded' = Recorded /\ OthersRecorded' = OthersRecorded
    BY <2>1, RecordedSame, OthersSame
  <2>3. \A o \in DOMAIN heap : Holds(o)' <=> Holds(o)
    BY <2>1 DEF Holds
  <2>4. CASE FindMetric
    <3>1. /\ apc = "find_metric" /\ ~created /\ datagram.name \in DOMAIN metrics
          /\ item' = metrics[datagram.name]
          /\ \/ apc' = "update_root" /\ datagram.tags = NoTags
             \/ apc' = "idle" /\ status' = FALSE
             \/ apc' \in {"find_label", "labels_dict"}
      BY <1>0, <2>4 DEF FindMetric, Progress
    <3> QED BY <2>1, <2>2, <3>1 DEF VerdictInv, AtUnmarked, AtFirstLabel, AtLabel
  <2>5. CASE FindNoMetric
    <3>1. apc = "find_metric" /\ ~created /\ apc' = "create_metric"
      BY <1>0, <2>5 DEF FindNoMetric, Progress
    <3> QED BY <2>1, <2>2, <3>1 DEF VerdictInv, AtUnmarked, AtFirstLabel, AtLabel
  <2>6. CASE CreateMetricFails
    <3>1. apc = "create_metric" /\ ~created /\ apc' = "idle" /\ status' = FALSE
      BY <1>0, <2>6 DEF CreateMetricFails, Progress
    <3> QED BY <2>1, <2>2, <3>1 DEF VerdictInv, AtUnmarked, AtFirstLabel, AtLabel
  <2>7. CASE FindLabel
    <3>1. /\ apc = "find_label" /\ UNCHANGED item
          /\ \/ apc' = "update_label" /\ datagram.tags \in heap[item].children
             \/ apc' = "create_label"
      BY <2>7 DEF FindLabel
    <3> QED BY <2>1, <2>2, <3>1 DEF VerdictInv, AtUnmarked, AtFirstLabel, AtLabel
  <2>8. CASE UpdateLabel
    <3>1. /\ apc = "update_label" /\ ~created /\ apc' = "idle" /\ UNCHANGED item
          /\ datagram.name \in DOMAIN metrics /\ metrics[datagram.name] = item
          /\ heap[item].pernament /\ datagram.tags \in heap[item].children
          /\ Recorded = before /\ datagram.tags # NoTags
      BY <1>0, <2>8 DEF UpdateLabel, VerdictInv, AtLabel, AtUnmarked, AtFirstLabel
    <3>2. Holds(item)'
      BY <2>1, <3>1 DEF Holds
    <3>3. Holds(metrics[datagram.name])'
      BY <2>1, <3>1, <3>2
    <3> QED BY <2>1, <2>2, <3>1, <3>3 DEF VerdictInv, AtUnmarked, AtFirstLabel, AtLabel
  <2>9. CASE CreateLabel
    <3>1. /\ apc = "create_label" /\ UNCHANGED item
          /\ \/ apc' = "add_label"
             \/ apc' = "remove_metric" /\ created
             \/ apc' = "idle" /\ status' = FALSE /\ ~created
      BY <2>9 DEF CreateLabel
    <3> QED BY <2>1, <2>2, <3>1 DEF VerdictInv, AtUnmarked, AtFirstLabel, AtLabel
  <2> QED BY <1>2, <2>4, <2>5, <2>6, <2>7, <2>8, <2>9
<1>3. CASE CreateMetric
  <2>1. PICK pernament \in FreshPernament :
          heap' = Append(heap, NewMetric(datagram, datagram.tags = NoTags, pernament))
    BY <1>3 DEF CreateMetric
  <2>2. datagram \in Datagram /\ pernament \in BOOLEAN
    BY <1>0, <1>3, StoreAssumption DEF CreateMetric, StoreAssumption
  <2> DEFINE m == NewMetric(datagram, datagram.tags = NoTags, pernament)
  <2>3. m \in Metric /\ m.children = {}
    BY <2>2 DEF NewMetric, Metric, Datagram
  <2>4. heap' = Append(heap, m)
    BY <2>1
  <2> HIDE DEF m
  <2>5. heap'[Len(heap) + 1] = m /\ \A p \in DOMAIN heap : heap'[p] = heap[p]
    BY <1>0, <2>3, <2>4, HeapGrows DEF HeapTyped
  <2>6. /\ apc = "create_metric" /\ ~created /\ apc' = "add_metric" /\ created' = TRUE
        /\ item' = Len(heap) + 1 /\ UNCHANGED <<metrics, datagram, before>>
    BY <1>0, <1>3 DEF CreateMetric, Progress
  <2>7. Recorded' = Recorded
    BY <1>0, <2>5, <2>6, RecordedSame
  <2>8. Recorded = before /\ \A n \in DOMAIN metrics : heap[metrics[n]].pernament
    BY <2>6 DEF VerdictInv, AtUnmarked, AtFirstLabel
  <2>9. \A n \in DOMAIN metrics : heap'[metrics[n]].pernament
    BY <1>0, <2>5, <2>8
  <2> QED BY <2>3, <2>5, <2>6, <2>7, <2>8, <2>9 DEF VerdictInv, AtUnmarked, AtFirstLabel, AtLabel
<1>4. CASE AddMetric
  <2>1. /\ apc = "add_metric" /\ created /\ datagram.name \notin DOMAIN metrics
        /\ (datagram.tags = NoTags => heap[item].value)
        /\ Recorded = before /\ heap[item].children = {}
        /\ \A n \in DOMAIN metrics : heap[metrics[n]].pernament
    BY <1>0, <1>4 DEF AddMetric, Progress, VerdictInv, AtUnmarked, AtFirstLabel
  <2>2. /\ metrics' = [n \in DOMAIN metrics \cup {datagram.name} |->
                         IF n = datagram.name THEN item ELSE metrics[n]]
        /\ apc' = IF datagram.tags = NoTags THEN "mark" ELSE "labels_dict"
        /\ UNCHANGED <<heap, datagram, item, created, before>>
    BY <1>4 DEF AddMetric
  <2>3. OthersRecorded' = OthersRecorded
    <3>1. DOMAIN metrics' \ {datagram.name} = DOMAIN metrics \ {datagram.name}
      BY <2>2
    <3>2. \A n \in DOMAIN metrics \ {datagram.name} : metrics'[n] = metrics[n]
      BY <2>2
    <3> QED BY <2>2, <3>1, <3>2, OthersSame
  <2>4. OthersRecorded = before
    BY <2>1 DEF OthersRecorded, Recorded
  <2>5. \A n \in DOMAIN metrics' : heap'[metrics'[n]].pernament \/ n = datagram.name
    BY <2>1, <2>2
  <2>6. apc' = "mark" => Holds(item)'
    BY <2>1, <2>2 DEF Holds
  <2> QED BY <2>1, <2>2, <2>3, <2>4, <2>5, <2>6 DEF VerdictInv, AtUnmarked, AtFirstLabel, AtLabel
<1>5. CASE UpdateRoot
  <2>1. /\ apc = "update_root" /\ ~created /\ item \in DOMAIN heap /\ heap[item] \in Metric
        /\ apc' = "idle"
        /\ datagram.tags = NoTags /\ Recorded = before
        /\ datagram.name \in DOMAIN metrics /\ metrics[datagram.name] = item
        /\ \A n \in DOMAIN metrics : heap[metrics[n]].pernament
        /\ UNCHANGED <<metrics, datagram, item, created, before>>
    BY <1>0, <1>5 DEF UpdateRoot, Progress, VerdictInv, AtUnmarked, AtFirstLabel, AtLabel, AtMetric
  <2>2. CASE heap' = [heap EXCEPT ![item].value = TRUE] /\ status' = TRUE
    <3> DEFINE e == [heap[item] EXCEPT !.value = TRUE]
    <3>1. heap' = [heap EXCEPT ![item] = e] /\ e \in Edits(heap[item])
      BY <2>2 DEF Edits
    <3>2. e.value /\ e.pernament = heap[item].pernament
      BY <2>1 DEF Metric
    <3> HIDE DEF e
    <3>3. heap'[item] = e /\ \A p \in DOMAIN heap : p # item => heap'[p] = heap[p]
      BY <1>0, <2>1, <3>1, EditContent
    <3>4. \A n \in DOMAIN metrics' : heap'[metrics'[n]].pernament
      BY <1>0, <2>1, <3>2, <3>3
    <3>5. Holds(metrics[datagram.name])'
      BY <2>1, <3>2, <3>3 DEF Holds
    <3> QED BY <2>1, <2>2, <3>4, <3>5 DEF VerdictInv, AtUnmarked, AtFirstLabel, AtLabel
  <2>3. CASE UNCHANGED heap /\ status' = FALSE
    <3>1. Recorded' = Recorded
      BY <2>1, <2>3, RecordedSame
    <3> QED BY <2>1, <2>3, <3>1 DEF VerdictInv, AtUnmarked, AtFirstLabel, AtLabel
  <2> QED BY <1>5, <2>2, <2>3 DEF UpdateRoot
<1>6. CASE CreateLabelsDict
  <2>1. /\ item \in DOMAIN heap /\ heap[item] \in Metric /\ apc = "labels_dict"
        /\ apc' = "find_label" /\ UNCHANGED <<metrics, datagram, item, created, before>>
    BY <1>0, <1>6 DEF CreateLabelsDict, AtLabel
  <2> DEFINE e == [heap[item] EXCEPT !.has_children = TRUE]
  <2>2. heap' = [heap EXCEPT ![item] = e] /\ e \in Edits(heap[item])
    BY <1>6 DEF CreateLabelsDict, Edits
  <2>3. /\ e.value = heap[item].value /\ e.children = heap[item].children
        /\ e.pernament = heap[item].pernament
    BY <2>1 DEF Metric
  <2> HIDE DEF e
  <2>4. heap'[item] = e /\ \A p \in DOMAIN heap : p # item => heap'[p] = heap[p]
    BY <1>0, <2>1, <2>2, EditContent
  <2>5. \A p \in DOMAIN heap : /\ heap'[p].value = heap[p].value
                               /\ heap'[p].children = heap[p].children
                               /\ heap'[p].pernament = heap[p].pernament
    BY <2>3, <2>4
  <2>6. Recorded' = Recorded /\ OthersRecorded' = OthersRecorded
    BY <1>0, <2>1, <2>5, RecordedSame, OthersSame
  <2> QED BY <1>0, <2>1, <2>5, <2>6 DEF VerdictInv, AtUnmarked, AtFirstLabel, AtLabel
<1>7. CASE AddLabel
  <2>1. /\ item \in DOMAIN heap /\ heap[item] \in Metric /\ apc = "add_label"
        /\ datagram.tags \in Tags /\ datagram.tags # NoTags
        /\ datagram.name \in DOMAIN metrics /\ metrics[datagram.name] = item
        /\ IF created THEN apc' = "mark" ELSE apc' = "idle" /\ status' = TRUE
        /\ UNCHANGED <<metrics, datagram, item, created, before>>
    BY <1>0, <1>7 DEF AddLabel, AtLabel, Progress, AtUnmarked, AtFirstLabel, VerdictInv
  <2> DEFINE e == [heap[item] EXCEPT !.children = @ \cup {datagram.tags},
                                     !.pcp_instance_change_requested = TRUE]
  <2>2. heap' = [heap EXCEPT ![item] = e] /\ e \in Edits(heap[item])
    BY <1>7, <2>1 DEF AddLabel, Edits
  <2>3. datagram.tags \in e.children /\ e.pernament = heap[item].pernament
    BY <2>1 DEF Metric
  <2> HIDE DEF e
  <2>4. heap'[item] = e /\ \A p \in DOMAIN heap : p # item => heap'[p] = heap[p]
    BY <1>0, <2>1, <2>2, EditContent
  <2>5. \A n \in DOMAIN metrics : heap'[metrics[n]].pernament = heap[metrics[n]].pernament
    BY <1>0, <2>3, <2>4
  <2>6. \A n \in DOMAIN metrics \ {datagram.name} : metrics[n] # item
    BY <1>0, <2>1
  <2>7. OthersRecorded' = OthersRecorded
    BY <1>0, <2>1, <2>4, <2>6, OthersSame
  <2>8. Holds(item)'
    BY <2>1, <2>3, <2>4 DEF Holds
  <2>9. Holds(metrics[datagram.name])'
    BY <2>1, <2>8
  <2>10. CASE created
    BY <2>1, <2>5, <2>7, <2>8, <2>10 DEF VerdictInv, AtUnmarked, AtFirstLabel, AtLabel
  <2>11. CASE ~created
    <3>1. \A n \in DOMAIN metrics : heap[metrics[n]].pernament
      BY <2>11 DEF VerdictInv
    <3> QED BY <2>1, <2>5, <2>9, <2>11, <3>1 DEF VerdictInv, AtUnmarked, AtFirstLabel, AtLabel
  <2> QED BY <2>10, <2>11
<1>8. CASE RemoveMetric
  <2>1. /\ item \in DOMAIN heap /\ metrics[datagram.name] = item /\ apc = "remove_metric" /\ created
        /\ apc' = "idle" /\ status' = FALSE /\ datagram.name \in DOMAIN metrics
        /\ metrics' = [n \in DOMAIN metrics \ {datagram.name} |-> metrics[n]]
        /\ OthersRecorded = before
        /\ UNCHANGED <<datagram, before>>
    BY <1>0, <1>8 DEF RemoveMetric, AtLabel, Progress, AtUnmarked, AtFirstLabel, VerdictInv
  <2> DEFINE e == [heap[item] EXCEPT !.alive = FALSE]
  <2>2. heap' = [heap EXCEPT ![item] = e] /\ e \in Edits(heap[item])
    BY <1>8 DEF RemoveMetric, Edits
  <2> HIDE DEF e
  <2>3. \A p \in DOMAIN heap : p # item => heap'[p] = heap[p]
    BY <1>0, <2>1, <2>2, EditContent
  <2>4. \A n \in DOMAIN metrics \ {datagram.name} :
          metrics[n] # item /\ metrics'[n] = metrics[n] /\ heap'[metrics[n]] = heap[metrics[n]]
    BY <1>0, <2>1, <2>3
  <2>5. DOMAIN metrics' \ {datagram.name} = DOMAIN metrics \ {datagram.name}
    BY <2>1
  <2>6. OthersRecorded' = OthersRecorded
    BY <2>1, <2>4, <2>5, OthersSame
  <2>7. OthersRecorded' = Recorded'
    <3>1. datagram' = datagram /\ datagram.name \notin DOMAIN metrics'
      BY <2>1
    <3>2. ASSUME NEW r \in Recorded' PROVE r.name # datagram.name
      <4>1. PICK n \in DOMAIN metrics' :
              r = [name |-> n, value |-> heap'[metrics'[n]].value,
                   children |-> heap'[metrics'[n]].children]
        BY DEF Recorded
      <4> QED BY <3>1, <4>1
    <3> QED BY <3>1, <3>2 DEF OthersRecorded
  <2>8. \A n \in DOMAIN metrics' : heap'[metrics'[n]].pernament
    BY <2>1, <2>4 DEF VerdictInv
  <2> QED BY <2>1, <2>6, <2>7, <2>8 DEF VerdictInv, AtUnmarked, AtFirstLabel, AtLabel
<1>9. CASE MarkPernament
  <2>1. /\ item \in DOMAIN heap /\ heap[item] \in Metric /\ apc = "mark" /\ created
        /\ metrics[datagram.name] = item /\ datagram.name \in DOMAIN metrics
        /\ apc' = "idle" /\ status' = TRUE /\ Holds(item)
        /\ UNCHANGED <<metrics, datagram>>
    BY <1>0, <1>9 DEF MarkPernament, AtMetric, Progress, AtUnmarked, AtFirstLabel, VerdictInv
  <2> DEFINE e == [heap[item] EXCEPT !.pernament = TRUE]
  <2>2. heap' = [heap EXCEPT ![item] = e] /\ e \in Edits(heap[item])
    BY <1>9 DEF MarkPernament, Edits
  <2>3. e.pernament /\ e.value = heap[item].value /\ e.children = heap[item].children
    BY <2>1 DEF Metric
  <2> HIDE DEF e
  <2>4. heap'[item] = e /\ \A p \in DOMAIN heap : p # item => heap'[p] = heap[p]
    BY <1>0, <2>1, <2>2, EditContent
  <2>5. \A n \in DOMAIN metrics' : heap'[metrics'[n]].pernament
    BY <1>0, <2>1, <2>3, <2>4 DEF VerdictInv
  <2>6. Holds(metrics[datagram.name])'
    BY <2>1, <2>3, <2>4 DEF Holds
  <2> QED BY <2>1, <2>5, <2>6 DEF VerdictInv, AtUnmarked, AtFirstLabel, AtLabel
<1> QED BY <1>1, <1>2, <1>3, <1>4, <1>5, <1>6, <1>7, <1>8, <1>9 DEF AggregatorNext

\* A step that leaves what is shown of every metric leaves the verdict.
LEMMA VerdictPcp ==
    ASSUME StoreInv, VerdictInv, UNCHANGED <<metrics, workVars>>,
           \A o \in DOMAIN heap : /\ heap'[o].pernament = heap[o].pernament
                                  /\ heap'[o].value = heap[o].value
                                  /\ heap'[o].children = heap[o].children
    PROVE  VerdictInv'
<1>1. /\ \A n \in DOMAIN metrics : metrics[n] \in DOMAIN heap
      /\ apc \in AtMetric \cup AtLabel => item \in DOMAIN heap
  BY DEF StoreInv, Typed, TableTyped, WorkTyped
<1>2. Recorded' = Recorded
  BY <1>1, RecordedSame
<1>3. OthersRecorded' = OthersRecorded
  BY <1>2 DEF OthersRecorded, workVars
<1>4. \A o \in DOMAIN heap : Holds(o) <=> Holds(o)'
  BY DEF Holds, workVars
<1>5. /\ UNCHANGED <<apc, datagram, item, created, status, before>>
      /\ \A n \in DOMAIN metrics : Holds(metrics[n]) <=> Holds(metrics[n])'
  BY <1>1, <1>4 DEF workVars
<1>6. apc = "mark" => (Holds(item) <=> Holds(item)')
  BY <1>1, <1>4, <1>5 DEF AtMetric
<1> QED BY <1>1, <1>2, <1>3, <1>5, <1>6 DEF VerdictInv, AtMetric, AtLabel

LEMMA VerdictInvHolds == Spec => [](NamesInv /\ VerdictInv)
<1>1. Init => VerdictInv
  <2> SUFFICES ASSUME Init PROVE VerdictInv
    OBVIOUS
  <2>1. metrics = <<>> /\ apc = "idle" /\ status = FALSE /\ before = {}
    BY DEF Init
  <2>2. Recorded = {}
    BY <2>1 DEF Recorded
  <2> QED BY <2>1, <2>2 DEF VerdictInv, AtUnmarked, AtFirstLabel, AtLabel
<1>2. ASSUME NamesInv, VerdictInv, [Next]_vars PROVE VerdictInv'
  <2>1. CASE AggregatorNext
    BY <1>2, <2>1, VerdictAggregator DEF NamesInv
  <2>2. ASSUME NEW n \in toMap, MapMetric(n) PROVE VerdictInv'
    <3>1. \A o \in DOMAIN heap : /\ heap'[o].pernament = heap[o].pernament
                                 /\ heap'[o].value = heap[o].value
                                 /\ heap'[o].children = heap[o].children
      BY <1>2, <2>2, MapContent DEF NamesInv, SameContent
    <3>2. UNCHANGED <<metrics, workVars>>
      BY <1>2, <2>2, MapContent DEF NamesInv
    <3> QED BY <1>2, <3>1, <3>2, VerdictPcp DEF NamesInv
  <2>3. CASE PcpQuiet \/ UNCHANGED vars
    <3>1. UNCHANGED <<storeVars, workVars>>
      BY <1>2, <2>3, PcpQuietTypes DEF NamesInv, StoreInv, vars
    <3> QED BY <1>2, <3>1, VerdictPcp DEF NamesInv, storeVars
  <2>4. CASE Undefined
    <3>1. apc' = "undefined" /\ UNCHANGED <<heap, metrics, datagram, item, created, before>>
      BY <2>4 DEF Undefined, storeVars
    <3>2. apc = "idle" => \A n \in DOMAIN metrics : heap[metrics[n]].pernament
      BY <1>2 DEF VerdictInv, AtUnmarked, AtFirstLabel
    <3> QED BY <1>2, <3>1, <3>2 DEF VerdictInv, AtUnmarked, AtFirstLabel, AtLabel
  <2> QED BY <1>2, <2>1, <2>2, <2>3, <2>4
          DEF Next, PcpNext, PcpQuiet, FreeUnwritten, ReadMissing, StayUndefined
<1>3. NamesInv /\ VerdictInv /\ [Next]_vars => VerdictInv'
  BY <1>2
<1> QED BY <1>1, <1>3, NamesInvHolds, PTL DEF Spec

\* Whatever malloc hands out, process_metric's verdict is what happened: an accepted
\* datagram is in the table, marked and under its labels; a refused one has left
\* the table as it was, also when its metric was added and removed again.
THEOREM VerdictMatchesTableCorrect == Spec => []VerdictMatchesTable
<1>1. ASSUME VerdictInv PROVE VerdictMatchesTable
  <2> SUFFICES ASSUME apc = "idle"
               PROVE  IF status
                      THEN \E r \in Recorded :
                             /\ r.name = datagram.name
                             /\ IF datagram.tags = NoTags THEN r.value
                                                          ELSE datagram.tags \in r.children
                             /\ heap[metrics[r.name]].pernament
                      ELSE Recorded = before
    BY DEF VerdictMatchesTable
  <2>1. CASE status
    <3> DEFINE n == datagram.name
               r == [name |-> n, value |-> heap[metrics[n]].value,
                     children |-> heap[metrics[n]].children]
    <3>1. n \in DOMAIN metrics /\ heap[metrics[n]].pernament /\ Holds(metrics[n])
      BY <1>1, <2>1 DEF VerdictInv
    <3>2. r \in Recorded
      BY <3>1 DEF Recorded
    <3>3. /\ r.name = datagram.name /\ heap[metrics[r.name]].pernament
          /\ IF datagram.tags = NoTags THEN r.value ELSE datagram.tags \in r.children
      BY <3>1 DEF Holds
    <3> QED BY <2>1, <3>2, <3>3
  <2>2. CASE ~status
    BY <1>1, <2>2 DEF VerdictInv
  <2> QED BY <2>1, <2>2
<1>2. NamesInv /\ VerdictInv => VerdictMatchesTable
  BY <1>1
<1> QED BY <1>2, VerdictInvHolds, PTL
=============================================================================
