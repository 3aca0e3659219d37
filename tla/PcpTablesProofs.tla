-------------------------- MODULE PcpTablesProofs --------------------------
(***************************************************************************)
(* Identifiers stay apart, whatever the widths of their fields and however *)
(* many metrics and reloads there are; names that PCP may read are in      *)
(* memory, and what is lost or freed twice is what PcpTables says.         *)
(***************************************************************************)
EXTENDS PcpTables, TLAPS, FiniteSetTheorems

Issued == {m \in Metric : pmid[m] # NoId}

Owning == {m \in Metric : pmindom[m] # NoId}

Capacity == (Clusters - 1) * (LastItem + 1)

IdType ==
    /\ next_cluster_id \in 1..Clusters
    /\ next_item_id \in 0..LastItem
    /\ next_cluster_id = Clusters => next_item_id = 0
    /\ pmid \in [Metric -> {NoId} \cup (Nat \X Nat)]
    /\ pmindom \in [Metric -> {NoId} \cup Nat]

\* What was handed out comes before what is next.
IssuedBefore ==
    /\ \A m \in Issued :
         /\ pmid[m][1] \in 1..next_cluster_id
         /\ pmid[m][1] = next_cluster_id => pmid[m][2] < next_item_id
    /\ \A m \in Owning : pmindom[m] \in 3..next_pmindom - 1

AllDistinct ==
    \A m, n \in Metric : Distinct(pmid, m, n) /\ Distinct(pmindom, m, n)

\* The counters count, and a metric has its pmID before a domain of its own.
Counted ==
    /\ Owning \subseteq Issued
    /\ Cardinality(Issued) = (next_cluster_id - 1) * (LastItem + 1) + next_item_id
    /\ next_pmindom = 3 + Cardinality(Owning)

IdInv == IdType /\ IssuedBefore /\ AllDistinct /\ Counted

LEMMA ConstantsTyped ==
    /\ LastItem \in Nat /\ Clusters \in Nat /\ Items \in Nat /\ Serials \in Nat
    /\ LastItem < Items /\ Clusters > 1
    /\ Capacity \in Nat /\ 3 + Capacity < Serials
    /\ IsFiniteSet(Metric)
BY FieldAssumption, TablesAssumption DEF Capacity

\* Counting in mixed radix stays below the capacity until the clusters are used up.
LEMMA CountBounded ==
    ASSUME NEW c \in 1..Clusters, NEW i \in 0..LastItem, c = Clusters => i = 0
    PROVE  (c - 1) * (LastItem + 1) + i <= Capacity
<1> DEFINE k == LastItem + 1
<1>1. k \in Nat /\ i <= k /\ (c = Clusters => i = 0) /\ Clusters \in Nat
  BY ConstantsTyped
<1>2. CASE c = Clusters
  BY <1>1, <1>2 DEF Capacity
<1>3. CASE c <= Clusters - 1
  <2> HIDE DEF k
  <2>1. (c - 1) * k + i <= (c - 1) * k + k
    BY <1>1
  <2>2. (c - 1) * k + k = c * k
    BY <1>1
  <2>3. c * k <= (Clusters - 1) * k
    BY <1>1, <1>3
  <2> QED BY <1>1, <2>1, <2>2, <2>3 DEF Capacity, k
<1> QED BY <1>1, <1>2, <1>3

\* A step of the two counters of get_next_pmID counts one.
LEMMA NextCounted ==
    ASSUME IdType, ~OutOfIds, NextId
    PROVE  /\ next_cluster_id' \in 1..Clusters
           /\ next_item_id' \in 0..LastItem
           /\ next_cluster_id' = Clusters => next_item_id' = 0
           /\ (next_cluster_id' - 1) * (LastItem + 1) + next_item_id'
                = (next_cluster_id - 1) * (LastItem + 1) + next_item_id + 1
<1> DEFINE k == LastItem + 1
<1>1. /\ next_cluster_id \in 1..Clusters - 1 /\ next_item_id \in 0..LastItem
      /\ k \in Nat /\ Clusters \in Nat /\ LastItem \in Nat
  BY ConstantsTyped DEF IdType, OutOfIds
<1>2. CASE next_item_id = LastItem
  <2>1. next_item_id' = 0 /\ next_cluster_id' = next_cluster_id + 1
    BY <1>2 DEF NextId
  <2>2. next_item_id + 1 = k
    BY <1>2
  <2> HIDE DEF k
  <2>3. next_cluster_id * k = (next_cluster_id - 1) * k + k
    BY <1>1
  <2> QED BY <1>1, <2>1, <2>2, <2>3 DEF k
<1>3. CASE next_item_id # LastItem
  BY <1>1, <1>3 DEF NextId
<1> QED BY <1>2, <1>3

\* What get_next_pmID returns are the counters themselves: no field wraps.
LEMMA PmIDExact ==
    ASSUME IdType, NEW id, GetNextPmID(id)
    PROVE  id = <<next_cluster_id, next_item_id>>
<1>1. /\ next_cluster_id \in Nat /\ next_cluster_id < Clusters
      /\ next_item_id \in Nat /\ next_item_id < Items
  BY ConstantsTyped DEF IdType, GetNextPmID, OutOfIds
<1>2. next_cluster_id % Clusters = next_cluster_id /\ next_item_id % Items = next_item_id
  BY <1>1, ConstantsTyped
<1> QED BY <1>2 DEF GetNextPmID, pmID_build

\* There is a serial for every metric that can get a pmID.
LEMMA SerialsOutlast ==
    ASSUME IdType, Counted
    PROVE  next_pmindom \in Nat /\ 3 <= next_pmindom /\ next_pmindom < Serials
<1>1. IsFiniteSet(Issued) /\ Issued \subseteq Metric
  BY ConstantsTyped, FS_Subset DEF Issued
<1>2. Cardinality(Owning) <= Cardinality(Issued) /\ IsFiniteSet(Owning)
  BY <1>1, FS_Subset DEF Counted
<1>3. Cardinality(Owning) \in Nat /\ Cardinality(Issued) \in Nat
  BY <1>1, <1>2, FS_CardinalityType
<1>4. Cardinality(Issued) <= Capacity
  BY CountBounded DEF IdType, Counted
<1> QED BY <1>2, <1>3, <1>4, ConstantsTyped DEF Counted

LEMMA PmInDomExact ==
    ASSUME IdType, Counted, NEW serial, GetNextPmInDom(serial)
    PROVE  serial = next_pmindom
BY SerialsOutlast, ConstantsTyped DEF GetNextPmInDom, pmInDom_build

LEMMA IdInit_IdInv == Init => IdInv
<1> SUFFICES ASSUME Init PROVE IdInv
  OBVIOUS
<1>1. Issued = {} /\ Owning = {}
  BY DEF Init, Issued, Owning
<1>2. IdType
  BY ConstantsTyped DEF Init, IdInit, IdType
<1>3. IssuedBefore
  BY <1>1 DEF IssuedBefore
<1>4. AllDistinct
  BY DEF Init, AllDistinct, Distinct
<1>5. Counted
  BY <1>1, FS_EmptySet, ConstantsTyped DEF Counted, Init, IdInit
<1> QED BY <1>2, <1>3, <1>4, <1>5 DEF IdInv

\* What map_metric does to the identifiers: a metric without a pmID gets the next
\* one, a metric without a domain of its own may get the next serial.
IdsGet(m) ==
    /\ \/ /\ pmid[m] = NoId
          /\ \E id : GetNextPmID(id) /\ pmid' = [pmid EXCEPT ![m] = id]
       \/ /\ pmid[m] # NoId
          /\ UNCHANGED <<next_cluster_id, next_item_id, pmid>>
    /\ \/ /\ pmindom[m] = NoId
          /\ \E serial : GetNextPmInDom(serial) /\ pmindom' = [pmindom EXCEPT ![m] = serial]
       \/ UNCHANGED <<next_pmindom, pmindom>>

LEMMA StepOnIds == Next => (\E m \in Metric : IdsGet(m)) \/ UNCHANGED ids
<1> SUFFICES ASSUME Next PROVE (\E m \in Metric : IdsGet(m)) \/ UNCHANGED ids
  OBVIOUS
<1>1. ASSUME NEW m \in Metric, MapMetric(m) PROVE IdsGet(m)
  <2>1. \/ /\ pmid[m] = NoId
           /\ \E id : GetNextPmID(id) /\ pmid' = [pmid EXCEPT ![m] = id]
        \/ /\ pmid[m] # NoId
           /\ UNCHANGED <<next_cluster_id, next_item_id, pmid>>
    BY <1>1 DEF MapMetric
  <2>2. UpdateDomain(m)
    BY <1>1 DEF MapMetric
  <2>3. CASE CreateInstance(m)
    BY <2>1, <2>3 DEF CreateInstance, IdsGet
  <2>4. CASE UNCHANGED <<next_pmindom, pmindom>>
    BY <2>1, <2>4 DEF IdsGet
  <2> QED BY <2>2, <2>3, <2>4 DEF UpdateDomain, UpdateInstance
<1>2. ASSUME NEW m \in Metric, RecordRoot(m) PROVE UNCHANGED ids
  BY <1>2 DEF RecordRoot
<1>3. ASSUME NEW m \in Metric, NEW label \in Label, RecordLabel(m, label) PROVE UNCHANGED ids
  BY <1>3 DEF RecordLabel
<1>4. ASSUME NEW m \in Metric, RunOut(m) PROVE UNCHANGED ids
  BY <1>4 DEF RunOut
<1>5. CASE BeginReload
  BY <1>5 DEF BeginReload
<1>6. CASE Release
  BY <1>6 DEF Release
<1>7. CASE ReleaseUndefined
  BY <1>7 DEF ReleaseUndefined
<1> QED BY <1>1, <1>2, <1>3, <1>4, <1>5, <1>6, <1>7 DEF Next

LEMMA IdInv_Step ==
    ASSUME IdInv, NEW m \in Metric, IdsGet(m)
    PROVE  IdInv'
<1> DEFINE new_id == <<next_cluster_id, next_item_id>>
<1>1. \/ /\ pmid[m] = NoId /\ ~OutOfIds /\ NextId
         /\ pmid' = [pmid EXCEPT ![m] = new_id]
      \/ /\ pmid[m] # NoId
         /\ UNCHANGED <<next_cluster_id, next_item_id, pmid>>
  BY PmIDExact DEF IdsGet, IdInv, GetNextPmID
<1>2. \/ /\ pmindom[m] = NoId /\ next_pmindom' = next_pmindom + 1
         /\ pmindom' = [pmindom EXCEPT ![m] = next_pmindom]
      \/ UNCHANGED <<next_pmindom, pmindom>>
  BY PmInDomExact DEF IdsGet, IdInv, GetNextPmInDom
<1>3. next_pmindom \in Nat /\ 3 <= next_pmindom
  BY SerialsOutlast DEF IdInv
<1>4. IdType'
  <2>1. next_cluster_id \in Nat /\ next_item_id \in Nat
    BY ConstantsTyped DEF IdInv, IdType
  <2>2. /\ next_cluster_id' \in 1..Clusters /\ next_item_id' \in 0..LastItem
        /\ (next_cluster_id = Clusters => next_item_id = 0)'
    BY <1>1, NextCounted DEF IdInv, IdType
  <2>3. pmid' \in [Metric -> {NoId} \cup (Nat \X Nat)]
    BY <1>1, <2>1 DEF IdInv, IdType
  <2>4. pmindom' \in [Metric -> {NoId} \cup Nat]
    BY <1>2, <1>3 DEF IdInv, IdType
  <2> QED BY <2>2, <2>3, <2>4 DEF IdType
<1>5. /\ Issued' = Issued \cup {m}
      /\ \/ UNCHANGED <<next_pmindom, pmindom>> /\ Owning' = Owning
         \/ pmindom[m] = NoId /\ next_pmindom' = next_pmindom + 1 /\ Owning' = Owning \cup {m}
  <2>1. Issued' = Issued \cup {m}
    BY <1>1, TablesAssumption DEF IdInv, IdType, Issued
  <2>2. CASE UNCHANGED <<next_pmindom, pmindom>>
    BY <2>1, <2>2 DEF Owning
  <2>3. CASE /\ pmindom[m] = NoId /\ next_pmindom' = next_pmindom + 1
             /\ pmindom' = [pmindom EXCEPT ![m] = next_pmindom]
    <3>1. next_pmindom # NoId
      BY <1>3, TablesAssumption
    <3>2. Owning' = Owning \cup {m}
      BY <2>3, <3>1 DEF IdInv, IdType, Owning
    <3> QED BY <2>1, <2>3, <3>2
  <2> QED BY <1>2, <2>2, <2>3
<1>6. IssuedBefore'
  <2>1. ASSUME NEW n \in Issued'
        PROVE  /\ pmid'[n][1] \in 1..next_cluster_id'
               /\ pmid'[n][1] = next_cluster_id' => pmid'[n][2] < next_item_id'
    <3>1. CASE pmid[m] # NoId
      BY <1>1, <1>5, <2>1, <3>1 DEF IdInv, IssuedBefore, Issued
    <3>2. CASE pmid[m] = NoId /\ n # m
      <4>1. n \in Issued /\ n \in Metric
        BY <1>5, <2>1, <3>2 DEF Issued
      <4>2. pmid'[n] = pmid[n]
        BY <1>1, <3>2, <4>1 DEF IdInv, IdType
      <4> QED
        BY <1>1, <3>2, <4>1, <4>2, ConstantsTyped
           DEF IdInv, IdType, IssuedBefore, NextId, Issued
    <3>3. CASE pmid[m] = NoId /\ n = m
      <4>1. pmid'[n] = new_id
        BY <1>1, <3>3 DEF IdInv, IdType
      <4> QED BY <1>1, <3>3, <4>1, ConstantsTyped DEF IdInv, IdType, NextId
    <3> QED BY <3>1, <3>2, <3>3
  <2>2. ASSUME NEW n \in Owning' PROVE pmindom'[n] \in 3..next_pmindom' - 1
    BY <1>2, <1>3, <1>5, <2>2 DEF IdInv, IdType, IssuedBefore, Owning
  <2> QED BY <2>1, <2>2 DEF IssuedBefore
<1>7. AllDistinct'
  <2> SUFFICES ASSUME NEW k \in Metric, NEW n \in Metric, k # n
               PROVE  /\ ~(pmid'[k] = pmid'[n] /\ pmid'[k] # NoId)
                      /\ ~(pmindom'[k] = pmindom'[n] /\ pmindom'[k] # NoId)
    BY DEF AllDistinct, Distinct
  <2>1. ASSUME NEW l \in Issued PROVE pmid[l] # new_id
    BY DEF IdInv, IdType, IssuedBefore, Issued
  <2>2. ASSUME NEW l \in Owning PROVE pmindom[l] # next_pmindom
    BY <1>3 DEF IdInv, IssuedBefore
  <2>3. ~(pmid'[k] = pmid'[n] /\ pmid'[k] # NoId)
    BY <1>1, <2>1 DEF IdInv, IdType, AllDistinct, Distinct, Issued
  <2>4. ~(pmindom'[k] = pmindom'[n] /\ pmindom'[k] # NoId)
    BY <1>2, <2>2 DEF IdInv, IdType, AllDistinct, Distinct, Owning
  <2> QED BY <2>3, <2>4
<1>8. Counted'
  <2>1. IsFiniteSet(Issued) /\ IsFiniteSet(Owning)
    BY ConstantsTyped, FS_Subset DEF Issued, Owning
  <2>2. Owning' \subseteq Issued'
    BY <1>5 DEF IdInv, Counted
  <2>3. Cardinality(Issued)' = (next_cluster_id' - 1) * (LastItem + 1) + next_item_id'
    <3>1. CASE pmid[m] = NoId
      <4>1. m \notin Issued
        BY <3>1 DEF Issued
      <4>2. Cardinality(Issued \cup {m}) = Cardinality(Issued) + 1
        BY <2>1, <4>1, FS_AddElement
      <4>3. (next_cluster_id' - 1) * (LastItem + 1) + next_item_id'
              = (next_cluster_id - 1) * (LastItem + 1) + next_item_id + 1
        BY <1>1, <3>1, NextCounted DEF IdInv
      <4> QED BY <1>5, <4>2, <4>3 DEF IdInv, Counted
    <3>2. CASE pmid[m] # NoId
      BY <1>1, <3>2 DEF IdInv, Counted, Issued
    <3> QED BY <3>1, <3>2
  <2>4. next_pmindom' = 3 + Cardinality(Owning)'
    <3>1. CASE pmindom[m] = NoId /\ next_pmindom' = next_pmindom + 1 /\ Owning' = Owning \cup {m}
      <4>1. m \notin Owning
        BY <3>1 DEF Owning
      <4>2. Cardinality(Owning \cup {m}) = Cardinality(Owning) + 1
        BY <2>1, <4>1, FS_AddElement
      <4>3. Cardinality(Owning) \in Nat
        BY <2>1, FS_CardinalityType
      <4> QED BY <3>1, <4>2, <4>3 DEF IdInv, Counted
    <3>2. CASE UNCHANGED next_pmindom /\ Owning' = Owning
      BY <3>2 DEF IdInv, Counted
    <3> QED BY <1>5, <3>1, <3>2
  <2> QED BY <2>2, <2>3, <2>4 DEF Counted
<1> QED BY <1>4, <1>6, <1>7, <1>8 DEF IdInv

LEMMA IdInvariant == Spec => []IdInv
<1>1. IdInv /\ [Next]_vars => IdInv'
  <2> SUFFICES ASSUME IdInv, [Next]_vars PROVE IdInv'
    OBVIOUS
  <2>1. CASE UNCHANGED ids
    BY <2>1 DEF ids, IdInv, IdType, IssuedBefore, AllDistinct, Distinct, Counted, Issued, Owning
  <2>2. ASSUME NEW m \in Metric, IdsGet(m) PROVE IdInv'
    BY <2>2, IdInv_Step
  <2> QED BY <2>1, <2>2, StepOnIds DEF vars, ids
<1> QED BY <1>1, IdInit_IdInv, PTL DEF Spec

\* The agent never gives the identifiers of one metric, or of its own metrics, to
\* another: before a field of pmID_build or pmInDom_build wraps, get_next_pmID gives
\* up, and get_next_pmInDom's late comparison is never reached.
THEOREM IdsCorrect == Spec => []IdsDistinct
<1>1. IdInv => IdsDistinct
  <2> SUFFICES ASSUME IdInv PROVE IdsDistinct
    OBVIOUS
  <2>1. ASSUME NEW m \in Metric, pmid[m] # NoId PROVE pmid[m][1] # 0
    BY <2>1 DEF IdInv, IssuedBefore, Issued
  <2>2. ASSUME NEW m \in Metric PROVE pmindom[m] \notin HardcodedSerials
    BY TablesAssumption DEF IdInv, IssuedBefore, Owning, HardcodedSerials
  <2>3. next_pmindom <= Serials
    BY SerialsOutlast, ConstantsTyped DEF IdInv
  <2> QED BY <2>1, <2>2, <2>3 DEF IdInv, AllDistinct, IdsDistinct
<1> QED BY <1>1, IdInvariant, PTL

-----------------------------------------------------------------------------
(* The invariant of the tables *)

\* How many labels a domain was built for, 0 for none; the names of a domain of c
\* labels with (r) or without a root value.
LabelsIn(domain) == IF domain = <<>> THEN 0 ELSE domain[Len(domain)][2]

Count(m) == LabelsIn(it_set[m])

Width(d) == IF d THEN DurationInstances ELSE 1

Offset(d, r) == IF r THEN Width(d) ELSE 0

DomainNames(m, d, r, c) ==
    [i \in 1..Offset(d, r) + c * Width(d) |->
        IF i <= Offset(d, r) THEN SharedName(d, i - 1) ELSE <<m, c, i - 1>>]

StateType ==
    /\ duration \in [Metric -> BOOLEAN]
    /\ root \in [Metric -> BOOLEAN]
    /\ pcp_instance_change_requested \in [Metric -> BOOLEAN]
    /\ \A m \in Metric : IsFiniteSet(children[m])
    /\ children = [m \in Metric |-> children[m]]
    /\ it_set = [m \in Metric |-> it_set[m]]
    /\ unmapped \subseteq Metric
    /\ ended \in {"no", "died", "undefined", "released"}

\* A change is requested exactly while a domain lacks labels of its metric.
DomainInv ==
    \A m \in Metric :
      /\ pmindom[m] = NoId => it_set[m] = <<>>
      /\ pmindom[m] # NoId =>
           /\ Count(m) \in Nat \ {0}
           /\ \E r \in BOOLEAN : /\ r => root[m]
                                 /\ it_set[m] = DomainNames(m, duration[m], r, Count(m))
      /\ Count(m) <= Cardinality(children[m])
      /\ pcp_instance_change_requested[m] <=> Count(m) < Cardinality(children[m])

\* The names of a domain are there until it is replaced; of one that was replaced the
\* names are freed from the place on where those of labels begin behind a root value.
NamesInv ==
    /\ allocated \subseteq Metric \X Nat \X Nat
    /\ \A m \in Metric, c \in Nat, i \in Nat :
         <<m, c, i>> \in allocated =>
           /\ c <= Count(m)
           /\ c = Count(m) => <<m, c, i>> \in Range(it_set[m])
           /\ c < Count(m) => (<<m, c, i>> \in freed <=> i >= Width(duration[m]))
    /\ freed \subseteq allocated
    /\ \A m \in Metric, c \in Nat, i \in Nat : <<m, c, i>> \in freed => c < Count(m)
    /\ \A m \in Metric : Range(it_set[m]) \subseteq allocated \cup SharedNames
    /\ twice = {}

\* The table is never longer than its count, every metric with a pmID has an entry of
\* its own, and the one after the agent's is that of the first pmID handed out.
TableInv ==
    /\ pcp_metric_count \in Nat /\ Len(pcp_metrics) \in Hardcoded..pcp_metric_count
    /\ pcp_metrics = [i \in 1..Len(pcp_metrics) |-> pcp_metrics[i]]
    /\ \A m \in Issued : \E i \in Hardcoded + 1..Len(pcp_metrics) : pcp_metrics[i] = m
    /\ pcp_metric_count = Hardcoded =>
         Issued = {} /\ next_cluster_id = 1 /\ next_item_id = 0
    /\ pcp_metric_count > Hardcoded =>
         /\ Len(pcp_metrics) > Hardcoded
         /\ pcp_metrics[Hardcoded + 1] \in Metric
         /\ pmid[pcp_metrics[Hardcoded + 1]] = <<1, 0>>

TablesInv ==
    /\ StateType /\ DomainInv /\ TableInv
    /\ ended # "released" => NamesInv
    /\ NamesLost /\ ReleasedOnce

-----------------------------------------------------------------------------
(* Names *)

LEMMA WidthTyped == \A d, r \in BOOLEAN : Width(d) \in Nat \ {0} /\ Offset(d, r) \in 0..Width(d)
BY TablesAssumption DEF Width, Offset

\* A domain says for how many labels it was built.
LEMMA DomainCount ==
    ASSUME NEW m, NEW d \in BOOLEAN, NEW r \in BOOLEAN, NEW c \in Nat \ {0}
    PROVE  LabelsIn(DomainNames(m, d, r, c)) = c
<1> DEFINE off == Offset(d, r)
           w   == Width(d)
           n   == off + c * w
           s   == DomainNames(m, d, r, c)
<1>1. off \in Nat /\ w \in Nat /\ w > 0 /\ c \in Nat /\ c > 0
  BY WidthTyped
<1>2. s = [i \in 1..n |-> IF i <= off THEN SharedName(d, i - 1) ELSE <<m, c, i - 1>>]
  BY DEF DomainNames
<1> HIDE DEF s, w, off
<1>3. c * w \in Nat /\ c * w > 0
  BY <1>1
<1>4. n \in Nat /\ n > off
  BY <1>1, <1>3
<1> HIDE DEF n
<1>5. Len(s) = n
  BY <1>2, <1>4
<1>6. s[n] = <<m, c, n - 1>>
  BY <1>1, <1>2, <1>4
<1>7. s # <<>>
  BY <1>1, <1>4, <1>5
<1>8. LabelsIn(s) = c
  BY <1>5, <1>6, <1>7 DEF LabelsIn
<1> QED BY <1>8 DEF s

\* What the names of a domain are, the first n of which are shared.
Parts(m, d, c, n, length) ==
    {SharedName(d, i) : i \in 0..n - 1} \cup {<<m, c, i>> : i \in n..length - 1}

LEMMA InDomain ==
    ASSUME NEW m, NEW d \in BOOLEAN, NEW r \in BOOLEAN, NEW c \in Nat
    PROVE  Range(DomainNames(m, d, r, c))
             = Parts(m, d, c, Offset(d, r), Offset(d, r) + c * Width(d))
<1> DEFINE off == Offset(d, r)
           w   == Width(d)
           n   == off + c * w
           s   == DomainNames(m, d, r, c)
<1>1. off \in Nat /\ w \in Nat /\ c \in Nat
  BY WidthTyped
<1>2. s = [i \in 1..n |-> IF i <= off THEN SharedName(d, i - 1) ELSE <<m, c, i - 1>>]
  BY DEF DomainNames
<1> SUFFICES Range(s) = Parts(m, d, c, off, n)
  OBVIOUS
<1> HIDE DEF s, w, off
<1>3. c * w \in Nat
  BY <1>1
<1>4. n \in Nat /\ n >= off
  BY <1>1, <1>3
<1> HIDE DEF n
<1>5. Range(s) = {s[i] : i \in 1..n}
  BY <1>2 DEF Range
<1>6. \A i \in 1..n : s[i] = IF i <= off THEN SharedName(d, i - 1) ELSE <<m, c, i - 1>>
  BY <1>2
<1>7. ASSUME NEW i \in 1..n PROVE s[i] \in Parts(m, d, c, off, n)
  <2>1. CASE i <= off
    <3>1. s[i] = SharedName(d, i - 1)
      BY <1>6, <2>1
    <3>2. i - 1 \in 0..off - 1
      BY <1>1, <1>4, <2>1
    <3> QED BY <3>1, <3>2 DEF Parts
  <2>2. CASE ~(i <= off)
    <3>1. s[i] = <<m, c, i - 1>>
      BY <1>6, <2>2
    <3>2. i - 1 \in off..n - 1
      BY <1>1, <1>4, <2>2
    <3> QED BY <3>1, <3>2 DEF Parts
  <2> QED BY <2>1, <2>2
<1>8. ASSUME NEW k \in 0..off - 1 PROVE SharedName(d, k) \in Range(s)
  <2>1. k + 1 \in 1..n /\ k + 1 <= off /\ (k + 1) - 1 = k
    BY <1>1, <1>4
  <2>2. s[k + 1] = SharedName(d, k)
    BY <1>6, <2>1
  <2> QED BY <1>5, <2>1, <2>2
<1>9. ASSUME NEW k \in off..n - 1 PROVE <<m, c, k>> \in Range(s)
  <2>1. k + 1 \in 1..n /\ ~(k + 1 <= off) /\ (k + 1) - 1 = k
    BY <1>1, <1>4
  <2>2. s[k + 1] = <<m, c, k>>
    BY <1>6, <2>1
  <2> QED BY <1>5, <2>1, <2>2
<1>10. Range(s) \subseteq Parts(m, d, c, off, n)
  BY <1>5, <1>7
<1>11. Parts(m, d, c, off, n) \subseteq Range(s)
  BY <1>8, <1>9 DEF Parts
<1> QED BY <1>10, <1>11

LEMMA SharedApart ==
    /\ \A n \in SharedNames : n \notin Metric \X Nat \X Nat
    /\ \A m \in Metric : Helper(m) \notin Metric \X Nat \X Nat
<1>1. ASSUME NEW n \in SharedNames PROVE n \notin Metric \X Nat \X Nat
  <2>1. PICK d, i : n = SharedName(d, i)
    BY DEF SharedNames
  <2> QED BY <2>1, TablesAssumption DEF SharedName
<1>2. ASSUME NEW m \in Metric PROVE Helper(m) \notin Metric \X Nat \X Nat
  BY DEF Helper
<1> QED BY <1>1, <1>2

\* The names of a metric's domain: shared ones if it has a root value, and its own.
LEMMA OwnNames ==
    ASSUME StateType, DomainInv, NEW m \in Metric, NEW name \in Range(it_set[m])
    PROVE  /\ children[m] # {} /\ Count(m) \in Nat
           /\ \/ root[m] /\ \E i \in 0..Width(duration[m]) - 1 : name = SharedName(duration[m], i)
              \/ \E i \in Nat : name = <<m, Count(m), i>>
<1>1. pmindom[m] # NoId
  <2>1. Range(<<>>) = {}
    BY DEF Range
  <2> QED BY <2>1 DEF DomainInv
<1>2. Count(m) \in Nat \ {0} /\ Count(m) <= Cardinality(children[m])
  BY <1>1 DEF DomainInv
<1>3. PICK r \in BOOLEAN : /\ r => root[m]
                          /\ it_set[m] = DomainNames(m, duration[m], r, Count(m))
  BY <1>1 DEF DomainInv
<1>4. children[m] # {}
  BY <1>2, FS_EmptySet
<1>5. PICK c \in Nat : c = Count(m)
  BY <1>2
<1>6. PICK d \in BOOLEAN : d = duration[m]
  BY DEF StateType
<1>7. name \in Range(DomainNames(m, d, r, c))
  BY <1>3, <1>5, <1>6
<1>8. PICK n, length : n = Offset(d, r) /\ name \in Parts(m, d, c, n, length)
  BY <1>7, InDomain
<1>9. /\ n \in 0..Width(d) /\ Width(d) \in Nat
      /\ n # 0 => root[m]
  BY <1>3, <1>8, WidthTyped DEF Offset
<1>10. \/ name \in {SharedName(d, i) : i \in 0..n - 1}
       \/ name \in {<<m, c, i>> : i \in n..length - 1}
  BY <1>8 DEF Parts
<1>11. CASE name \in {SharedName(d, i) : i \in 0..n - 1}
  <2>1. PICK i \in 0..n - 1 : name = SharedName(d, i)
    BY <1>11
  <2>2. root[m] /\ i \in 0..Width(d) - 1
    BY <1>9, <2>1
  <2> QED BY <1>2, <1>4, <1>6, <2>1, <2>2
<1>12. CASE name \in {<<m, c, i>> : i \in n..length - 1}
  <2>1. PICK i \in n..length - 1 : name = <<m, c, i>>
    BY <1>12
  <2>2. i \in Nat
    BY <1>9, <2>1
  <2> QED BY <1>2, <1>4, <1>5, <2>1, <2>2
<1> QED BY <1>10, <1>11, <1>12

\* What was freed is in no domain.
LEMMA FreedApart ==
    ASSUME StateType, DomainInv, NamesInv
    PROVE  freed \cap (InUse \cup SharedNames) = {}
<1> SUFFICES ASSUME NEW name \in freed, name \in InUse \cup SharedNames PROVE FALSE
  OBVIOUS
<1>1. name \in Metric \X Nat \X Nat
  BY DEF NamesInv
<1>2. PICK m \in Metric : name \in Range(it_set[m])
  BY <1>1, SharedApart DEF InUse
<1>3. \A i \in 0..Width(duration[m]) - 1 : name # SharedName(duration[m], i)
  <2>1. \A i : SharedName(duration[m], i)[1] = Shared
    BY DEF SharedName
  <2>2. name[1] \in Metric
    BY <1>1
  <2> QED BY <2>1, <2>2, TablesAssumption
<1>4. PICK i \in Nat : name = <<m, Count(m), i>>
  BY <1>2, <1>3, OwnNames
<1>5. Count(m) \in Nat
  BY <1>2, OwnNames
<1>6. PICK c \in Nat : c = Count(m)
  BY <1>5
<1> QED BY <1>4, <1>6 DEF NamesInv

\* Until the release, the names nobody can free any more are those of replaced
\* domains that no update_instance frees.
LEMMA LostNames ==
    ASSUME StateType, DomainInv, NamesInv
    PROVE  NamesLost
<1> SUFFICES ASSUME NEW name \in allocated, name \notin InUse
             PROVE  name \notin freed <=> name[3] < PerLabel(name[1])
  BY DEF NamesLost, Lost, Forgotten
<1>1. PICK m \in Metric, c \in Nat, i \in Nat : name = <<m, c, i>>
  BY DEF NamesInv
<1>2. name[1] = m /\ name[3] = i
  BY <1>1
<1>3. name \notin Range(it_set[m])
  BY DEF InUse
<1>4. c < Count(m)
  <2>1. c <= Count(m) /\ c # Count(m)
    BY <1>1, <1>3 DEF NamesInv
  <2>2. Count(m) \in Nat
    BY DEF DomainInv, Count, LabelsIn
  <2> QED BY <2>1, <2>2
<1>5. name \in freed <=> i >= Width(duration[m])
  BY <1>1, <1>4 DEF NamesInv
<1>6. PerLabel(m) = Width(duration[m]) /\ Width(duration[m]) \in Nat
  BY WidthTyped DEF PerLabel, Width, StateType
<1> QED BY <1>2, <1>5, <1>6

-----------------------------------------------------------------------------
(* What map_metric does to a domain *)

\* The names update_instance frees: those allocated for the labels of the domain it
\* replaces, from the place on where they begin behind a root value.
Replaced(m) == {it_set[m][i] : i \in {k \in DOMAIN it_set[m] : k > PerLabel(m)}}

LEMMA ReplacedNames ==
    ASSUME StateType, DomainInv, NamesInv, NEW m \in Metric, pmindom[m] # NoId
    PROVE  /\ Replaced(m) \subseteq allocated
           /\ \A k \in Metric, c \in Nat, i \in Nat :
                <<k, c, i>> \in Replaced(m) <=>
                  /\ <<k, c, i>> \in allocated
                  /\ k = m /\ c = Count(m) /\ i >= Width(duration[m])
<1>1. PICK c \in Nat : c = Count(m)
  BY DEF DomainInv
<1>2. PICK d \in BOOLEAN : d = duration[m]
  BY DEF StateType
<1>3. PICK r \in BOOLEAN : it_set[m] = DomainNames(m, d, r, c)
  BY <1>1, <1>2 DEF DomainInv
<1>4. PICK w \in Nat : w = Width(d)
  BY WidthTyped
<1>5. PICK n \in 0..w : n = Offset(d, r)
  BY <1>4, WidthTyped
<1>6. PICK s : s = it_set[m]
  OBVIOUS
<1>7. PICK length \in Nat :
        s = [i \in 1..length |-> IF i <= n THEN SharedName(d, i - 1) ELSE <<m, c, i - 1>>]
  <2>1. c * w \in Nat
    BY <1>4
  <2>2. n + c * w \in Nat
    BY <2>1
  <2>3. s = [i \in 1..n + c * w |-> IF i <= n THEN SharedName(d, i - 1) ELSE <<m, c, i - 1>>]
    BY <1>3, <1>4, <1>5, <1>6 DEF DomainNames
  <2> QED BY <2>2, <2>3
<1>8. /\ DOMAIN s = 1..length
      /\ \A i \in 1..length : i <= n => s[i] = SharedName(d, i - 1)
      /\ \A i \in 1..length : ~(i <= n) => s[i] = <<m, c, i - 1>>
  BY <1>7
<1>9. Replaced(m) = {s[i] : i \in {k \in 1..length : k > w}}
  BY <1>2, <1>4, <1>6, <1>8 DEF Replaced, PerLabel, Width
<1>10. ASSUME NEW i \in 1..length, i > w
       PROVE  s[i] = <<m, c, i - 1>> /\ i - 1 \in Nat /\ i - 1 >= w /\ s[i] \in allocated
  <2>1. s[i] = <<m, c, i - 1>> /\ i - 1 \in Nat /\ i - 1 >= w
    BY <1>8, <1>10
  <2>2. s[i] \in Range(it_set[m])
    BY <1>6, <1>8 DEF Range
  <2>3. s[i] \in allocated \cup SharedNames
    BY <2>2 DEF NamesInv
  <2> QED BY <2>1, <2>3, SharedApart
<1>11. Replaced(m) \subseteq allocated
  BY <1>9, <1>10
<1>12. ASSUME NEW k \in Metric, NEW b \in Nat, NEW i \in Nat
       PROVE  <<k, b, i>> \in Replaced(m) <=>
                <<k, b, i>> \in allocated /\ k = m /\ b = c /\ i >= w
  <2>1. ASSUME <<k, b, i>> \in Replaced(m) PROVE k = m /\ b = c /\ i >= w
    <3>1. PICK j \in 1..length : j > w /\ s[j] = <<k, b, i>>
      BY <1>9, <2>1
    <3> QED BY <1>10, <3>1
  <2>2. ASSUME <<k, b, i>> \in allocated, k = m, b = c, i >= w
        PROVE  <<k, b, i>> \in Replaced(m)
    <3>1. <<m, c, i>> \in Range(it_set[m])
      BY <1>1, <2>2 DEF NamesInv
    <3>2. PICK j \in 1..length : s[j] = <<m, c, i>>
      BY <1>6, <1>8, <3>1 DEF Range
    <3>3. ~(j <= n)
      BY <1>8, <3>2, TablesAssumption DEF SharedName
    <3>4. j - 1 = i
      BY <1>8, <3>2, <3>3
    <3> QED BY <1>4, <1>9, <2>2, <3>2, <3>4
  <2> QED BY <1>11, <2>1, <2>2
<1> QED BY <1>1, <1>2, <1>4, <1>11, <1>12

\* A metric without a domain has no name allocated, so that nothing of it is freed.
LEMMA NothingReplaced ==
    ASSUME StateType, DomainInv, NamesInv, NEW m \in Metric, pmindom[m] = NoId
    PROVE  Count(m) = 0 /\ \A c, i \in Nat : <<m, c, i>> \notin allocated
<1>1. it_set[m] = <<>> /\ Count(m) = 0 /\ Range(it_set[m]) = {}
  BY DEF DomainInv, Count, LabelsIn, Range
<1> QED BY <1>1 DEF NamesInv

\* What an update makes of the domain of a metric, freeing the names of gone.
DomainGets(m, c, gone) ==
    /\ pcp_instance_change_requested[m]
    /\ pcp_instance_change_requested' = [pcp_instance_change_requested EXCEPT ![m] = FALSE]
    /\ c \in Nat /\ c = Cardinality(children[m]) /\ Count(m) < c
    /\ it_set' = [it_set EXCEPT ![m] = DomainNames(m, duration[m], root[m], c)]
    /\ allocated \subseteq allocated'
    /\ \A name : name \in allocated' \ allocated
                  => \E i \in Nat : name = <<m, c, i>> /\ name \in Range(it_set'[m])
    /\ Range(it_set'[m]) \subseteq allocated' \cup SharedNames
    /\ freed' = freed \cup gone
    /\ twice' = twice \cup (freed \cap gone)
    /\ gone \subseteq allocated
    /\ \A k \in Metric, b \in Nat, i \in Nat :
         <<k, b, i>> \in gone <=>
           <<k, b, i>> \in allocated /\ k = m /\ b = Count(m) /\ i >= Width(duration[m])
    /\ \E serial : pmindom' = [pmindom EXCEPT ![m] = serial] /\ serial # NoId

LEMMA LabelsMapped ==
    ASSUME StateType, NEW m \in Metric, MapLabels(m),
           NEW c \in Nat, c = Cardinality(children[m])
    PROVE  /\ it_set' = [it_set EXCEPT ![m] = DomainNames(m, duration[m], root[m], c)]
           /\ allocated \subseteq allocated'
           /\ \A name : name \in allocated' \ allocated
                         => \E i \in Nat : name = <<m, c, i>> /\ name \in Range(it_set'[m])
           /\ Range(it_set'[m]) \subseteq allocated' \cup SharedNames
<1>1. PICK d \in BOOLEAN, r \in BOOLEAN : d = duration[m] /\ r = root[m]
  BY DEF StateType
<1>2. PICK w \in Nat : w = Width(d) /\ w = PerLabel(m)
  BY <1>1, WidthTyped DEF PerLabel, Width
<1>3. PICK n \in 0..w : n = Offset(d, r) /\ n = OffsetOf(m)
  BY <1>1, <1>2, WidthTyped DEF Offset, OffsetOf
<1>4. PICK length : length = n + c * w
  OBVIOUS
<1>5. Instances(m) = length /\ Offset(d, r) + c * Width(d) = length
  BY <1>2, <1>3, <1>4 DEF Instances
<1>6. Names(m) = DomainNames(m, d, r, c)
  BY <1>3, <1>5, <1>1 DEF Names, DomainNames, LabelName
<1>7. it_set'[m] = DomainNames(m, d, r, c)
  BY <1>6 DEF MapLabels, StateType
<1>8. Range(it_set'[m]) = Parts(m, d, c, n, length)
  <2>1. Range(DomainNames(m, d, r, c))
          = Parts(m, d, c, Offset(d, r), Offset(d, r) + c * Width(d))
    BY InDomain
  <2> QED BY <1>3, <1>5, <1>7, <2>1, Zenon
<1>9. NewNames(m) = {<<m, c, i>> : i \in n..length - 1}
  BY <1>3, <1>5 DEF NewNames, LabelName
<1>10. {SharedName(d, i) : i \in 0..n - 1} \subseteq SharedNames
  <2> SUFFICES ASSUME NEW i \in 0..n - 1 PROVE SharedName(d, i) \in SharedNames
    OBVIOUS
  <2>1. CASE d = TRUE
    <3>1. i \in 0..DurationInstances - 1
      BY <1>2, <2>1, TablesAssumption DEF Width
    <3> QED BY <2>1, <3>1 DEF SharedNames
  <2>2. CASE d = FALSE
    <3>1. i = 0
      BY <1>2, <2>2 DEF Width
    <3> QED BY <2>2, <3>1 DEF SharedNames
  <2> QED BY <2>1, <2>2
<1>11. allocated' = allocated \cup NewNames(m)
  BY DEF MapLabels
<1>12. ASSUME NEW i \in n..length - 1 PROVE i \in Nat
  OBVIOUS
<1>13. Range(it_set'[m]) = {SharedName(d, i) : i \in 0..n - 1} \cup NewNames(m)
  BY <1>8, <1>9 DEF Parts
<1>14. \A name \in NewNames(m) : \E i \in Nat : name = <<m, c, i>>
  BY <1>9, <1>12
<1>15. it_set' = [it_set EXCEPT ![m] = DomainNames(m, duration[m], root[m], c)]
  BY <1>1, <1>6 DEF MapLabels
<1> QED BY <1>10, <1>11, <1>13, <1>14, <1>15

LEMMA DomainStep ==
    ASSUME IdInv, StateType, DomainInv, NamesInv, NEW m \in Metric, UpdateDomain(m)
    PROVE  \/ \E c, gone : DomainGets(m, c, gone)
           \/ UNCHANGED <<pmindom, it_set, allocated, freed, twice, pcp_instance_change_requested>>
<1>1. CASE ~pcp_instance_change_requested[m]
  BY <1>1 DEF UpdateDomain
<1>2. CASE pcp_instance_change_requested[m]
  <2>1. /\ CreateInstance(m) \/ UpdateInstance(m)
        /\ pcp_instance_change_requested' = [pcp_instance_change_requested EXCEPT ![m] = FALSE]
    BY <1>2 DEF UpdateDomain
  <2>2. PICK c \in Nat : c = Cardinality(children[m])
    BY FS_CardinalityType DEF StateType
  <2>3. Count(m) < c
    BY <1>2, <2>2 DEF DomainInv
  <2>4. CASE CreateInstance(m)
    <3>1. pmindom[m] = NoId /\ MapLabels(m) /\ UNCHANGED <<freed, twice>>
      BY <2>4 DEF CreateInstance
    <3>2. \E serial : pmindom' = [pmindom EXCEPT ![m] = serial] /\ serial # NoId
      <4>1. PICK serial \in 0..Serials - 1 : pmindom' = [pmindom EXCEPT ![m] = serial]
        BY <2>4 DEF CreateInstance
      <4>2. serial \in Nat
        BY ConstantsTyped
      <4> QED BY <4>1, <4>2, TablesAssumption
    <3>3. Count(m) = 0 /\ \A b, i \in Nat : <<m, b, i>> \notin allocated
      BY <3>1, NothingReplaced
    <3>4. freed' = freed \cup {} /\ twice' = twice \cup (freed \cap {})
      BY <3>1
    <3>5. DomainGets(m, c, {})
      BY <1>2, <2>1, <2>2, <2>3, <3>1, <3>2, <3>3, <3>4, LabelsMapped DEF DomainGets
    <3> QED BY <3>5
  <2>5. CASE UpdateInstance(m)
    <3>1. /\ pmindom[m] # NoId /\ MapLabels(m) /\ UNCHANGED pmindom
          /\ Free(Replaced(m))
      BY <2>5 DEF UpdateInstance, Replaced
    <3>2. \E serial : pmindom' = [pmindom EXCEPT ![m] = serial] /\ serial # NoId
      <4>1. pmindom' = [pmindom EXCEPT ![m] = pmindom[m]]
        BY <3>1 DEF IdInv, IdType
      <4> QED BY <3>1, <4>1
    <3>3. freed' = freed \cup Replaced(m) /\ twice' = twice \cup (freed \cap Replaced(m))
      BY <3>1 DEF Free
    <3>4. PICK gone : gone = Replaced(m)
      OBVIOUS
    <3>5. /\ gone \subseteq allocated
          /\ \A k \in Metric, b \in Nat, i \in Nat :
               <<k, b, i>> \in gone <=>
                 <<k, b, i>> \in allocated /\ k = m /\ b = Count(m) /\ i >= Width(duration[m])
      BY <3>1, <3>4, ReplacedNames
    <3>6. freed' = freed \cup gone /\ twice' = twice \cup (freed \cap gone)
      BY <3>3, <3>4
    <3>7. DomainGets(m, c, gone)
      BY <1>2, <2>1, <2>2, <2>3, <3>1, <3>2, <3>5, <3>6, LabelsMapped DEF DomainGets
    <3> QED BY <3>7
  <2> QED BY <2>1, <2>4, <2>5
<1> QED BY <1>1, <1>2

LEMMA DomainGets_DomainInv ==
    ASSUME IdInv, StateType, DomainInv, UNCHANGED <<duration, root, children>>,
           NEW m \in Metric, NEW c, NEW gone, DomainGets(m, c, gone)
    PROVE  DomainInv' /\ Count(m)' = c /\ \A k \in Metric \ {m} : Count(k)' = Count(k)
<1>1. /\ c \in Nat \ {0} /\ c = Cardinality(children[m])
      /\ it_set' = [it_set EXCEPT ![m] = DomainNames(m, duration[m], root[m], c)]
      /\ pcp_instance_change_requested' = [pcp_instance_change_requested EXCEPT ![m] = FALSE]
  <2>1. Count(m) \in Nat /\ Count(m) < c /\ c \in Nat
    BY DEF DomainGets, DomainInv, Count, LabelsIn
  <2>2. c \in Nat \ {0}
    BY <2>1
  <2> QED BY <2>2 DEF DomainGets
<1>2. PICK serial : pmindom' = [pmindom EXCEPT ![m] = serial] /\ serial # NoId
  BY DEF DomainGets
<1>3. PICK d \in BOOLEAN, r \in BOOLEAN : d = duration[m] /\ r = root[m]
  BY DEF StateType
<1>4. it_set'[m] = DomainNames(m, d, r, c)
  BY <1>1, <1>3 DEF StateType
<1>5. Count(m)' = c
  BY <1>1, <1>4, DomainCount DEF Count
<1>6. ASSUME NEW k \in Metric, k # m
      PROVE  /\ it_set'[k] = it_set[k] /\ Count(k)' = Count(k)
             /\ pcp_instance_change_requested'[k] = pcp_instance_change_requested[k]
             /\ pmindom'[k] = pmindom[k]
  <2>1. it_set'[k] = it_set[k]
    BY <1>1, <1>6 DEF StateType
  <2>2. pcp_instance_change_requested'[k] = pcp_instance_change_requested[k]
    BY <1>1, <1>6 DEF StateType
  <2>3. pmindom'[k] = pmindom[k]
    BY <1>2, <1>6 DEF IdInv, IdType
  <2> QED BY <2>1, <2>2, <2>3 DEF Count
<1>7. DomainInv'
  <2> SUFFICES ASSUME NEW k \in Metric
      PROVE  /\ pmindom'[k] = NoId => it_set'[k] = <<>>
             /\ pmindom'[k] # NoId =>
                  /\ Count(k)' \in Nat \ {0}
                  /\ \E q \in BOOLEAN :
                       /\ q => root'[k]
                       /\ it_set'[k] = DomainNames(k, duration'[k], q, Count(k)')
             /\ Count(k)' <= Cardinality(children'[k])
             /\ pcp_instance_change_requested'[k] <=> Count(k)' < Cardinality(children'[k])
    BY DEF DomainInv
  <2>1. CASE k # m
    BY <1>6, <2>1 DEF DomainInv
  <2>2. CASE k = m
    <3>1. pmindom'[m] # NoId
      BY <1>2 DEF IdInv, IdType
    <3>2. ~pcp_instance_change_requested'[m]
      BY <1>1 DEF StateType
    <3>3. Count(m)' = Cardinality(children'[m]) /\ Count(m)' \in Nat \ {0}
      BY <1>1, <1>5
    <3>4. (r => root'[m]) /\ it_set'[m] = DomainNames(m, duration'[m], r, Count(m)')
      BY <1>3, <1>4, <1>5
    <3> QED BY <2>2, <3>1, <3>2, <3>3, <3>4
  <2> QED BY <2>1, <2>2
<1> QED BY <1>5, <1>6, <1>7

LEMMA DomainGets_NamesInv ==
    ASSUME IdInv, StateType, DomainInv, NamesInv, UNCHANGED <<duration, root, children>>,
           NEW m \in Metric, NEW c, NEW gone, DomainGets(m, c, gone)
    PROVE  NamesInv'
<1>1. /\ c \in Nat /\ Count(m) < c
      /\ allocated \subseteq allocated' /\ gone \subseteq allocated
      /\ freed' = freed \cup gone /\ twice' = twice \cup (freed \cap gone)
      /\ Range(it_set'[m]) \subseteq allocated' \cup SharedNames
  BY DEF DomainGets
<1>2. Count(m)' = c /\ \A k \in Metric \ {m} : Count(k)' = Count(k)
  BY DomainGets_DomainInv
<1>3. \A k \in Metric \ {m} : it_set'[k] = it_set[k]
  BY DEF DomainGets, StateType
<1>4. \A k \in Metric : Count(k) \in Nat
  BY DEF DomainInv, Count, LabelsIn
<1>5. \A name \in allocated' \ allocated :
        \E i \in Nat : name = <<m, c, i>> /\ name \in Range(it_set'[m])
  BY DEF DomainGets
<1>6. \A k \in Metric, b \in Nat, i \in Nat :
        <<k, b, i>> \in gone <=>
          <<k, b, i>> \in allocated /\ k = m /\ b = Count(m) /\ i >= Width(duration[m])
  BY DEF DomainGets
<1>7. allocated' \subseteq Metric \X Nat \X Nat
  BY <1>1, <1>5 DEF NamesInv
<1>8. freed' \subseteq allocated'
  BY <1>1 DEF NamesInv
<1>9. ASSUME NEW k \in Metric, NEW b \in Nat, NEW i \in Nat, <<k, b, i>> \in freed'
      PROVE  b < Count(k)'
  <2>1. CASE <<k, b, i>> \in gone
    BY <1>1, <1>2, <1>6, <2>1
  <2>2. CASE <<k, b, i>> \in freed
    <3>1. b < Count(k)
      BY <2>2 DEF NamesInv
    <3>2. CASE k = m
      BY <1>1, <1>2, <1>4, <3>1, <3>2
    <3>3. CASE k # m
      BY <1>2, <3>1, <3>3
    <3> QED BY <3>2, <3>3
  <2> QED BY <1>1, <1>9, <2>1, <2>2
<1>10. twice' = {}
  <2>1. ASSUME NEW name \in freed, name \in gone PROVE FALSE
    <3>1. PICK k \in Metric, b \in Nat, i \in Nat : name = <<k, b, i>>
      BY DEF NamesInv
    <3>2. b < Count(k)
      BY <3>1 DEF NamesInv
    <3>3. k = m /\ b = Count(m)
      BY <1>6, <2>1, <3>1
    <3> QED BY <1>4, <3>2, <3>3
  <2>2. freed \cap gone = {}
    BY <2>1
  <2> QED BY <1>1, <2>2 DEF NamesInv
<1>11. \A k \in Metric : Range(it_set'[k]) \subseteq allocated' \cup SharedNames
  <2>1. ASSUME NEW k \in Metric, k # m PROVE Range(it_set'[k]) \subseteq allocated' \cup SharedNames
    <3>1. Range(it_set[k]) \subseteq allocated \cup SharedNames
      BY DEF NamesInv
    <3> QED BY <1>1, <1>3, <2>1, <3>1
  <2> QED BY <1>1, <2>1
<1>12. ASSUME NEW k \in Metric, NEW b \in Nat, NEW i \in Nat, <<k, b, i>> \in allocated'
       PROVE  /\ b <= Count(k)'
              /\ b = Count(k)' => <<k, b, i>> \in Range(it_set'[k])
              /\ b < Count(k)' => (<<k, b, i>> \in freed' <=> i >= Width(duration[k]))
  <2>1. CASE <<k, b, i>> \notin allocated
    <3>1. PICK j \in Nat : <<k, b, i>> = <<m, c, j>> /\ <<k, b, i>> \in Range(it_set'[m])
      BY <1>5, <1>12, <2>1
    <3>2. k = m /\ b = c
      BY <3>1
    <3> QED BY <1>1, <1>2, <3>1, <3>2
  <2>2. CASE <<k, b, i>> \in allocated
    <3>1. /\ b <= Count(k)
          /\ b = Count(k) => <<k, b, i>> \in Range(it_set[k])
          /\ b < Count(k) => (<<k, b, i>> \in freed <=> i >= Width(duration[k]))
      BY <2>2 DEF NamesInv
    <3>2. CASE k # m
      <4>1. Count(k)' = Count(k) /\ it_set'[k] = it_set[k] /\ <<k, b, i>> \notin gone
        BY <1>2, <1>3, <1>6, <3>2
      <4> QED BY <1>1, <3>1, <4>1
    <3>3. CASE k = m /\ b = Count(m)
      <4>1. <<k, b, i>> \notin freed
        <5>1. <<k, b, i>> \in freed => b < Count(k)
          BY DEF NamesInv
        <5> QED BY <1>4, <3>3, <5>1
      <4>2. <<k, b, i>> \in gone <=> i >= Width(duration[k])
        BY <1>6, <2>2, <3>3
      <4>3. b < Count(k)'
        BY <1>1, <1>2, <3>3
      <4> QED BY <1>1, <1>2, <3>3, <4>1, <4>2, <4>3
    <3>4. CASE k = m /\ b # Count(m)
      <4>1. b < Count(k) /\ b < Count(k)'
        BY <1>1, <1>2, <1>4, <3>1, <3>4
      <4>2. <<k, b, i>> \notin gone
        BY <1>6, <3>4
      <4> QED BY <1>1, <1>2, <3>1, <3>4, <4>1, <4>2
    <3> QED BY <3>2, <3>3, <3>4
  <2> QED BY <2>1, <2>2
<1> QED BY <1>7, <1>8, <1>9, <1>10, <1>11, <1>12 DEF NamesInv

-----------------------------------------------------------------------------
(* What map_metric does to the table *)

LEMMA MapMetric_TableInv ==
    ASSUME IdInv, TableInv, NEW m \in Metric, MapMetric(m)
    PROVE  TableInv'
<1>1. PICK count \in Nat, length \in Nat :
        /\ count = pcp_metric_count /\ length = Len(pcp_metrics)
        /\ Hardcoded <= length /\ length <= count
  BY TablesAssumption DEF TableInv
<1>2. Hardcoded \in Nat /\ pcp_metric_count' = count + 1
  BY <1>1, TablesAssumption DEF MapMetric
<1>3. pcp_metrics = [i \in 1..length |-> pcp_metrics[i]]
  BY <1>1 DEF TableInv
<1>4. CASE pmid[m] = NoId
  <2>1. pcp_metrics' = Grown(m) /\ \E id : GetNextPmID(id) /\ pmid' = [pmid EXCEPT ![m] = id]
    BY <1>4 DEF MapMetric
  <2>2. pmid' = [pmid EXCEPT ![m] = <<next_cluster_id, next_item_id>>]
    BY <2>1, PmIDExact DEF IdInv
  <2>3. PICK table_1 : table_1 = Grown(m)
    OBVIOUS
  <2>4. table_1 = [i \in 1..count + 1 |->
                     IF i = count + 1 THEN m
                     ELSE IF i <= length THEN pcp_metrics[i] ELSE Garbage]
    BY <1>1, <2>3 DEF Grown
  <2>5. /\ Len(table_1) = count + 1 /\ table_1 = [i \in 1..count + 1 |-> table_1[i]]
        /\ table_1[count + 1] = m
        /\ \A i \in 1..length : table_1[i] = pcp_metrics[i]
    <3>1. /\ count + 1 \in 1..count + 1
          /\ \A i \in 1..length : i \in 1..count + 1 /\ i # count + 1 /\ i <= length
      BY <1>1
    <3>2. Len(table_1) = count + 1
      BY <1>1, <2>4
    <3> QED BY <2>4, <3>1, <3>2
  <2>6. pmid'[m] = <<next_cluster_id, next_item_id>> /\ \A k \in Metric \ {m} : pmid'[k] = pmid[k]
    BY <2>2 DEF IdInv, IdType
  <2>7. ASSUME NEW k \in Issued'
        PROVE  \E i \in Hardcoded + 1..count + 1 : table_1[i] = k
    <3>1. CASE k = m
      BY <1>1, <1>2, <2>5, <3>1
    <3>2. CASE k # m
      <4>1. k \in Issued
        BY <2>6, <3>2 DEF Issued
      <4>2. PICK i \in Hardcoded + 1..length : pcp_metrics[i] = k
        BY <1>1, <4>1 DEF TableInv
      <4>3. table_1[i] = k /\ i \in Hardcoded + 1..count + 1
        <5>1. i \in 1..length /\ i \in Hardcoded + 1..count + 1
          BY <1>1, <1>2
        <5> QED BY <2>5, <4>2, <5>1
      <4> QED BY <4>3
    <3> QED BY <3>1, <3>2
  <2>8. table_1[Hardcoded + 1] \in Metric /\ pmid'[table_1[Hardcoded + 1]] = <<1, 0>>
    <3>1. CASE count = Hardcoded
      <4>1. next_cluster_id = 1 /\ next_item_id = 0
        BY <1>1, <3>1 DEF TableInv
      <4> QED BY <2>5, <2>6, <3>1, <4>1
    <3>2. CASE count > Hardcoded
      <4>1. /\ length > Hardcoded /\ pcp_metrics[Hardcoded + 1] \in Metric
            /\ pmid[pcp_metrics[Hardcoded + 1]] = <<1, 0>>
        BY <1>1, <3>2 DEF TableInv
      <4>2. table_1[Hardcoded + 1] = pcp_metrics[Hardcoded + 1]
        <5>1. Hardcoded + 1 \in 1..length
          BY <1>1, <1>2, <4>1
        <5> QED BY <2>5, <5>1
      <4>3. pcp_metrics[Hardcoded + 1] # m
        <5>1. <<1, 0>> \in Nat \X Nat
          OBVIOUS
        <5> QED BY <1>4, <4>1, <5>1, TablesAssumption
      <4> QED BY <2>6, <4>1, <4>2, <4>3
    <3> QED BY <1>1, <1>2, <3>1, <3>2
  <2>9. pcp_metrics' = table_1 /\ Len(table_1) \in Hardcoded..count + 1 /\ count + 1 > Hardcoded
    BY <1>1, <1>2, <2>1, <2>3, <2>5
  <2> QED BY <1>2, <2>5, <2>7, <2>8, <2>9 DEF TableInv
<1>5. CASE pmid[m] # NoId
  <2>1. UNCHANGED <<pmid, pcp_metrics>> /\ Issued' = Issued
    BY <1>5 DEF MapMetric, Issued
  <2>2. m \in Issued
    BY <1>5 DEF Issued
  <2>3. count > Hardcoded
    BY <1>1, <1>2, <2>2 DEF TableInv
  <2>4. /\ length > Hardcoded /\ pcp_metrics[Hardcoded + 1] \in Metric
        /\ pmid[pcp_metrics[Hardcoded + 1]] = <<1, 0>>
    BY <1>1, <2>3 DEF TableInv
  <2>5. count + 1 \in Nat /\ length \in Hardcoded..count + 1 /\ count + 1 # Hardcoded
    BY <1>1, <1>2, <2>3
  <2> QED BY <1>1, <1>2, <2>1, <2>4, <2>5 DEF TableInv
<1> QED BY <1>4, <1>5

-----------------------------------------------------------------------------
(* Release *)

\* Of the names shared by root values a domain has all of its metric's kind, if it was
\* built with a root value, and else none.
LEMMA SharedIn ==
    ASSUME StateType, DomainInv, NamesInv, NEW m \in Metric
    PROVE  /\ Range(it_set[m]) \ allocated # {} =>
                {SharedName(duration[m], i) : i \in 0..PerLabel(m) - 1} \subseteq Range(it_set[m])
           /\ \A name \in SharedNames :
                name \in Range(it_set[m]) =>
                  /\ Range(it_set[m]) \ allocated # {}
                  /\ \E i \in 0..PerLabel(m) - 1 : name = SharedName(duration[m], i)
<1>1. PICK d \in BOOLEAN : d = duration[m]
  BY DEF StateType
<1>2. PerLabel(m) = Width(d) /\ Width(d) \in Nat \ {0}
  BY <1>1, WidthTyped DEF PerLabel, Width
<1>3. ASSUME NEW name \in SharedNames PROVE name \notin allocated
  BY <1>3, SharedApart DEF NamesInv
<1>4. ASSUME NEW name \in SharedNames, name \in Range(it_set[m])
      PROVE  /\ Range(it_set[m]) \ allocated # {}
             /\ \E i \in 0..PerLabel(m) - 1 : name = SharedName(duration[m], i)
  <2>1. PICK c \in Nat : c = Count(m)
    BY <1>4, OwnNames
  <2>2. ASSUME NEW i \in Nat PROVE name # <<m, c, i>>
    BY <1>4, SharedApart
  <2>3. \E i \in 0..Width(duration[m]) - 1 : name = SharedName(duration[m], i)
    BY <1>4, <2>1, <2>2, OwnNames
  <2> QED BY <1>1, <1>2, <1>3, <1>4, <2>3
<1>5. ASSUME NEW name \in Range(it_set[m]), name \notin allocated, NEW i \in 0..Width(d) - 1
      PROVE  SharedName(d, i) \in Range(it_set[m])
  <2>1. name \in SharedNames
    BY <1>5 DEF NamesInv
  <2>2. pmindom[m] # NoId
    <3>1. Range(<<>>) = {}
      BY DEF Range
    <3> QED BY <1>5, <3>1 DEF DomainInv
  <2>3. PICK r \in BOOLEAN, c \in Nat :
          c = Count(m) /\ it_set[m] = DomainNames(m, d, r, c)
    BY <1>1, <2>2 DEF DomainInv
  <2>4. Range(it_set[m]) = Parts(m, d, c, Offset(d, r), Offset(d, r) + c * Width(d))
    BY <2>3, InDomain
  <2>5. CASE r
    <3>1. Offset(d, r) = Width(d)
      BY <2>5 DEF Offset
    <3> QED BY <2>4, <3>1, <1>5 DEF Parts
  <2>6. CASE ~r
    <3>1. Offset(d, r) = 0 /\ 0..0 - 1 = {}
      BY <2>6 DEF Offset
    <3>2. PICK length : Range(it_set[m]) = Parts(m, d, c, 0, length)
      BY <2>4, <3>1
    <3>3. PICK i_inst \in 0..length - 1 : name = <<m, c, i_inst>>
      BY <1>5, <3>1, <3>2 DEF Parts
    <3>4. i_inst \in Nat
      OBVIOUS
    <3> QED BY <2>1, <3>3, <3>4, SharedApart
  <2> QED BY <2>5, <2>6
<1>6. ASSUME Range(it_set[m]) \ allocated # {}
      PROVE  {SharedName(duration[m], i) : i \in 0..PerLabel(m) - 1} \subseteq Range(it_set[m])
  BY <1>1, <1>2, <1>5, <1>6
<1> QED BY <1>4, <1>6

\* The shared names found in domains are those of the kinds of the domains that were
\* built with a root value.
SharedOf(m) == {SharedName(duration[m], i) : i \in 0..PerLabel(m) - 1}

WithRoot == {m \in Metric : Range(it_set[m]) \ allocated # {}}

LEMMA OftenFreed ==
    ASSUME StateType, DomainInv, NamesInv
    PROVE  {n \in SharedNames : Occurrences(n) # {}} = UNION {SharedOf(m) : m \in WithRoot}
<1>1. ASSUME NEW name \in SharedNames, Occurrences(name) # {}
      PROVE  \E m \in WithRoot : name \in SharedOf(m)
  <2>1. PICK m \in Metric : \E i \in DOMAIN it_set[m] : it_set[m][i] = name
    BY <1>1 DEF Occurrences
  <2>2. name \in Range(it_set[m])
    BY <2>1 DEF Range
  <2> QED BY <2>2, SharedIn DEF WithRoot, SharedOf
<1>2. ASSUME NEW m \in WithRoot, NEW name \in SharedOf(m)
      PROVE  name \in SharedNames /\ Occurrences(name) # {}
  <2>1. m \in Metric /\ name \in Range(it_set[m])
    BY SharedIn DEF WithRoot, SharedOf
  <2>2. Occurrences(name) # {}
    BY <2>1 DEF Occurrences, Range
  <2>3. duration[m] \in BOOLEAN
    BY <2>1 DEF StateType
  <2>4. name \in SharedNames
    <3>1. PICK i \in 0..PerLabel(m) - 1 : name = SharedName(duration[m], i)
      BY DEF SharedOf
    <3>2. CASE duration[m]
      BY <2>3, <3>1, <3>2 DEF SharedNames, PerLabel, SharedName
    <3>3. CASE ~duration[m]
      <4>1. i = 0 /\ duration[m] = FALSE
        BY <2>3, <3>1, <3>3 DEF PerLabel
      <4> QED BY <3>1, <4>1 DEF SharedNames
    <3> QED BY <3>2, <3>3
  <2> QED BY <2>2, <2>4
<1> QED BY <1>1, <1>2

\* What is freed twice at the end, and what is still there and nobody frees.
LEMMA Released ==
    ASSUME IdInv, StateType, DomainInv, TableInv, NamesInv, NamesLost, Release
    PROVE  NamesLost' /\ ReleasedOnce'
<1> DEFINE helpers == {Helper(pcp_metrics[i]) : i \in Dynamic}
           first   == {Helper(pcp_metrics[i]) : i \in Dynamic \cap {Hardcoded + 1}}
           often   == {n \in SharedNames : Occurrences(n) # {}}
<1>1. /\ freed' = freed \cup helpers \cup (SharedNames \cup InUse)
      /\ twice' = twice \cup first \cup often \cup (freed \cap (SharedNames \cup InUse))
      /\ UNCHANGED <<duration, root, children, it_set, allocated, pmid>>
  BY DEF Release, InUse, datagrams, ids
<1>2. twice = {} /\ freed \cap (SharedNames \cup InUse) = {}
  BY FreedApart DEF NamesInv
<1>3. PICK length \in Nat :
        /\ length = Len(pcp_metrics) /\ DOMAIN pcp_metrics = 1..length
        /\ length <= pcp_metric_count /\ pcp_metric_count \in Nat /\ Hardcoded \in Nat
        /\ length >= Hardcoded
  <2>1. PICK length : length = Len(pcp_metrics)
    OBVIOUS
  <2>2. pcp_metrics = [i \in 1..length |-> pcp_metrics[i]]
    BY <2>1 DEF TableInv
  <2>3. DOMAIN pcp_metrics = 1..length
    BY <2>2
  <2>4. /\ length \in Nat /\ length <= pcp_metric_count /\ pcp_metric_count \in Nat
        /\ Hardcoded \in Nat /\ length >= Hardcoded
    BY <2>1, TablesAssumption DEF TableInv
  <2> QED BY <2>1, <2>3, <2>4
<1>4. ASSUME NEW m \in Metric, pmid[m] # NoId PROVE Helper(m) \in helpers
  <2>1. PICK i \in Hardcoded + 1..length : pcp_metrics[i] = m
    BY <1>3, <1>4 DEF TableInv, Issued
  <2>2. i \in Dynamic
    BY <1>3, <2>1, TablesAssumption DEF Dynamic
  <2> QED BY <2>1, <2>2
<1>5. ASSUME NEW name \in first
      PROVE  \E m \in Metric : name = Helper(m) /\ pmid[m] = <<1, 0>>
  <2>1. Hardcoded + 1 \in Dynamic /\ name = Helper(pcp_metrics[Hardcoded + 1])
    OBVIOUS
  <2>2. pcp_metric_count > Hardcoded
    BY <1>3, <2>1 DEF Dynamic
  <2>3. /\ pcp_metrics[Hardcoded + 1] \in Metric
        /\ pmid[pcp_metrics[Hardcoded + 1]] = <<1, 0>>
    BY <2>2 DEF TableInv
  <2> QED BY <2>1, <2>3
<1>6. ASSUME NEW m \in Metric, pmid[m] = <<1, 0>> PROVE Helper(m) \in first
  <2>1. pmid[m] # NoId
    <3>1. <<1, 0>> \in Nat \X Nat
      OBVIOUS
    <3> QED BY <1>6, <3>1, TablesAssumption
  <2>2. pcp_metric_count > Hardcoded
    BY <1>3, <2>1 DEF TableInv, Issued
  <2>3. /\ length > Hardcoded /\ pcp_metrics[Hardcoded + 1] \in Metric
        /\ pmid[pcp_metrics[Hardcoded + 1]] = <<1, 0>>
    BY <1>3, <2>2 DEF TableInv
  <2>4. pcp_metrics[Hardcoded + 1] = m
    BY <1>6, <2>1, <2>3 DEF IdInv, AllDistinct, Distinct
  <2>5. Hardcoded + 1 \in 1..length /\ Hardcoded + 1 \in Hardcoded + 1..pcp_metric_count
    BY <1>3, <2>2, <2>3
  <2>6. Hardcoded + 1 \in Dynamic
    BY <1>3, <2>3, <2>5, TablesAssumption DEF Dynamic
  <2> QED BY <2>4, <2>6
<1>7. helpers \cap allocated = {} /\ SharedNames \cap allocated = {}
  <2>1. allocated \subseteq Metric \X Nat \X Nat
    BY DEF NamesInv
  <2>2. \A n \in SharedNames : n \notin allocated
    BY <2>1, SharedApart
  <2>3. ASSUME NEW x PROVE Helper(x) \notin allocated
    BY <2>1 DEF Helper
  <2> QED BY <2>2, <2>3
<1>8. often = UNION {SharedOf(m) : m \in WithRoot}
  BY OftenFreed
<1> HIDE DEF helpers, first, often
<1>9. InUse' = InUse /\ Lost' = Lost
  <2>1. InUse' = InUse
    BY <1>1 DEF InUse
  <2> QED BY <1>1, <1>7, <2>1 DEF Lost
<1>10. Forgotten' = Forgotten
  BY <1>1, <1>9 DEF Forgotten, PerLabel
<1>11. NamesLost'
  BY <1>9, <1>10 DEF NamesLost
<1>12. allocated' \ freed' = Forgotten'
  <2>1. allocated \ freed' = allocated \ (freed \cup InUse)
    BY <1>1, <1>7
  <2> QED BY <1>1, <1>10, <2>1 DEF NamesLost, Lost
<1>13. \A m \in Metric : pmid'[m] # NoId => Helper(m) \in freed'
  BY <1>1, <1>4
<1>14. twice' = first \cup often
  BY <1>1, <1>2
<1>15. first = {Helper(m) : m \in {k \in Metric : pmid[k] = <<1, 0>>}}
  BY <1>5, <1>6
<1>16. Doubly = first \cup often
  BY <1>8, <1>15 DEF Doubly, SharedOf, WithRoot
<1>17. Doubly' = Doubly
  BY <1>1 DEF Doubly, PerLabel, SharedName, Helper, Shared
<1>18. ReleasedOnce'
  BY <1>12, <1>13, <1>14, <1>16, <1>17 DEF ReleasedOnce
<1> QED BY <1>11, <1>18

-----------------------------------------------------------------------------
(* Every step *)

LEMMA Init_TablesInv == Init => TablesInv
<1> SUFFICES ASSUME Init PROVE TablesInv
  OBVIOUS
<1>1. StateType
  BY FS_EmptySet DEF Init, StateType
<1>2. \A m \in Metric : it_set[m] = <<>> /\ Count(m) = 0 /\ Cardinality(children[m]) = 0
  BY FS_EmptySet DEF Init, Count, LabelsIn
<1>3. DomainInv
  BY <1>2 DEF Init, DomainInv
<1>4. TableInv
  <2>1. Issued = {} /\ Hardcoded \in Nat
    BY TablesAssumption DEF Init, Issued
  <2>2. Len(pcp_metrics) = Hardcoded /\ pcp_metrics = [i \in 1..Hardcoded |-> pcp_metrics[i]]
    BY <2>1 DEF Init
  <2> QED BY <2>1, <2>2 DEF Init, IdInit, TableInv
<1>5. NamesInv
  BY <1>2 DEF Init, NamesInv, Range
<1>6. NamesLost
  BY <1>1, <1>3, <1>5, LostNames
<1>7. ReleasedOnce
  BY DEF Init, ReleasedOnce
<1> QED BY <1>1, <1>3, <1>4, <1>5, <1>6, <1>7 DEF TablesInv

\* Everything the rest of the invariant speaks about but the labels of m.
Kept == UNCHANGED <<duration, pmid, pmindom, pcp_metrics, pcp_metric_count, it_set,
                    allocated, freed, twice, next_cluster_id, next_item_id>>

LEMMA Kept_Inv ==
    ASSUME Kept, TableInv, NamesInv
    PROVE  TableInv' /\ NamesInv'
<1>1. TableInv'
  BY DEF Kept, TableInv, Issued
<1>2. NamesInv'
  BY DEF Kept, NamesInv, Count
<1> QED BY <1>1, <1>2

LEMMA RecordLabel_DomainInv ==
    ASSUME StateType, DomainInv, NEW m \in Metric, NEW label \in Label, RecordLabel(m, label)
    PROVE  StateType' /\ DomainInv'
<1>1. /\ label \notin children[m]
      /\ children' = [children EXCEPT ![m] = @ \cup {label}]
      /\ pcp_instance_change_requested' = [pcp_instance_change_requested EXCEPT ![m] = TRUE]
      /\ UNCHANGED <<duration, root, unmapped, ended, pmindom, it_set>>
  BY DEF RecordLabel, ids, memory
<1>2. /\ IsFiniteSet(children[m]) /\ Cardinality(children[m]) \in Nat
      /\ IsFiniteSet(children[m] \cup {label})
      /\ Cardinality(children[m] \cup {label}) = Cardinality(children[m]) + 1
  BY <1>1, FS_AddElement, FS_CardinalityType DEF StateType
<1>3. children'[m] = children[m] \cup {label} /\ \A k \in Metric \ {m} : children'[k] = children[k]
  BY <1>1 DEF StateType
<1>4. /\ pcp_instance_change_requested'[m]
      /\ \A k \in Metric \ {m} :
           pcp_instance_change_requested'[k] = pcp_instance_change_requested[k]
  BY <1>1 DEF StateType
<1>5. StateType'
  BY <1>1, <1>2, <1>3 DEF StateType
<1>6. ASSUME NEW k \in Metric
      PROVE  /\ Count(k)' = Count(k) /\ Count(k) <= Cardinality(children'[k])
             /\ pcp_instance_change_requested'[k] <=> Count(k) < Cardinality(children'[k])
  <2>1. Count(k)' = Count(k) /\ Count(k) \in Nat
    BY <1>1 DEF Count, DomainInv, LabelsIn
  <2>2. /\ Count(k) <= Cardinality(children[k])
        /\ pcp_instance_change_requested[k] <=> Count(k) < Cardinality(children[k])
    BY DEF DomainInv
  <2>3. CASE k = m
    BY <1>2, <1>3, <1>4, <2>1, <2>2, <2>3
  <2>4. CASE k # m
    BY <1>3, <1>4, <2>1, <2>2, <2>4
  <2> QED BY <2>3, <2>4
<1>7. DomainInv'
  BY <1>1, <1>6 DEF DomainInv
<1> QED BY <1>5, <1>7

LEMMA TablesInv_Step ==
    ASSUME IdInv, IdInv', TablesInv, Next
    PROVE  TablesInv'
<1>1. ended = "no" /\ StateType /\ DomainInv /\ TableInv /\ NamesInv /\ NamesLost
  BY DEF TablesInv, Next, RecordRoot, RecordLabel, MapMetric, RunOut, BeginReload,
         Release, ReleaseUndefined, Running
<1>2. ASSUME StateType', DomainInv', TableInv', NamesInv', ended' # "released"
      PROVE  TablesInv'
  <2>1. NamesLost'
    BY <1>2, LostNames, PTL
  <2>2. ReleasedOnce'
    BY <1>2 DEF ReleasedOnce
  <2> QED BY <1>2, <2>1, <2>2 DEF TablesInv
<1>3. ASSUME NEW m \in Metric, RecordRoot(m) PROVE TablesInv'
  <2>1. Kept /\ UNCHANGED <<children, pcp_instance_change_requested, unmapped, ended>>
    BY <1>3 DEF RecordRoot, Kept, ids, table, memory
  <2>2. root' = [root EXCEPT ![m] = TRUE]
    BY <1>3 DEF RecordRoot
  <2>3. StateType'
    BY <1>1, <2>1, <2>2 DEF Kept, StateType
  <2>4. \A k \in Metric : root[k] => root'[k]
    BY <1>1, <2>2 DEF StateType
  <2>5. DomainInv'
    BY <1>1, <2>1, <2>4 DEF Kept, DomainInv, Count
  <2> QED BY <1>1, <1>2, <2>1, <2>3, <2>5, Kept_Inv
<1>4. ASSUME NEW m \in Metric, NEW label \in Label, RecordLabel(m, label) PROVE TablesInv'
  <2>1. Kept /\ UNCHANGED ended
    BY <1>4 DEF RecordLabel, Kept, ids, table, memory
  <2> QED BY <1>1, <1>2, <1>4, <2>1, Kept_Inv, RecordLabel_DomainInv
<1>5. ASSUME NEW m \in Metric, MapMetric(m) PROVE TablesInv'
  <2>1. UpdateDomain(m) /\ UNCHANGED <<duration, root, children, ended>>
    BY <1>5 DEF MapMetric, datagrams
  <2>2. unmapped' \subseteq Metric
    BY <1>1, <1>5 DEF MapMetric, StateType
  <2>3. TableInv'
    BY <1>1, <1>5, MapMetric_TableInv
  <2>4. CASE \E c, gone : DomainGets(m, c, gone)
    <3>1. PICK c, gone : DomainGets(m, c, gone)
      BY <2>4
    <3>2. DomainInv' /\ NamesInv'
      BY <1>1, <2>1, <3>1, DomainGets_DomainInv, DomainGets_NamesInv
    <3>3. StateType'
      BY <1>1, <2>1, <2>2, <3>1 DEF DomainGets, StateType
    <3> QED BY <1>1, <1>2, <2>1, <2>3, <3>2, <3>3
  <2>5. CASE UNCHANGED <<pmindom, it_set, allocated, freed, twice, pcp_instance_change_requested>>
    <3>1. DomainInv'
      BY <1>1, <2>1, <2>5 DEF DomainInv, Count
    <3>2. NamesInv'
      BY <1>1, <2>1, <2>5 DEF NamesInv, Count
    <3>3. StateType'
      BY <1>1, <2>1, <2>2, <2>5 DEF StateType
    <3> QED BY <1>1, <1>2, <2>1, <2>3, <3>1, <3>2, <3>3
  <2> QED BY <1>1, <2>1, <2>4, <2>5, DomainStep
<1>6. ASSUME NEW m \in Metric, RunOut(m) PROVE TablesInv'
  <2>1. Kept /\ UNCHANGED <<root, children, pcp_instance_change_requested, unmapped>> /\ ended' = "died"
    BY <1>6 DEF RunOut, Kept, datagrams, ids, table, memory
  <2>2. StateType' /\ DomainInv'
    BY <1>1, <2>1 DEF Kept, StateType, DomainInv, Count
  <2> QED BY <1>1, <1>2, <2>1, <2>2, Kept_Inv
<1>7. CASE BeginReload
  <2>1. /\ Kept /\ UNCHANGED <<root, children, pcp_instance_change_requested, ended>>
        /\ unmapped' \subseteq Metric
    BY <1>7 DEF BeginReload, Kept, datagrams, ids, table, memory
  <2>2. StateType' /\ DomainInv'
    BY <1>1, <2>1 DEF Kept, StateType, DomainInv, Count
  <2> QED BY <1>1, <1>2, <2>1, <2>2, Kept_Inv
<1>8. CASE ReleaseUndefined
  <2>1. /\ Kept /\ UNCHANGED <<root, children, pcp_instance_change_requested, unmapped>>
        /\ ended' = "undefined"
    BY <1>8 DEF ReleaseUndefined, Kept, datagrams, ids, table, memory
  <2>2. StateType' /\ DomainInv'
    BY <1>1, <2>1 DEF Kept, StateType, DomainInv, Count
  <2> QED BY <1>1, <1>2, <2>1, <2>2, Kept_Inv
<1>9. CASE Release
  <2>1. /\ UNCHANGED <<duration, root, children, pcp_instance_change_requested, unmapped, it_set>>
        /\ UNCHANGED <<pmid, pmindom, pcp_metrics, pcp_metric_count, next_cluster_id, next_item_id>>
        /\ ended' = "released"
    BY <1>9 DEF Release, datagrams, ids, table
  <2>2. StateType' /\ DomainInv'
    BY <1>1, <2>1 DEF StateType, DomainInv, Count
  <2>3. TableInv'
    BY <1>1, <2>1 DEF TableInv, Issued
  <2>4. NamesLost' /\ ReleasedOnce'
    BY <1>1, <1>9, Released
  <2> QED BY <2>1, <2>2, <2>3, <2>4 DEF TablesInv
<1> QED BY <1>3, <1>4, <1>5, <1>6, <1>7, <1>8, <1>9 DEF Next

LEMMA TablesInvariant == Spec => []TablesInv
<1>1. IdInv /\ IdInv' /\ TablesInv /\ [Next]_vars => TablesInv'
  <2> SUFFICES ASSUME IdInv, IdInv', TablesInv, [Next]_vars PROVE TablesInv'
    OBVIOUS
  <2>1. CASE UNCHANGED vars
    <3>1. StateType' /\ DomainInv' /\ TableInv'
      BY <2>1 DEF vars, TablesInv, StateType, DomainInv, TableInv, Issued, Count
    <3>2. (ended' # "released" => NamesInv') /\ NamesLost'
      BY <2>1 DEF vars, TablesInv, NamesInv, NamesLost, Forgotten, Lost, InUse, PerLabel, Count
    <3>3. ReleasedOnce'
      BY <2>1 DEF vars, TablesInv, ReleasedOnce, Doubly, Forgotten, InUse, PerLabel
    <3> QED BY <3>1, <3>2, <3>3 DEF TablesInv
  <2> QED BY <2>1, TablesInv_Step
<1> QED BY <1>1, Init_TablesInv, IdInvariant, PTL DEF Spec

\* While the agent runs, no reload leaves a name in a domain that it or an earlier
\* one has freed, and none frees a name twice: update_instance frees only names of
\* the domain it replaces, and never those shared with other domains.
THEOREM NamesUsableCorrect == Spec => []NamesUsable
<1>1. TablesInv => NamesUsable
  BY FreedApart DEF TablesInv, NamesUsable, NamesInv
<1> QED BY <1>1, TablesInvariant, PTL

\* What update_instance leaks is what stands in a replaced domain where the shared
\* names of a root value would be, however often the domain was replaced.
THEOREM NamesLostCorrect == Spec => []NamesLost
<1>1. TablesInv => NamesLost
  BY DEF TablesInv
<1> QED BY <1>1, TablesInvariant, PTL

\* If free_shared_data comes through, after however many reloads, what stays of the
\* labels' names is exactly what was leaked before and no helper stays; freed twice are
\* exactly the helper of the first metric that was mapped and the shared names in the
\* domains that were built with a root value.
THEOREM ReleasedOnceCorrect == Spec => []ReleasedOnce
<1>1. TablesInv => ReleasedOnce
  BY DEF TablesInv
<1> QED BY <1>1, TablesInvariant, PTL
=============================================================================
