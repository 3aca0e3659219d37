---------------------------- MODULE IdAllocation ----------------------------
(***************************************************************************)
(* get_next_pmID and get_next_pmInDom of pmda-callbacks.c.  Identifiers    *)
(* are built from fields of a fixed width, which keep the low bits of      *)
(* what they are given.                                                    *)
(***************************************************************************)
EXTENDS Integers

CONSTANTS
    LastItem,   \* the item after which the next cluster begins (1000)
    Items,      \* values of the item field of a pmID (2^10)
    Clusters,   \* values of the cluster field of a pmID (2^12)
    Serials     \* values of the serial field of a pmInDom (2^22)

\* Clusters other than 0 have fewer items than there are serials for domains.
ASSUME FieldAssumption ==
    /\ LastItem \in Nat /\ Items \in Nat /\ Clusters \in Nat /\ Serials \in Nat
    /\ LastItem < Items
    /\ Clusters > 1
    /\ 3 + (Clusters - 1) * (LastItem + 1) < Serials

VARIABLES next_cluster_id, next_item_id, next_pmindom

idVars == <<next_cluster_id, next_item_id, next_pmindom>>

\* pmID_build and pmInDom_build of libpcp.
pmID_build(cluster, item) == <<cluster % Clusters, item % Items>>

pmInDom_build(serial) == serial % Serials

\* Cluster 0 belongs to the agent's own metrics, the serials below 3 to the domains
\* it starts with.
HardcodedSerials == 0..2

IdInit == next_cluster_id = 1 /\ next_item_id = 0 /\ next_pmindom = 3

\* Mutant: items are numbered one bit beyond the width of their field.
NextIdUnbounded ==
    /\ next_item_id' = IF next_item_id = 2 * Items - 1 THEN 0 ELSE next_item_id + 1
    /\ next_cluster_id' = IF next_item_id = 2 * Items - 1 THEN next_cluster_id + 1 ELSE next_cluster_id

NextId ==
    /\ next_item_id' = IF next_item_id = LastItem THEN 0 ELSE next_item_id + 1
    /\ next_cluster_id' = IF next_item_id = LastItem THEN next_cluster_id + 1 ELSE next_cluster_id

\* The identifier is built first and the bound looked at then.
OutOfIds == next_cluster_id >= Clusters

GetNextPmID(id) ==
    /\ ~OutOfIds
    /\ id = pmID_build(next_cluster_id, next_item_id)
    /\ NextId

\* The serial compared with is the one before the one handed out.
GetNextPmInDom(serial) ==
    /\ next_pmindom - 1 # Serials
    /\ serial = pmInDom_build(next_pmindom)
    /\ next_pmindom' = next_pmindom + 1
=============================================================================
