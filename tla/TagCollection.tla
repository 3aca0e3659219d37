--------------------------- MODULE TagCollection ---------------------------
(***************************************************************************)
(* parsers-utils.c: the tags of one line turned into the JSON that         *)
(* identifies a set of labels.  Keys are numbers, in the order of strcmp;  *)
(* the JSON is the sequence of the pairs written, each of which takes one  *)
(* unit of the buffer.                                                     *)
(***************************************************************************)
EXTENDS Naturals, Sequences, SequencesExt

CONSTANTS
    Key, TagText,       \* keys and values a tag may have
    JsonSize,           \* pairs the buffer has room for
    StableSort          \* whether qsort keeps equal keys in their order

ASSUME TagAssumption == Key \subseteq Nat /\ JsonSize \in Nat /\ StableSort \in BOOLEAN

\* tags is NULL: no JSON is empty, as it has a pair for every key.
NoJson == <<>>

\* The orders qsort may leave the collection in, as permutations of its places:
\* tag_comparator looks at keys only.  The merge sort of the C library keeps equal
\* keys in their order; another sort need not.
Orders(tags) ==
    {p \in [DOMAIN tags -> DOMAIN tags] :
        /\ \A i, j \in DOMAIN tags : p[i] = p[j] => i = j
        /\ \A i, j \in DOMAIN tags : i < j =>
             \/ tags[p[i]].key < tags[p[j]].key
             \/ tags[p[i]].key = tags[p[j]].key /\ (StableSort => p[i] < p[j])}

\* The places the loop writes, in the order it comes to them.
InOrder(places) ==
    CHOOSE f \in [1..Cardinality(places) -> places] :
        \A i, j \in DOMAIN f : i < j => f[i] < f[j]

At(sorted, places) == [n \in 1..Cardinality(places) |-> sorted[InOrder(places)[n]]]

\* Mutant: the first of several tags with one key is written, not the last.
WrittenFirst(sorted) ==
    At(sorted, {i \in DOMAIN sorted : i = 1 \/ sorted[i - 1].key # sorted[i].key})

\* A tag is skipped when the next one has its key.
Written(sorted) ==
    At(sorted, {i \in DOMAIN sorted : i = Len(sorted) \/ sorted[i + 1].key # sorted[i].key})

\* What tag_collection_to_json may return: NULL when the buffer is too small.
Json(tags) ==
    LET Fitting(pairs) == IF Len(pairs) > JsonSize THEN NoJson ELSE pairs
    IN  {Fitting(Written([i \in DOMAIN tags |-> tags[p[i]]])) : p \in Orders(tags)}
=============================================================================
