---------------------------- MODULE LineParsers ----------------------------
(***************************************************************************)
(* Both parsers and the documented grammar reading the same lines, one     *)
(* character at a time, and the tags of a parsed line turned into JSON.    *)
(* One character of a line is marked: parsers that put it in the same      *)
(* field, whichever it is, make the same datagram of the line.             *)
(***************************************************************************)
EXTENDS RagelParser, TagCollection

CONSTANTS
    MaxTags,    \* bound: tags of a line
    NoRefusal   \* the grammar has not refused the line

VARIABLES
    marked,     \* whether the marked character has been read
    mark,       \* the field it became part of in the basic parser
    documented, \* where the documented grammar is, and what the line means by it
    phase,      \* the line is being read, parsed, or its tags have been collected
    collection, \* the tags parsed from the line
    json        \* tags of the datagram

vars == <<basic, basic_errno, ragel, ragel_errno,
          marked, mark, documented, phase, collection, json>>

-----------------------------------------------------------------------------
(* The grammar of the documentation: <metricname>:<value>|<type>, with tags
   before the value or after the type. *)

GrammarStart ==
    [at |-> "start", sign |-> "none", type |-> "none", tags |-> 0,
     run |-> 0, long |-> FALSE, mark |-> Unmarked, refused |-> NoRefusal]

\* Where a character leads, and the field it belongs to there.
GrammarLeads(at, c) ==
    LET On(chars, place) == IF c \in chars THEN {place} ELSE {}
        Type_(places) == IF documented.sign = "none" \/ documented.type = "gauge" THEN places ELSE {}
    IN  CASE at = "start"      -> On(Lower, "name")
          [] at = "name"       -> On(Word, "name") \cup On({","}, "no_key") \cup On({":"}, "number")
          [] at = "no_key"     -> On(Word, "key")
          [] at = "key"        -> On(Word, "key") \cup On({"="}, "no_text")
          [] at = "no_text"    -> On(Word, "text")
          [] at = "text"       -> On(Word, "text") \cup On({","}, "no_key") \cup On({":"}, "number")
          [] at = "number"     -> On({"+", "-"}, "sign") \cup On({"digit"}, "whole")
          [] at = "sign"       -> On({"digit"}, "whole")
          [] at = "whole"      -> On({"digit"}, "whole") \cup On({"."}, "point") \cup On({"|"}, "value")
          [] at = "point"      -> On({"digit"}, "fraction")
          [] at = "fraction"   -> On({"digit"}, "fraction") \cup On({"|"}, "value")
          [] at = "value"      -> On({"c", "g"}, "type") \cup On({"m"}, "m")
          [] at = "m"          -> On({"s"}, "type")
          [] at = "type"       -> Type_(On({"end"}, "line") \cup On({"|"}, "bar"))
          [] at = "bar"        -> On({"#"}, "end_no_key")
          [] at = "end_no_key" -> On(Word, "end_key")
          [] at = "end_key"    -> On(Word, "end_key") \cup On({":"}, "end_no_text")
          [] at = "end_no_text" -> On(Word, "end_text")
          [] at = "end_text"   -> On(Word, "end_text") \cup On({","}, "end_no_key") \cup On({"end"}, "line")

GrammarField(at) ==
    CASE at = "name" -> <<"name", 0>>
      [] at \in {"key", "end_key"} -> <<"tag_key", documented.tags + 1>>
      [] at \in {"text", "end_text"} -> <<"tag_value", documented.tags + 1>>
      [] at \in {"sign", "whole", "point", "fraction"} -> <<"value", 0>>
      [] at \in {"m", "type"} -> <<"type", 0>>
      [] OTHER -> Unmarked

\* run counts the digits in a row, long says whether there ever were too many for
\* the Ragel grammar.
GrammarRead(c, marking) ==
    LET d == documented
        Moved(to) ==
            LET run == IF to \in {"whole", "fraction"} THEN UpTo(d.run + 1, MaxDigits + 1) ELSE 0
            IN  [d EXCEPT !.at = to,
                   !.sign = IF c = "+" THEN "plus" ELSE IF c = "-" THEN "minus" ELSE @,
                   !.type = IF d.at = "value" THEN TypeOf(c) ELSE @,
                   !.tags = IF d.at \in {"text", "end_text"} /\ c \notin Word THEN @ + 1 ELSE @,
                   !.run = run,
                   !.long = @ \/ run > MaxDigits,
                   !.mark = IF marking THEN GrammarField(to) ELSE @]
    IN  \/ d.at \in {"line", "refused"} /\ UNCHANGED documented
        \/ /\ d.at \notin {"line", "refused"}
           /\ \/ GrammarLeads(d.at, c) = {}
                 /\ documented' = [GrammarStart EXCEPT !.at = "refused", !.refused = <<d.at, c>>]
              \/ \E to \in GrammarLeads(d.at, c) : documented' = Moved(to)

-----------------------------------------------------------------------------
Init ==
    /\ BasicInit
    /\ RagelInit
    /\ marked = FALSE
    /\ mark = Unmarked
    /\ documented = GrammarStart
    /\ phase = "reading"
    /\ collection = <<>>
    /\ json = NoJson

\* The next character of the line, the terminating zero last.
ReadChar ==
    /\ phase = "reading"
    /\ \E c \in Char, marking \in BOOLEAN :
         /\ marking => ~marked /\ c # "end"
         /\ BasicRead(c)
         /\ RagelRead(c, marking)
         /\ GrammarRead(c, marking)
         /\ mark' = IF marking THEN BasicField ELSE mark
         /\ marked' = (marked \/ marking)
         /\ phase' = IF c = "end" THEN "parsed" ELSE "reading"
    /\ basic'.tags <= MaxTags
    /\ ragel'.tags <= MaxTags
    /\ documented'.tags <= MaxTags
    /\ UNCHANGED <<collection, json>>

\* Lines both parsers and the grammar have given up need not be read on.
SkipRest ==
    /\ phase = "reading"
    /\ basic.result # "reading" /\ ragel.result # "reading"
    /\ documented.at = "refused"
    /\ phase' = "parsed"
    /\ UNCHANGED <<basic, basic_errno, ragel, ragel_errno, marked, mark, documented, collection, json>>

\* tag_collection_to_json, when the basic parser found any tags: what the keys and
\* values are is chosen here.
Collect ==
    /\ phase = "parsed"
    /\ basic.result = "accepted" /\ basic.tags > 0
    /\ \E tags \in [1..basic.tags -> [key : Key, value : TagText]] :
         /\ collection' = tags
         /\ json' \in Json(tags)
    /\ phase' = "collected"
    /\ UNCHANGED <<basic, basic_errno, ragel, ragel_errno, marked, mark, documented>>

\* The next line, of the same thread.
NextLine ==
    /\ phase \in {"parsed", "collected"}
    /\ basic' = BasicStart
    /\ ragel' = RagelStart
    /\ marked' = FALSE
    /\ mark' = Unmarked
    /\ documented' = GrammarStart
    /\ phase' = "reading"
    /\ collection' = <<>>
    /\ json' = NoJson
    /\ UNCHANGED <<basic_errno, ragel_errno>>

Next == ReadChar \/ SkipRest \/ Collect \/ NextLine

Spec == Init /\ [][Next]_vars
-----------------------------------------------------------------------------
(* Properties *)

Parsed == phase = "parsed"

\* Whichever parser is configured, a line that both accept becomes the same
\* datagram: sign, type, number of tags, and every character in the same field;
\* but for lines in the middle of which the Ragel machine stops without an error.
ParsersAgree ==
    Parsed /\ basic.result = "accepted" /\ ragel.result = "accepted"
      => /\ basic.explicit_sign = ragel.explicit_sign
         /\ basic.type = ragel.type
         /\ basic.tags = ragel.tags
         /\ mark = ragel.mark

\* What is documented is understood, as it is documented, unless a number was out
\* of range: in this line, or (errno is never cleared) in any earlier line of the
\* thread.  The Ragel grammar takes so many digits on either side of the point.
DocumentedUnderstood ==
    Parsed /\ documented.at = "line"
      => /\ \/ basic_errno /\ basic.result = "refused"
            \/ /\ basic.result = "accepted"
               /\ basic.explicit_sign = documented.sign
               /\ basic.type = documented.type
               /\ basic.tags = documented.tags
               /\ mark = documented.mark
         /\ \/ ragel.result = "refused" /\ (ragel_errno \/ documented.long)
            \/ /\ ragel.result = "accepted"
               /\ ragel.explicit_sign = documented.sign
               /\ ragel.type = documented.type
               /\ ragel.tags = documented.tags
               /\ ragel.mark = documented.mark

\* What the parsers take beyond the documentation: the place of the grammar a line
\* left it at, and the characters that led out of it.
NonWord == Char \ Word

Lenience(parser) ==
    IF parser = "basic"
    THEN [start |-> {"upper"}, no_key |-> {"="}, no_text |-> {",", ":"},
          sign |-> {"."}, point |-> {"|"}, value |-> {"|"}, m |-> {"end", "|"},
          type |-> {"end", "|"}, bar |-> {"|"}, end_no_key |-> {"=", ":"},
          end_key |-> {"="}, end_no_text |-> {",", ":", "end"}, end_text |-> {":"}]
    ELSE [no_key |-> {"+", "-"}, key |-> {"|"}, number |-> Word \ {"digit"},
          whole |-> (Word \ {"digit", "."}) \cup {"="},
          point |-> (Word \ {"digit"}) \cup {"="},
          fraction |-> (Word \ {"digit"}) \cup {"="},
          type |-> {"@", "end", "|"}, end_no_key |-> NonWord]

\* Lines that are not documented are refused, but for those that leave the grammar
\* in one of the ways listed: empty keys and values, missing or doubled delimiters
\* and types, a second value, tags before or after the wrong delimiter, signs of
\* counters and durations, and whatever follows the place where the Ragel machine
\* stops without an error.
UndocumentedRefused ==
    Parsed /\ documented.at = "refused"
      => LET Left(parser) == /\ documented.refused[1] \in DOMAIN Lenience(parser)
                             /\ documented.refused[2] \in Lenience(parser)[documented.refused[1]]
         IN  /\ basic.result = "accepted" => Left("basic")
             /\ ragel.result \in {"accepted", "stopped"} => Left("ragel")

\* Tags are written once each, in the order of their keys, with the value given
\* last; when the buffer is too small for them the datagram has none at all, and
\* counts for its metric as if it had been sent without tags.
TagsAsDocumented ==
    phase = "collected"
      => LET keys == {collection[i].key : i \in DOMAIN collection}
             RightMost(k) == \E i \in DOMAIN collection :
                               /\ collection[i] = [key |-> k, value |-> json[CHOOSE n \in DOMAIN json : json[n].key = k].value]
                               /\ \A j \in DOMAIN collection : j > i => collection[j].key # k
         IN  \/ json = NoJson /\ Cardinality(keys) > JsonSize
             \/ /\ Cardinality(keys) <= JsonSize
                /\ Len(json) = Cardinality(keys)
                /\ \A i, j \in DOMAIN json : i < j => json[i].key < json[j].key
                /\ \A k \in keys : RightMost(k)
=============================================================================
