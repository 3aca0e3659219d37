---------------------------- MODULE RagelParser ----------------------------
(***************************************************************************)
(* The machine that Ragel generates from the grammar of parser-ragel.rl.   *)
(* Its state is the set of the places of the grammar the line so far leads *)
(* to, and it does what the actions attached to the transitions say.  A    *)
(* place remembers which field the marked character of the line became     *)
(* part of (see LineParsers).                                              *)
(***************************************************************************)
EXTENDS BasicParser

VARIABLES
    ragel,          \* the machine and the datagram its actions fill
    ragel_errno     \* whether errno is ERANGE

Unmarked == <<"none", 0>>

Place(at, n, field) == [at |-> at, n |-> n, mark |-> field]

RagelStart ==
    [result |-> "reading", places |-> {Place("start", 0, Unmarked)},
     explicit_sign |-> "none", type |-> "none", tags |-> 0, whole |-> 0, mark |-> Unmarked]

RagelInit == ragel = RagelStart /\ ragel_errno = FALSE

\* After an error in one of these the machine stops and the line counts as parsed:
\* the error action is attached to the states that are not final.
Final == {"terminated", "tags_end"}

\* str_value, tag_string and the numbers of the grammar: where a character leads
\* from a place, as pairs of a place and a count of digits.
Leads(at, n, c) ==
    LET To(place) == {<<place, 0>>}
        Word_(place) == IF c \in Word THEN To(place) ELSE {}
        On(chars, place) == IF c \in chars THEN To(place) ELSE {}
        Digits(place, m) == IF c = "digit" /\ m <= MaxDigits THEN {<<place, m>>} ELSE {}
    IN  CASE at = "start"     -> On(Lower, "name")
          [] at = "name"      -> Word_("name") \cup On({",", ":"}, "tags")
          [] at = "tags"      -> Word_("key") \cup On({"+", "-"}, "sign") \cup Digits("whole", 1)
          [] at = "key"       -> Word_("key") \cup On({"="}, "no_text")
          [] at = "no_text"   -> Word_("text")
          [] at = "text"      -> Word_("text") \cup On({",", ":"}, "tags")
          [] at = "sign"      -> Digits("whole", 1)
          [] at = "whole"     -> Digits("whole", n + 1) \cup On({"."}, "point") \cup On({"|"}, "value")
          [] at = "point"     -> Digits("fraction", 1)
          [] at = "fraction"  -> Digits("fraction", n + 1) \cup On({"|"}, "value")
          [] at = "value"     -> On({"c", "g"}, "type") \cup On({"m"}, "m")
          [] at = "m"         -> On({"s"}, "type")
          [] at = "type"      -> On({"@", "end"}, "terminated") \cup On({"|"}, "bar")
          [] at = "bar"       -> On({"#"}, "terminated")
          [] at \in Final     -> Word_("end_key")
          [] at = "end_key"   -> Word_("end_key") \cup On({":"}, "end_no_text")
          [] at = "end_no_text" -> Word_("end_text")
          [] at = "end_text"  -> Word_("end_text") \cup On({",", "end"}, "tags_end")

\* The field a character belongs to that leads to a place.
FieldAt(at) ==
    CASE at = "name" -> <<"name", 0>>
      [] at \in {"key", "end_key"} -> <<"tag_key", ragel.tags + 1>>
      [] at \in {"text", "end_text"} -> <<"tag_value", ragel.tags + 1>>
      [] at \in {"sign", "whole", "point", "fraction"} -> <<"value", 0>>
      [] at \in {"m", "type"} -> <<"type", 0>>
      [] OTHER -> Unmarked

Reached(c, marked) ==
    UNION {{Place(to[1], to[2], IF marked THEN FieldAt(to[1]) ELSE p.mark) :
              to \in Leads(p.at, p.n, c)} : p \in ragel.places}

From(place) == \E p \in ragel.places : p.at = place

\* error_clean_up: the datagram and everything allocated for it are freed.
Fail == ragel' = [RagelStart EXCEPT !.result = "refused", !.places = {}]

Finals(places) == {p \in places : p.at \in Final}

\* The machine ends in one of the places; counted is the number of tags by then.
End(result, places, counted) ==
    ragel' = [ragel EXCEPT !.result = result, !.places = {}, !.tags = counted,
                           !.mark = (CHOOSE p \in places : TRUE).mark]

\* No place is reached.
Stuck(c) ==
    IF Finals(ragel.places) = {} THEN Fail
    ELSE End(IF c = "end" THEN "accepted" ELSE "stopped", Finals(ragel.places), ragel.tags)

\* value_parsed: strtod, and errno compared without having been cleared.
ValueEnds(c) == c = "|" /\ (From("whole") \/ From("fraction"))

FractionDigits ==
    IF From("fraction") THEN (CHOOSE p \in ragel.places : p.at = "fraction").n ELSE 0

ValueParsed(c, marked) ==
    /\ \E out \in OutOfRange(ragel.whole, FractionDigits) : ragel_errno' = (ragel_errno \/ out)
    /\ IF ragel_errno' THEN Fail ELSE ragel' = [ragel EXCEPT !.places = Reached(c, marked), !.whole = 0]

\* Mutant: the action is not attached to the colon before the value.
TagParsedNotAtColon(c) == c \in {",", "end"} /\ (From("text") \/ From("end_text"))

\* tag_parsed, on the last character of a tag: one more pair.
TagParsed(c) == c \in {",", ":", "end"} /\ (From("text") \/ From("end_text"))

\* type_parsed, of the letter the type segment starts with, and the sign and the
\* digits of the number that value_parsed will look at.
Advance(c, marked) ==
    LET typed   == c \in {"c", "g", "m"} /\ From("value")
        signed  == c \in {"+", "-"} /\ From("tags")
        counted == \E p \in Reached(c, marked) : p.at = "whole"
        plain   == counted /\ From("tags")
    IN  ragel' = [ragel EXCEPT
          !.places = Reached(c, marked),
          !.type = IF typed THEN TypeOf(c) ELSE @,
          !.tags = IF TagParsed(c) THEN @ + 1 ELSE @,
          !.explicit_sign = IF signed THEN (IF c = "+" THEN "plus" ELSE "minus")
                            ELSE IF plain THEN "none" ELSE @,
          !.whole = IF plain THEN 1 ELSE IF signed THEN 0
                    ELSE IF counted THEN UpTo(@ + 1, Representable + 1) ELSE @]

\* The end of the line: a place that is not final is an error here too.
AtEnd(places) ==
    IF Finals(places) = {} THEN Fail
    ELSE End("accepted", Finals(places), IF TagParsed("end") THEN ragel.tags + 1 ELSE ragel.tags)

\* One character through the machine.
RagelRead(c, marked) ==
    LET reached == Reached(c, marked)
    IN  \/ ragel.result # "reading" /\ UNCHANGED <<ragel, ragel_errno>>
        \/ /\ ragel.result = "reading"
           /\ \/ reached = {} /\ Stuck(c) /\ UNCHANGED ragel_errno
              \/ reached # {} /\ c = "end" /\ AtEnd(reached) /\ UNCHANGED ragel_errno
              \/ ValueEnds(c) /\ ValueParsed(c, marked)
              \/ /\ reached # {} /\ c # "end" /\ ~ValueEnds(c)
                 /\ Advance(c, marked) /\ UNCHANGED ragel_errno
=============================================================================
