------------------------- MODULE LineParsersProofs -------------------------
(***************************************************************************)
(* What the two parsers make of lines of any length, for any number of     *)
(* digits they have room for and any number of tags.  As long as a line is *)
(* documented the place of the grammar says where each parser is           *)
(* (BasicAt, RagelAt); where it leaves the grammar each refuses it or is   *)
(* lenient (BasicFollowsGrammar, RagelFollowsGrammar); and two that are    *)
(* lenient go on in step (InStep).  LineInv is the conjunction.  Last, the *)
(* tags of a line are written once each, with the value given last.        *)
(***************************************************************************)
EXTENDS LineParsers, TLAPS, DataLemmas, FiniteSetTheorems

Sign == {"none", "plus", "minus"}

Result == {"reading", "accepted", "refused"}

Segment == {"name", "tag_key", "tag_value", "value", "type", "divider"}

Length == 0..2

TextOfValue == [sign : Sign, whole : Nat, fraction : Nat, digit : BOOLEAN]

ValueType == {"none", "counter", "gauge", "duration"}

BasicType ==
    basic \in [result : Result, segment_type : Segment, length : Length, past_type : BOOLEAN,
               dot_found : BOOLEAN, text : TextOfValue, tag_key : BOOLEAN, tags : Nat,
               explicit_sign : Sign, type : ValueType]

\* What a character does to the basic parser.
Refused == basic'.result = "refused"

Same == /\ basic'.past_type = basic.past_type /\ basic'.dot_found = basic.dot_found
        /\ basic'.text = basic.text /\ basic'.explicit_sign = basic.explicit_sign
        /\ basic'.type = basic.type

Moves(segment, begun) ==
    /\ basic'.result = "reading"
    /\ basic'.segment_type = segment
    /\ basic'.length > 0 <=> begun

Counts(n) == basic'.tags = basic.tags + n

LEMMA Continues ==
    ASSUME BasicType, basic.result = "reading", Continue
    PROVE  Moves(basic.segment_type, TRUE) /\ Same /\ Counts(0) /\ basic'.length >= basic.length
<1>1. /\ basic'.length = UpTo(basic.length + 1, 2) /\ basic'.result = basic.result
      /\ basic'.segment_type = basic.segment_type /\ Same /\ basic'.tags = basic.tags
  BY DEF BasicType, Continue, Same
<1>2. basic.length \in 0..2 /\ basic.tags \in Nat
  BY DEF BasicType, Length
<1> QED BY <1>1, <1>2 DEF Moves, Counts, UpTo

LEMMA Enters ==
    ASSUME BasicType, basic.result = "reading", NEW segment, basic' = Enter(segment)
    PROVE  Moves(segment, FALSE) /\ Same /\ Counts(0)
<1>1. /\ basic'.length = 0 /\ basic'.result = basic.result
      /\ basic'.segment_type = segment /\ Same /\ basic'.tags = basic.tags
  BY DEF BasicType, Enter, Same
<1>2. basic.tags \in Nat
  BY DEF BasicType
<1> QED BY <1>1, <1>2 DEF Moves, Counts

LEMMA Refuses ==
    ASSUME Refuse
    PROVE  Refused
BY DEF Refuse, BasicStart, Refused

Stays == Moves(basic.segment_type, TRUE) /\ Same /\ Counts(0)

Turns(segment) == Moves(segment, FALSE) /\ Same /\ Counts(0)

LEMMA NameReads ==
    ASSUME BasicType, NEW c \in Char, BasicRead(c), basic.result = "reading",
           basic.segment_type = "name"
    PROVE  /\ UNCHANGED basic_errno
           /\ \/ basic.length = 0 /\ c \in Letter /\ Stays
              \/ basic.length > 0 /\ c \in Word /\ Stays
              \/ basic.length > 0 /\ c = "," /\ Turns("tag_key")
              \/ basic.length > 0 /\ c = ":" /\ Turns("value")
              \/ basic.length = 0 /\ c \notin Letter /\ Refused
              \/ basic.length > 0 /\ ~(c \in Word \/ c = "," \/ c = ":") /\ Refused
<1>1. Name(c)
  BY DEF BasicRead, TagKey, TagValue, Value, Type, Divider
<1>2. basic.length = 0 \/ basic.length > 0
  BY DEF BasicType, Length
<1>3. Continue => Stays
  BY Continues DEF Stays
<1>4. basic' = Enter("tag_key") => Turns("tag_key")
  BY Enters DEF Turns
<1>5. basic' = Enter("value") => Turns("value")
  BY Enters DEF Turns
<1> QED BY <1>1, <1>2, <1>3, <1>4, <1>5, Refuses DEF Name

LEMMA TagKeyReads ==
    ASSUME BasicType, NEW c \in Char, BasicRead(c), basic.result = "reading",
           basic.segment_type = "tag_key"
    PROVE  /\ UNCHANGED basic_errno
           /\ \/ c \in Word /\ Stays
              \/ c = "=" /\ Turns("tag_value")
              \/ basic.past_type /\ c = ":" /\ Turns("tag_value")
              \/ c \notin Word \cup {"="} /\ ~(basic.past_type /\ c = ":") /\ Refused
<1>1. TagKey(c)
  BY DEF BasicRead, Name, TagValue, Value, Type, Divider
<1>2. Continue => Stays
  BY Continues DEF Stays
<1>3. basic' = [Enter("tag_value") EXCEPT !.tag_key = TRUE] => Turns("tag_value")
  <2> SUFFICES ASSUME basic' = [Enter("tag_value") EXCEPT !.tag_key = TRUE]
               PROVE  Turns("tag_value")
    OBVIOUS
  <2>1. /\ basic'.length = 0 /\ basic'.result = basic.result
        /\ basic'.segment_type = "tag_value" /\ Same /\ basic'.tags = basic.tags
    BY DEF BasicType, Enter, Same
  <2>2. basic.tags \in Nat
    BY DEF BasicType
  <2> QED BY <2>1, <2>2 DEF Turns, Moves, Counts
<1> QED BY <1>1, <1>2, <1>3, Refuses DEF TagKey

LEMMA TagValueReads ==
    ASSUME BasicType, NEW c \in Char, BasicRead(c), basic.result = "reading",
           basic.segment_type = "tag_value"
    PROVE  /\ UNCHANGED basic_errno
           /\ \/ c \in Word /\ Stays
              \/ c = "," /\ Moves("tag_key", FALSE) /\ Same /\ Counts(1)
              \/ c = ":" /\ Moves("value", FALSE) /\ Same /\ Counts(1)
              \/ /\ basic.past_type /\ c = "end"
                 /\ basic'.result = "accepted" /\ Same /\ Counts(1)
              \/ c \notin Word \cup {",", ":"} /\ ~(basic.past_type /\ c = "end") /\ Refused
<1>1. TagValue(c)
  BY DEF BasicRead, Name, TagKey, Value, Type, Divider
<1>2. Continue => Stays
  BY Continues DEF Stays
<1> DEFINE segment == IF c = "," THEN "tag_key" ELSE "value"
<1>3. ASSUME basic' = [Enter(segment) EXCEPT
                         !.tags = @ + 1, !.tag_key = FALSE,
                         !.result = IF c = "end" THEN "accepted" ELSE @]
      PROVE  /\ basic'.length = 0 /\ basic'.segment_type = segment /\ Same /\ Counts(1)
             /\ basic'.result = IF c = "end" THEN "accepted" ELSE "reading"
  BY <1>3 DEF BasicType, Enter, Same, Counts
<1>4. CASE Refuse /\ c \notin Word \cup {",", ":"} /\ ~(basic.past_type /\ c = "end")
  BY <1>1, <1>4, Refuses DEF TagValue
<1>5. CASE c \in Word /\ Continue
  BY <1>1, <1>2, <1>5 DEF TagValue
<1>6. CASE /\ c \in {",", ":"} \/ (basic.past_type /\ c = "end")
           /\ basic' = [Enter(segment) EXCEPT
                          !.tags = @ + 1, !.tag_key = FALSE,
                          !.result = IF c = "end" THEN "accepted" ELSE @]
  <2>1. UNCHANGED basic_errno
    BY <1>1 DEF TagValue
  <2>2. /\ basic'.length = 0 /\ basic'.segment_type = segment /\ Same /\ Counts(1)
        /\ basic'.result = IF c = "end" THEN "accepted" ELSE "reading"
    BY <1>3, <1>6
  <2>3. CASE c = "end"
    BY <1>6, <2>1, <2>2, <2>3
  <2>4. CASE c = ","
    <3>1. Moves("tag_key", FALSE)
      <4>1. basic'.segment_type = "tag_key" /\ basic'.length = 0
        BY <2>2, <2>4
      <4>2. basic'.result = "reading"
        BY <2>2, <2>4
      <4> QED BY <4>1, <4>2 DEF Moves
    <3> QED BY <2>1, <2>2, <2>4, <3>1
  <2>5. CASE c = ":"
    <3>1. Moves("value", FALSE)
      BY <2>2, <2>5 DEF Moves
    <3> QED BY <2>1, <2>2, <2>5, <3>1
  <2> QED BY <1>6, <2>3, <2>4, <2>5
<1>7. \/ Refuse /\ c \notin Word \cup {",", ":"} /\ ~(basic.past_type /\ c = "end")
      \/ c \in Word /\ Continue
      \/ /\ c \in {",", ":"} \/ (basic.past_type /\ c = "end")
         /\ basic' = [Enter(segment) EXCEPT
                          !.tags = @ + 1, !.tag_key = FALSE,
                          !.result = IF c = "end" THEN "accepted" ELSE @]
  BY <1>1 DEF TagValue
<1> QED BY <1>4, <1>5, <1>6, <1>7

\* A character of the number: what the text then holds of it.
Number(sign, digit, dot) ==
    /\ Moves("value", TRUE) /\ Counts(0)
    /\ basic'.text.sign = sign /\ basic'.text.digit = digit /\ basic'.dot_found = dot
    /\ basic'.past_type = basic.past_type /\ basic'.explicit_sign = basic.explicit_sign
    /\ basic'.type = basic.type

LEMMA ValueReads ==
    ASSUME BasicType, NEW c \in Char, BasicRead(c), basic.result = "reading",
           basic.segment_type = "value"
    PROVE  \/ c = "digit" /\ Number(basic.text.sign, TRUE, basic.dot_found)
           \/ basic.length = 0 /\ c = "+" /\ Number("plus", basic.text.digit, basic.dot_found)
           \/ basic.length = 0 /\ c = "-" /\ Number("minus", basic.text.digit, basic.dot_found)
           \/ /\ basic.length > 0 /\ ~basic.dot_found /\ c = "."
              /\ Number(basic.text.sign, basic.text.digit, TRUE)
           \/ /\ basic.length > 0 /\ c = "|" /\ basic.text.digit
              /\ Moves("type", FALSE) /\ Counts(0)
              /\ basic'.explicit_sign = basic.text.sign
              /\ basic'.past_type = basic.past_type /\ basic'.type = basic.type
           \/ basic.length > 0 /\ c = "|" /\ Refused /\ (basic.text.digit => basic_errno')
           \/ basic.length = 0 /\ c \notin {"digit", "+", "-"} /\ Refused
           \/ /\ basic.length > 0 /\ c \notin {"digit", "|"} /\ ~(~basic.dot_found /\ c = ".")
              /\ Refused
<1>1. Value(c)
  BY DEF BasicRead, Name, TagKey, TagValue, Type, Divider
<1>2. /\ basic.length \in 0..2 /\ basic.tags \in Nat /\ basic.text.whole \in Nat
      /\ UpTo(basic.length + 1, 2) > 0
  BY DEF BasicType, UpTo, Length, TextOfValue
<1> DEFINE grown == [basic EXCEPT !.length = UpTo(@ + 1, 2)]
<1>3. ASSUME c = "digit", basic' = [grown EXCEPT !.text = Digit]
      PROVE  Number(basic.text.sign, TRUE, basic.dot_found)
  <2>1. Digit.sign = basic.text.sign /\ Digit.digit = TRUE
    BY DEF BasicType, TextOfValue, Digit
  <2>2. basic'.text = Digit /\ basic'.length = UpTo(basic.length + 1, 2)
    BY <1>3 DEF BasicType
  <2>3. basic'.result = "reading" /\ basic'.segment_type = "value" /\ basic'.tags = basic.tags
    BY <1>3 DEF BasicType
  <2>4. /\ basic'.dot_found = basic.dot_found /\ basic'.past_type = basic.past_type
        /\ basic'.explicit_sign = basic.explicit_sign /\ basic'.type = basic.type
    BY <1>3 DEF BasicType
  <2> QED BY <1>2, <2>1, <2>2, <2>3, <2>4 DEF Number, Moves, Counts
<1>4. ASSUME NEW sign, basic' = [grown EXCEPT !.text.sign = sign]
      PROVE  Number(sign, basic.text.digit, basic.dot_found)
  <2>1. /\ basic'.text.sign = sign /\ basic'.text.digit = basic.text.digit
        /\ basic'.length = UpTo(basic.length + 1, 2)
    BY <1>4 DEF BasicType, TextOfValue
  <2>2. basic'.result = "reading" /\ basic'.segment_type = "value" /\ basic'.tags = basic.tags
    BY <1>4 DEF BasicType, TextOfValue
  <2>3. /\ basic'.dot_found = basic.dot_found /\ basic'.past_type = basic.past_type
        /\ basic'.explicit_sign = basic.explicit_sign /\ basic'.type = basic.type
    BY <1>4 DEF BasicType, TextOfValue
  <2> QED BY <1>2, <2>1, <2>2, <2>3 DEF Number, Moves, Counts
<1>5. ASSUME basic' = [grown EXCEPT !.dot_found = TRUE]
      PROVE  Number(basic.text.sign, basic.text.digit, TRUE)
  <2>1. /\ basic'.text = basic.text /\ basic'.dot_found = TRUE
        /\ basic'.length = UpTo(basic.length + 1, 2)
    BY <1>5 DEF BasicType
  <2>2. basic'.result = "reading" /\ basic'.segment_type = "value" /\ basic'.tags = basic.tags
    BY <1>5 DEF BasicType
  <2>3. /\ basic'.past_type = basic.past_type
        /\ basic'.explicit_sign = basic.explicit_sign /\ basic'.type = basic.type
    BY <1>5 DEF BasicType
  <2> QED BY <1>2, <2>1, <2>2, <2>3 DEF Number, Moves, Counts
<1>6. ASSUME basic' = [Enter("type") EXCEPT !.explicit_sign = basic.text.sign,
                                            !.dot_found = FALSE, !.text = NoText]
      PROVE  /\ Moves("type", FALSE) /\ Counts(0)
             /\ basic'.explicit_sign = basic.text.sign
             /\ basic'.past_type = basic.past_type /\ basic'.type = basic.type
  <2>1. /\ basic'.length = 0 /\ basic'.result = "reading" /\ basic'.segment_type = "type"
        /\ basic'.tags = basic.tags /\ basic'.explicit_sign = basic.text.sign
        /\ basic'.past_type = basic.past_type /\ basic'.type = basic.type
    BY <1>6 DEF BasicType, Enter
  <2> QED BY <1>2, <2>1 DEF Moves, Counts
<1>7. basic.length = 0 \/ basic.length > 0
  BY <1>2
<1>8. CASE c = "digit" /\ basic' = [grown EXCEPT !.text = Digit]
  BY <1>3, <1>8
<1>9. CASE /\ basic.length = 0 /\ c \in {"+", "-"}
           /\ basic' = [grown EXCEPT !.text.sign = IF c = "+" THEN "plus" ELSE "minus"]
  BY <1>4, <1>9
<1>10. CASE /\ basic.length # 0 /\ ~basic.dot_found /\ c = "."
            /\ basic' = [grown EXCEPT !.dot_found = TRUE]
  BY <1>5, <1>7, <1>10
<1>11. CASE basic.length # 0 /\ c = "|" /\ ParseValue
  <2>1. CASE ~basic.text.digit \/ basic_errno'
    BY <1>7, <1>11, <2>1, Refuses DEF ParseValue
  <2>2. CASE basic.text.digit /\ ~basic_errno'
    BY <1>6, <1>7, <1>11, <2>2 DEF ParseValue
  <2> QED BY <2>1, <2>2
<1>12. CASE /\ c # "digit" /\ ~(basic.length # 0 /\ ~basic.dot_found /\ c = ".")
            /\ c \notin (IF basic.length = 0 THEN {"+", "-"} ELSE {"|"})
            /\ Refuse
  BY <1>7, <1>12, Refuses
<1>13. \/ c = "digit" /\ basic' = [grown EXCEPT !.text = Digit]
       \/ /\ basic.length = 0 /\ c \in {"+", "-"}
          /\ basic' = [grown EXCEPT !.text.sign = IF c = "+" THEN "plus" ELSE "minus"]
       \/ /\ basic.length # 0 /\ ~basic.dot_found /\ c = "."
          /\ basic' = [grown EXCEPT !.dot_found = TRUE]
       \/ basic.length # 0 /\ c = "|" /\ ParseValue
       \/ /\ c # "digit" /\ ~(basic.length # 0 /\ ~basic.dot_found /\ c = ".")
          /\ c \notin (IF basic.length = 0 THEN {"+", "-"} ELSE {"|"})
          /\ Refuse
  BY <1>1 DEF Value
<1> QED BY <1>8, <1>9, <1>10, <1>11, <1>12, <1>13

LEMMA TypeReads ==
    ASSUME BasicType, NEW c \in Char, BasicRead(c), basic.result = "reading",
           basic.segment_type = "type"
    PROVE  /\ UNCHANGED basic_errno
           /\ \/ /\ basic.length = 0 /\ c \in {"m", "c", "g"}
                 /\ Moves("type", TRUE) /\ Counts(0) /\ basic'.length = 1
                 /\ basic'.type = TypeOf(c)
                 /\ basic'.past_type = basic.past_type
                 /\ basic'.explicit_sign = basic.explicit_sign
              \/ /\ basic.length = 1 /\ c = "s" /\ basic.type = "duration"
                 /\ Stays /\ basic'.length = 2
              \/ /\ basic.length > 0 /\ c = "end"
                 /\ basic'.result = "accepted" /\ Same /\ Counts(0)
              \/ /\ basic.length > 0 /\ c = "|" /\ Turns("divider")
              \/ basic.length = 0 /\ c = "|"
              \/ basic.length = 0 /\ c \notin {"m", "c", "g", "|"} /\ Refused
              \/ /\ basic.length > 0 /\ c \notin {"end", "|"}
                 /\ ~(basic.length = 1 /\ c = "s" /\ basic.type = "duration") /\ Refused
<1>1. Type(c)
  BY DEF BasicRead, Name, TagKey, TagValue, Value, Divider
<1>2. basic.length \in 0..2 /\ basic.tags \in Nat /\ (basic.length = 0 \/ basic.length > 0)
  BY DEF BasicType, Length
<1>3. UNCHANGED basic_errno
  BY <1>1 DEF Type
<1>4. CASE basic.length = 0
  <2>1. \/ c \in {"m", "c", "g"} /\ basic' = [[basic EXCEPT !.type = TypeOf(c)] EXCEPT !.length = 1]
        \/ c = "|"
        \/ c \notin {"m", "c", "g", "|"} /\ Refuse
    BY <1>1, <1>4 DEF Type
  <2>2. ASSUME basic' = [[basic EXCEPT !.type = TypeOf(c)] EXCEPT !.length = 1]
        PROVE  /\ Moves("type", TRUE) /\ Counts(0) /\ basic'.length = 1
               /\ basic'.type = TypeOf(c)
               /\ basic'.past_type = basic.past_type
               /\ basic'.explicit_sign = basic.explicit_sign
    BY <1>2, <2>2 DEF BasicType, Moves, Counts
  <2> QED BY <1>3, <1>4, <2>1, <2>2, Refuses
<1>5. CASE basic.length > 0
  <2>1. \/ basic.length = 1 /\ c = "s" /\ basic.type = "duration" /\ Continue
        \/ c = "end" /\ basic' = [basic EXCEPT !.result = "accepted"]
        \/ c = "|" /\ basic' = [basic EXCEPT !.segment_type = "divider", !.length = 0]
        \/ /\ c \notin {"end", "|"}
           /\ ~(basic.length = 1 /\ c = "s" /\ basic.type = "duration") /\ Refuse
    <3>1. basic.length # 0
      BY <1>5
    <3> QED BY <1>1, <3>1, Zenon DEF Type
  <2>2. ASSUME basic.length = 1, Continue PROVE Stays /\ basic'.length = 2
    <3>1. basic'.length = UpTo(basic.length + 1, 2)
      BY <2>2 DEF BasicType, Continue
    <3>2. basic'.length = 2
      BY <2>2, <3>1 DEF UpTo
    <3> QED BY <2>2, <3>2, Continues DEF Stays
  <2>3. ASSUME basic' = [basic EXCEPT !.result = "accepted"]
        PROVE  basic'.result = "accepted" /\ Same /\ Counts(0)
    BY <1>2, <2>3 DEF BasicType, Same, Counts
  <2>4. ASSUME basic' = [basic EXCEPT !.segment_type = "divider", !.length = 0]
        PROVE  Turns("divider")
    BY <1>2, <2>4 DEF BasicType, Turns, Moves, Same, Counts
  <2> QED BY <1>3, <1>5, <2>1, <2>2, <2>3, <2>4, Refuses
<1> QED BY <1>2, <1>4, <1>5

LEMMA DividerReads ==
    ASSUME BasicType, NEW c \in Char, BasicRead(c), basic.result = "reading",
           basic.segment_type = "divider"
    PROVE  /\ UNCHANGED basic_errno
           /\ \/ c = "|"
              \/ /\ c = "#" /\ Moves("tag_key", FALSE) /\ Counts(0) /\ basic'.past_type
                 /\ basic'.type = basic.type /\ basic'.explicit_sign = basic.explicit_sign
              \/ c \notin {"|", "#"} /\ Refused
<1>1. Divider(c)
  BY DEF BasicRead, Name, TagKey, TagValue, Value, Type
<1>2. ASSUME basic' = [Enter("tag_key") EXCEPT !.past_type = TRUE]
      PROVE  /\ Moves("tag_key", FALSE) /\ Counts(0) /\ basic'.past_type
             /\ basic'.type = basic.type /\ basic'.explicit_sign = basic.explicit_sign
  BY <1>2 DEF BasicType, Enter, Moves, Counts
<1> QED BY <1>1, <1>2, Refuses DEF Divider

LEMMA BasicTypeKept ==
    ASSUME BasicType, NEW c \in Char, BasicRead(c)
    PROVE  BasicType'
<1>1. CASE UNCHANGED basic
  BY <1>1 DEF BasicType
<1>2. /\ {"reading", "accepted", "refused"} \subseteq Result
      /\ {"name", "tag_key", "tag_value", "value", "type", "divider"} \subseteq Segment
      /\ "none" \in Sign /\ "plus" \in Sign /\ "minus" \in Sign
      /\ {"none", "counter", "gauge", "duration"} \subseteq ValueType
  BY DEF Result, Segment, Sign, ValueType
<1>3. /\ NoText \in TextOfValue /\ UpTo(basic.length + 1, 2) \in Length
      /\ {0, 1} \subseteq Length
  BY <1>2 DEF NoText, TextOfValue, BasicType, UpTo, Length
<1>4. ASSUME Refuse PROVE BasicType'
  BY <1>2, <1>3, <1>4 DEF BasicType, Refuse, BasicStart
<1>5. ASSUME Continue PROVE BasicType'
  BY <1>3, <1>5 DEF BasicType, Continue
<1>6. ASSUME NEW segment \in Segment, basic' = Enter(segment) PROVE BasicType'
  BY <1>3, <1>6 DEF BasicType, Enter
<1>7. CASE Name(c)
  <2>1. Refuse \/ Continue \/ basic' = Enter("tag_key") \/ basic' = Enter("value")
    BY <1>7 DEF Name
  <2> QED BY <1>2, <1>4, <1>5, <1>6, <2>1
<1>8. CASE TagKey(c)
  <2>1. Refuse \/ Continue \/ basic' = [Enter("tag_value") EXCEPT !.tag_key = TRUE]
    BY <1>8 DEF TagKey
  <2> QED BY <1>2, <1>3, <1>4, <1>5, <2>1 DEF BasicType, Enter
<1>9. CASE TagValue(c)
  <2>1. \/ Refuse \/ Continue
        \/ \E segment \in Segment, result \in Result :
             basic' = [Enter(segment) EXCEPT !.tags = @ + 1, !.tag_key = FALSE, !.result = result]
    <3>1. Enter(IF c = "," THEN "tag_key" ELSE "value").result \in Result
      BY DEF BasicType, Enter
    <3>2. /\ (IF c = "," THEN "tag_key" ELSE "value") \in Segment
          /\ (IF c = "end" THEN "accepted" ELSE Enter(IF c = "," THEN "tag_key" ELSE "value").result)
               \in Result
      BY <1>2, <3>1
    <3> QED BY <1>9, <3>2 DEF TagValue
  <2>2. ASSUME NEW segment \in Segment, NEW result \in Result,
               basic' = [Enter(segment) EXCEPT !.tags = @ + 1, !.tag_key = FALSE, !.result = result]
        PROVE  BasicType'
    <3>1. Enter(segment).tags = basic.tags /\ basic.tags + 1 \in Nat
      BY DEF BasicType, Enter
    <3>2. PICK n \in Nat : n = Enter(segment).tags + 1
      BY <3>1
    <3>3. basic' = [Enter(segment) EXCEPT !.tags = n, !.tag_key = FALSE, !.result = result]
      BY <2>2, <3>2
    <3> QED BY <1>3, <3>3 DEF BasicType, Enter
  <2> QED BY <1>4, <1>5, <2>1, <2>2
<1>10. CASE Value(c)
  <2> DEFINE grown == [basic EXCEPT !.length = UpTo(@ + 1, 2)]
  <2>1. ASSUME basic' = [grown EXCEPT !.text = Digit] PROVE BasicType'
    <3>1. Digit \in TextOfValue
      <4>1. \A n \in Nat : UpTo(n, Representable + 1) \in Nat /\ UpTo(n, Normal + 1) \in Nat
        BY DigitsAssumption DEF UpTo
      <4>2. basic.text \in TextOfValue
        BY DEF BasicType
      <4>3. /\ UpTo(basic.text.whole + 1, Representable + 1) \in Nat
            /\ UpTo(basic.text.whole + 0, Representable + 1) \in Nat
            /\ UpTo(basic.text.fraction + 1 - 1, Normal + 1) \in Nat
            /\ UpTo(basic.text.fraction + 1 - 0, Normal + 1) \in Nat
        BY <4>1, <4>2 DEF TextOfValue
      <4> QED BY <4>2, <4>3 DEF Digit, TextOfValue
    <3> QED BY <1>3, <2>1, <3>1 DEF BasicType
  <2>2. ASSUME NEW sign \in Sign, basic' = [grown EXCEPT !.text.sign = sign] PROVE BasicType'
    <3>1. [basic.text EXCEPT !.sign = sign] \in TextOfValue
      BY DEF BasicType, TextOfValue
    <3>2. basic' = [grown EXCEPT !.text = [basic.text EXCEPT !.sign = sign]]
      BY <2>2 DEF BasicType
    <3> QED BY <1>3, <3>1, <3>2 DEF BasicType
  <2>3. ASSUME basic' = [grown EXCEPT !.dot_found = TRUE] PROVE BasicType'
    BY <1>3, <2>3 DEF BasicType
  <2>4. ASSUME ParseValue PROVE BasicType'
    <3>1. \/ Refuse
          \/ basic' = [Enter("type") EXCEPT !.explicit_sign = basic.text.sign,
                                            !.dot_found = FALSE, !.text = NoText]
      BY <2>4 DEF ParseValue
    <3>2. basic.text.sign \in Sign
      BY DEF BasicType, TextOfValue
    <3> QED BY <1>2, <1>3, <1>4, <3>1, <3>2 DEF BasicType, Enter
  <2>5. (IF c = "+" THEN "plus" ELSE "minus") \in Sign
    BY <1>2
  <2>6. \/ Refuse \/ ParseValue
        \/ basic' = [grown EXCEPT !.text = Digit]
        \/ basic' = [grown EXCEPT !.dot_found = TRUE]
        \/ basic' = [grown EXCEPT !.text.sign = IF c = "+" THEN "plus" ELSE "minus"]
    BY <1>10 DEF Value
  <2> QED BY <1>4, <2>1, <2>2, <2>3, <2>4, <2>5, <2>6
<1>11. CASE Type(c)
  <2>1. TypeOf(c) \in ValueType
    BY <1>2 DEF TypeOf
  <2>2. [basic EXCEPT !.type = TypeOf(c)] \in
          [result : Result, segment_type : Segment, length : Length, past_type : BOOLEAN,
           dot_found : BOOLEAN, text : TextOfValue, tag_key : BOOLEAN, tags : Nat,
           explicit_sign : Sign, type : ValueType]
    BY <2>1 DEF BasicType
  <2>3. \/ Refuse \/ Continue
        \/ basic' = [basic EXCEPT !.result = "accepted"]
        \/ \E typed \in {basic, [basic EXCEPT !.type = TypeOf(c)]} :
             \/ basic' = [typed EXCEPT !.length = 1]
             \/ basic' = [typed EXCEPT !.segment_type = "divider", !.length = 0]
    BY <1>11, Zenon DEF Type
  <2>4. ASSUME NEW typed \in {basic, [basic EXCEPT !.type = TypeOf(c)]},
               \/ basic' = [typed EXCEPT !.length = 1]
               \/ basic' = [typed EXCEPT !.segment_type = "divider", !.length = 0]
        PROVE  BasicType'
    <3>1. typed \in
            [result : Result, segment_type : Segment, length : Length, past_type : BOOLEAN,
             dot_found : BOOLEAN, text : TextOfValue, tag_key : BOOLEAN, tags : Nat,
             explicit_sign : Sign, type : ValueType]
      BY <2>2 DEF BasicType
    <3> QED BY <1>2, <1>3, <2>4, <3>1 DEF BasicType
  <2>5. ASSUME basic' = [basic EXCEPT !.result = "accepted"] PROVE BasicType'
    BY <1>2, <2>5 DEF BasicType
  <2> QED BY <1>4, <1>5, <2>3, <2>4, <2>5
<1>12. CASE Divider(c)
  <2>1. Refuse \/ Continue \/ basic' = [Enter("tag_key") EXCEPT !.past_type = TRUE]
    BY <1>12 DEF Divider
  <2> QED BY <1>2, <1>3, <1>4, <1>5, <2>1 DEF BasicType, Enter
<1> QED BY <1>1, <1>7, <1>8, <1>9, <1>10, <1>11, <1>12 DEF BasicRead

-----------------------------------------------------------------------------
(* The documented grammar *)

GrammarPlace == {"start", "name", "no_key", "key", "no_text", "text", "number",
                 "sign", "whole", "point", "fraction", "value", "m", "type", "bar",
                 "end_no_key", "end_key", "end_no_text", "end_text", "line", "refused"}

GrammarType ==
    /\ documented = [at |-> documented.at, sign |-> documented.sign, type |-> documented.type,
                     tags |-> documented.tags, run |-> documented.run,
                     long |-> documented.long, mark |-> documented.mark,
                     refused |-> documented.refused]
    /\ documented.at \in GrammarPlace /\ documented.sign \in Sign
    /\ documented.tags \in Nat /\ documented.run \in Nat /\ documented.long \in BOOLEAN

\* The grammar moves on, or leaves the line at the place where it was.
GrammarTo(to, c, marking) ==
    /\ documented'.at = to
    /\ documented'.sign = IF c = "+" THEN "plus" ELSE IF c = "-" THEN "minus" ELSE documented.sign
    /\ documented'.type = IF documented.at = "value" THEN TypeOf(c) ELSE documented.type
    /\ documented'.tags = IF documented.at \in {"text", "end_text"} /\ c \notin Word
                            THEN documented.tags + 1 ELSE documented.tags
    /\ documented'.run = IF to \in {"whole", "fraction"}
                           THEN UpTo(documented.run + 1, MaxDigits + 1) ELSE 0
    /\ documented'.long <=> documented.long \/ documented'.run > MaxDigits
    /\ documented'.mark = IF marking THEN GrammarField(to) ELSE documented.mark

GrammarLeaves(c) ==
    /\ documented'.at = "refused" /\ documented'.refused = <<documented.at, c>>
    /\ GrammarLeads(documented.at, c) = {}

LEMMA GrammarMoves ==
    ASSUME GrammarType, NEW c \in Char, NEW marking \in BOOLEAN, GrammarRead(c, marking)
    PROVE  /\ GrammarType'
           /\ \/ documented.at \in {"line", "refused"} /\ UNCHANGED documented
              \/ /\ documented.at \notin {"line", "refused"}
                 /\ \/ GrammarLeaves(c)
                    \/ \E to \in GrammarLeads(documented.at, c) : GrammarTo(to, c, marking)
<1>1. CASE documented.at \in {"line", "refused"}
  BY <1>1 DEF GrammarRead, GrammarType
<1>2. CASE documented.at \notin {"line", "refused"}
  <2>1. CASE /\ GrammarLeads(documented.at, c) = {}
             /\ documented' = [GrammarStart EXCEPT !.at = "refused",
                                                   !.refused = <<documented.at, c>>]
    <3>1. GrammarLeaves(c)
      BY <2>1 DEF GrammarLeaves, GrammarStart
    <3>2. GrammarType'
      BY <2>1 DEF GrammarType, GrammarStart, GrammarPlace, Sign
    <3> QED BY <1>2, <3>1, <3>2
  <2> DEFINE Moved(to) ==
               LET run == IF to \in {"whole", "fraction"}
                          THEN UpTo(documented.run + 1, MaxDigits + 1) ELSE 0
               IN  [documented EXCEPT !.at = to,
                      !.sign = IF c = "+" THEN "plus" ELSE IF c = "-" THEN "minus" ELSE @,
                      !.type = IF documented.at = "value" THEN TypeOf(c) ELSE @,
                      !.tags = IF documented.at \in {"text", "end_text"} /\ c \notin Word
                               THEN @ + 1 ELSE @,
                      !.run = run,
                      !.long = @ \/ run > MaxDigits,
                      !.mark = IF marking THEN GrammarField(to) ELSE @]
  <2>2. ASSUME NEW to \in GrammarLeads(documented.at, c), documented' = Moved(to)
        PROVE  GrammarType' /\ GrammarTo(to, c, marking)
    <3>1. GrammarTo(to, c, marking)
      BY <2>2 DEF GrammarTo, GrammarType
    <3>2. to \in GrammarPlace
      BY <1>2 DEF GrammarLeads, GrammarPlace, GrammarType
    <3>3. documented'.run \in Nat
      BY <3>1, DigitsAssumption DEF GrammarTo, GrammarType, UpTo
    <3>4. documented'.sign \in Sign /\ documented'.tags \in Nat /\ documented'.long \in BOOLEAN
      <4>1. documented'.long \in BOOLEAN
        BY <2>2 DEF GrammarType
      <4> QED BY <3>1, <4>1 DEF GrammarTo, GrammarType, Sign
    <3> QED BY <2>2, <3>1, <3>2, <3>3, <3>4 DEF GrammarType, GrammarTo
  <2> QED BY <1>2, <2>1, <2>2 DEF GrammarRead
<1> QED BY <1>1, <1>2

-----------------------------------------------------------------------------
(* The basic parser beside the grammar *)

Lenient(parser, at, c) == at \in DOMAIN Lenience(parser) /\ c \in Lenience(parser)[at]

LEMMA BasicLenience ==
    /\ Lenient("basic", "start", "upper")
    /\ Lenient("basic", "no_key", "=")
    /\ Lenient("basic", "no_text", ",") /\ Lenient("basic", "no_text", ":")
    /\ Lenient("basic", "sign", ".")
    /\ Lenient("basic", "point", "|") /\ Lenient("basic", "value", "|")
    /\ Lenient("basic", "m", "end") /\ Lenient("basic", "m", "|")
    /\ Lenient("basic", "type", "end") /\ Lenient("basic", "type", "|")
    /\ Lenient("basic", "bar", "|")
    /\ Lenient("basic", "end_no_key", "=") /\ Lenient("basic", "end_no_key", ":")
    /\ Lenient("basic", "end_key", "=")
    /\ Lenient("basic", "end_no_text", ",") /\ Lenient("basic", "end_no_text", ":")
    /\ Lenient("basic", "end_no_text", "end")
    /\ Lenient("basic", "end_text", ":")
BY DEF Lenient, Lenience

\* The places in the grammar before, in and after the number of a line.
AtFront == documented.at \in {"start", "name", "no_key", "key", "no_text", "text", "number"}

AtNumber == documented.at \in {"sign", "whole", "point", "fraction"}

AtBack == documented.at \in {"end_no_key", "end_key", "end_no_text", "end_text"}

Reading(segment, begun) == basic.segment_type = segment /\ (basic.length > 0 <=> begun)

\* Where the basic parser is when the line so far is documented, ...
BasicSegment ==
    /\ basic.result = IF documented.at = "line" THEN "accepted" ELSE "reading"
    /\ documented.at # "line" => (basic.past_type <=> AtBack)
    /\ documented.at = "start" => Reading("name", FALSE)
    /\ documented.at = "name" => Reading("name", TRUE)
    /\ documented.at \in {"no_key", "end_no_key"} => Reading("tag_key", FALSE)
    /\ documented.at \in {"key", "end_key"} => Reading("tag_key", TRUE)
    /\ documented.at \in {"no_text", "end_no_text"} => Reading("tag_value", FALSE)
    /\ documented.at \in {"text", "end_text"} => Reading("tag_value", TRUE)
    /\ documented.at = "number" => Reading("value", FALSE)
    /\ AtNumber => Reading("value", TRUE)
    /\ documented.at = "value" => Reading("type", FALSE)
    /\ documented.at \in {"m", "type"} => Reading("type", TRUE)
    /\ documented.at = "bar" => Reading("divider", FALSE)

\* ... what it has made of the line, ...
BasicDatagram ==
    /\ basic.tags = documented.tags /\ mark = documented.mark
    /\ basic.type = documented.type
    /\ AtFront => documented.sign = "none" /\ basic.explicit_sign = "none"
    /\ AtNumber => basic.text.sign = documented.sign
    /\ ~AtFront /\ ~AtNumber => basic.explicit_sign = documented.sign

\* ... and what it knows of the number and of the letters of the type.
BasicLetters ==
    /\ AtFront => basic.text = NoText /\ ~basic.dot_found
    /\ AtNumber => /\ basic.text.digit <=> documented.at # "sign"
                   /\ basic.dot_found <=> documented.at \in {"point", "fraction"}
    /\ documented.at = "m" => basic.length = 1 /\ basic.type = "duration"
    /\ documented.at = "type" /\ basic.type = "duration" => basic.length = 2

BasicAt == BasicSegment /\ BasicDatagram /\ BasicLetters

\* One character further, or out of the grammar.
BasicFollows(c) ==
    IF documented'.at = "refused" THEN Refused \/ Lenient("basic", documented.at, c)
    ELSE BasicAt' \/ (Refused /\ basic_errno')

BasicReads(c, marking) ==
    /\ BasicType /\ GrammarType /\ BasicRead(c)
    /\ marking \in BOOLEAN /\ (marking => c # "end")
    /\ mark' = IF marking THEN BasicField ELSE mark
    /\ \/ GrammarLeaves(c)
       \/ \E to \in GrammarLeads(documented.at, c) : GrammarTo(to, c, marking)

\* The marked character is in the same field for both.
LEMMA BasicMark ==
    ASSUME NEW c \in Char, NEW marking, BasicReads(c, marking),
           basic.result = "reading", basic.tags = documented.tags, mark = documented.mark,
           NEW to, GrammarTo(to, c, marking),
           \/ /\ basic'.result = "reading" /\ basic'.length > 0
              /\ \/ basic.segment_type = "name" /\ to = "name"
                 \/ basic.segment_type = "tag_key" /\ to \in {"key", "end_key"}
                 \/ basic.segment_type = "tag_value" /\ to \in {"text", "end_text"}
                 \/ basic.segment_type = "value" /\ to \in {"sign", "whole", "point", "fraction"}
                 \/ basic.segment_type = "type" /\ to \in {"m", "type"}
           \/ /\ ~(basic'.result = "reading" /\ basic'.length > 0)
              /\ to \in {"no_key", "no_text", "number", "value", "bar",
                         "end_no_key", "end_no_text", "line"}
    PROVE  mark' = documented'.mark
<1>1. BasicField = GrammarField(to)
  <2>1. CASE basic'.result = "reading" /\ basic'.length > 0
    <3>1. BasicField = <<basic.segment_type, IF basic.segment_type \in {"tag_key", "tag_value"}
                                             THEN basic.tags + 1 ELSE 0>>
      BY <2>1 DEF BasicField
    <3> QED BY <2>1, <3>1 DEF GrammarField
  <2>2. CASE ~(basic'.result = "reading" /\ basic'.length > 0)
    <3>1. BasicField = <<"none", 0>>
      BY <2>2 DEF BasicField
    <3> QED BY <2>2, <3>1 DEF GrammarField, Unmarked
  <2> QED BY <2>1, <2>2
<1> QED BY <1>1 DEF BasicReads, GrammarTo

\* What a step that is neither a sign nor a letter of the type keeps of the grammar.
GrammarPast(to, n) ==
    /\ documented'.at = to /\ documented'.sign = documented.sign
    /\ documented'.type = documented.type
    /\ documented'.tags = documented.tags + n

LEMMA GrammarCounts ==
    ASSUME GrammarType, NEW c \in Char, NEW marking, NEW to, GrammarTo(to, c, marking),
           c \notin {"+", "-"}, documented.at # "value"
    PROVE  GrammarPast(to, IF documented.at \in {"text", "end_text"} /\ c \notin Word THEN 1 ELSE 0)
BY DEF GrammarTo, GrammarPast, GrammarType

\* Before the number and after the type nothing but the segment, the marked character
\* and the tags change.
LEMMA BasicArrives ==
    ASSUME BasicAt, NEW to, NEW n \in Nat, GrammarPast(to, n), Counts(n), Same,
           BasicSegment', mark' = documented'.mark,
           \/ AtFront /\ AtFront'
           \/ ~AtFront /\ ~AtNumber /\ ~AtFront' /\ ~AtNumber',
           to \notin {"m", "type"}
    PROVE  BasicAt'
<1>1. basic'.tags = documented'.tags /\ basic'.type = documented'.type
  BY DEF BasicAt, BasicDatagram, GrammarPast, Counts, Same
<1>2. CASE AtFront /\ AtFront'
  <2>1. documented'.sign = "none" /\ basic'.explicit_sign = "none"
    BY <1>2 DEF BasicAt, BasicDatagram, GrammarPast, Same
  <2>2. basic'.text = NoText /\ ~basic'.dot_found
    BY <1>2 DEF BasicAt, BasicLetters, Same
  <2>3. ~AtNumber'
    BY <1>2 DEF AtFront, AtNumber
  <2>4. BasicDatagram'
    BY <1>1, <1>2, <2>1, <2>3 DEF BasicDatagram
  <2>5. BasicLetters'
    BY <2>2, <2>3 DEF BasicLetters, GrammarPast
  <2> QED BY <2>4, <2>5 DEF BasicAt
<1>3. CASE ~AtFront /\ ~AtNumber /\ ~AtFront' /\ ~AtNumber'
  <2>1. basic'.explicit_sign = documented'.sign
    BY <1>3 DEF BasicAt, BasicDatagram, GrammarPast, Same
  <2>2. BasicDatagram'
    BY <1>1, <1>3, <2>1 DEF BasicDatagram
  <2>3. BasicLetters'
    BY <1>3 DEF BasicLetters, GrammarPast
  <2> QED BY <2>2, <2>3 DEF BasicAt
<1> QED BY <1>2, <1>3

LEMMA BasicFromStart ==
    ASSUME NEW c \in Char, NEW marking, BasicReads(c, marking), BasicAt,
           documented.at = "start"
    PROVE  BasicFollows(c)
<1>1. /\ basic.result = "reading" /\ basic.segment_type = "name"
      /\ basic.length = 0 /\ ~basic.past_type
      /\ basic.tags = documented.tags /\ mark = documented.mark
  BY DEF BasicAt, BasicSegment, BasicDatagram, Reading, AtBack, BasicReads, BasicType, Length
<1>2. \/ c \in Lower /\ Stays
      \/ c = "upper"
      \/ ~(c \in Lower \/ c = "upper") /\ Refused
  BY <1>1, NameReads DEF BasicReads, Lower, Word, Letter
<1>3. \/ c \in Lower /\ GrammarTo("name", c, marking)
      \/ ~(c \in Lower) /\ GrammarLeaves(c)
  BY DEF BasicReads, GrammarLeads, GrammarLeaves, Lower, Word, Letter, Char
<1>4. CASE GrammarLeaves(c)
  <2>1. Refused \/ c = "upper"
    BY <1>2, <1>3, <1>4 DEF GrammarLeaves, GrammarTo
  <2> QED BY <1>4, <2>1, BasicLenience DEF GrammarLeaves, BasicFollows
<1>5. CASE c \in Lower /\ GrammarTo("name", c, marking)
  <2>1. Stays
    BY <1>2, <1>5 DEF Word, Letter, Lower
  <2>2. mark' = documented'.mark
    BY <1>1, <1>5, <2>1, BasicMark DEF Stays, Turns, Moves
  <2>3. GrammarPast("name", 0)
    BY <1>5, GrammarCounts DEF BasicReads, Word, Letter, Lower
  <2>4. BasicSegment'
    BY <1>1, <2>1, <2>3
       DEF GrammarPast, BasicSegment, Stays, Turns, Moves, Same, Reading, AtBack, AtNumber
  <2>5. BasicAt'
    BY <1>1, <2>1, <2>2, <2>3, <2>4, BasicArrives DEF Stays, Turns, GrammarPast, AtFront, AtNumber
  <2> QED BY <2>3, <2>5 DEF BasicFollows, GrammarPast
<1> QED BY <1>3, <1>4, <1>5

LEMMA BasicFromName ==
    ASSUME NEW c \in Char, NEW marking, BasicReads(c, marking), BasicAt,
           documented.at = "name"
    PROVE  BasicFollows(c)
<1>1. /\ basic.result = "reading" /\ basic.segment_type = "name"
      /\ basic.length > 0 /\ ~basic.past_type
      /\ basic.tags = documented.tags /\ mark = documented.mark
  BY DEF BasicAt, BasicSegment, BasicDatagram, Reading, AtBack, BasicReads, BasicType, Length
<1>2. \/ c \in Word /\ Stays
      \/ c = "," /\ Turns("tag_key")
      \/ c = ":" /\ Turns("value")
      \/ ~(c \in Word \/ c = "," \/ c = ":") /\ Refused
  <2>1. \/ basic.length > 0 /\ c \in Word /\ Stays
        \/ basic.length > 0 /\ c = "," /\ Turns("tag_key")
        \/ basic.length > 0 /\ c = ":" /\ Turns("value")
        \/ basic.length > 0 /\ ~(c \in Word \/ c = "," \/ c = ":") /\ Refused
        \/ basic.length = 0
    <3>1. BasicType /\ BasicRead(c)
      BY DEF BasicReads
    <3> QED BY <1>1, <3>1, NameReads
  <2>2. basic.length # 0
    BY <1>1
  <2> QED BY <2>1, <2>2, Zenon
<1>3. \/ c \in Word /\ GrammarTo("name", c, marking)
      \/ c = "," /\ GrammarTo("no_key", c, marking)
      \/ c = ":" /\ GrammarTo("number", c, marking)
      \/ ~(c \in Word \/ c = "," \/ c = ":") /\ GrammarLeaves(c)
  BY DEF BasicReads, GrammarLeads, GrammarLeaves, Lower, Word, Letter, Char
<1>4. CASE GrammarLeaves(c)
  <2>1. Refused
    BY <1>2, <1>3, <1>4 DEF GrammarLeaves, GrammarTo
  <2> QED BY <1>4, <2>1 DEF GrammarLeaves, BasicFollows
<1>5. CASE c \in Word /\ GrammarTo("name", c, marking)
  <2>1. Stays
    BY <1>2, <1>5 DEF Word, Letter, Lower
  <2>2. mark' = documented'.mark
    BY <1>1, <1>5, <2>1, BasicMark DEF Stays, Turns, Moves
  <2>3. GrammarPast("name", 0)
    BY <1>5, GrammarCounts DEF BasicReads, Word, Letter, Lower
  <2>4. BasicSegment'
    BY <1>1, <2>1, <2>3
       DEF GrammarPast, BasicSegment, Stays, Turns, Moves, Same, Reading, AtBack, AtNumber
  <2>5. BasicAt'
    BY <1>1, <2>1, <2>2, <2>3, <2>4, BasicArrives DEF Stays, Turns, GrammarPast, AtFront, AtNumber
  <2> QED BY <2>3, <2>5 DEF BasicFollows, GrammarPast
<1>6. CASE c = "," /\ GrammarTo("no_key", c, marking)
  <2>1. Turns("tag_key")
    BY <1>2, <1>6 DEF Word, Letter, Lower
  <2>2. mark' = documented'.mark
    BY <1>1, <1>6, <2>1, BasicMark DEF Stays, Turns, Moves
  <2>3. GrammarPast("no_key", 0)
    BY <1>6, GrammarCounts DEF BasicReads, Word, Letter, Lower
  <2>4. BasicSegment'
    BY <1>1, <2>1, <2>3
       DEF GrammarPast, BasicSegment, Stays, Turns, Moves, Same, Reading, AtBack, AtNumber
  <2>5. BasicAt'
    BY <1>1, <2>1, <2>2, <2>3, <2>4, BasicArrives DEF Stays, Turns, GrammarPast, AtFront, AtNumber
  <2> QED BY <2>3, <2>5 DEF BasicFollows, GrammarPast
<1>7. CASE c = ":" /\ GrammarTo("number", c, marking)
  <2>1. Turns("value")
    BY <1>2, <1>7 DEF Word, Letter, Lower
  <2>2. mark' = documented'.mark
    BY <1>1, <1>7, <2>1, BasicMark DEF Stays, Turns, Moves
  <2>3. GrammarPast("number", 0)
    BY <1>7, GrammarCounts DEF BasicReads, Word, Letter, Lower
  <2>4. BasicSegment'
    BY <1>1, <2>1, <2>3
       DEF GrammarPast, BasicSegment, Stays, Turns, Moves, Same, Reading, AtBack, AtNumber
  <2>5. BasicAt'
    BY <1>1, <2>1, <2>2, <2>3, <2>4, BasicArrives DEF Stays, Turns, GrammarPast, AtFront, AtNumber
  <2> QED BY <2>3, <2>5 DEF BasicFollows, GrammarPast
<1> QED BY <1>3, <1>4, <1>5, <1>6, <1>7

LEMMA BasicFromNoKey ==
    ASSUME NEW c \in Char, NEW marking, BasicReads(c, marking), BasicAt,
           documented.at = "no_key"
    PROVE  BasicFollows(c)
<1>1. /\ basic.result = "reading" /\ basic.segment_type = "tag_key"
      /\ basic.length = 0 /\ ~basic.past_type
      /\ basic.tags = documented.tags /\ mark = documented.mark
  BY DEF BasicAt, BasicSegment, BasicDatagram, Reading, AtBack, BasicReads, BasicType, Length
<1>2. \/ c \in Word /\ Stays
      \/ c = "="
      \/ ~(c \in Word \/ c = "=") /\ Refused
  BY <1>1, TagKeyReads DEF BasicReads, Lower, Word, Letter
<1>3. \/ c \in Word /\ GrammarTo("key", c, marking)
      \/ ~(c \in Word) /\ GrammarLeaves(c)
  BY DEF BasicReads, GrammarLeads, GrammarLeaves, Lower, Word, Letter, Char
<1>4. CASE GrammarLeaves(c)
  <2>1. Refused \/ c = "="
    BY <1>2, <1>3, <1>4 DEF GrammarLeaves, GrammarTo
  <2> QED BY <1>4, <2>1, BasicLenience DEF GrammarLeaves, BasicFollows
<1>5. CASE c \in Word /\ GrammarTo("key", c, marking)
  <2>1. Stays
    BY <1>2, <1>5 DEF Word, Letter, Lower
  <2>2. mark' = documented'.mark
    BY <1>1, <1>5, <2>1, BasicMark DEF Stays, Turns, Moves
  <2>3. GrammarPast("key", 0)
    BY <1>5, GrammarCounts DEF BasicReads, Word, Letter, Lower
  <2>4. BasicSegment'
    BY <1>1, <2>1, <2>3
       DEF GrammarPast, BasicSegment, Stays, Turns, Moves, Same, Reading, AtBack, AtNumber
  <2>5. BasicAt'
    BY <1>1, <2>1, <2>2, <2>3, <2>4, BasicArrives DEF Stays, Turns, GrammarPast, AtFront, AtNumber
  <2> QED BY <2>3, <2>5 DEF BasicFollows, GrammarPast
<1> QED BY <1>3, <1>4, <1>5

LEMMA BasicFromKey ==
    ASSUME NEW c \in Char, NEW marking, BasicReads(c, marking), BasicAt,
           documented.at = "key"
    PROVE  BasicFollows(c)
<1>1. /\ basic.result = "reading" /\ basic.segment_type = "tag_key"
      /\ basic.length > 0 /\ ~basic.past_type
      /\ basic.tags = documented.tags /\ mark = documented.mark
  BY DEF BasicAt, BasicSegment, BasicDatagram, Reading, AtBack, BasicReads, BasicType, Length
<1>2. \/ c \in Word /\ Stays
      \/ c = "=" /\ Turns("tag_value")
      \/ ~(c \in Word \/ c = "=") /\ Refused
  BY <1>1, TagKeyReads DEF BasicReads, Lower, Word, Letter
<1>3. \/ c \in Word /\ GrammarTo("key", c, marking)
      \/ c = "=" /\ GrammarTo("no_text", c, marking)
      \/ ~(c \in Word \/ c = "=") /\ GrammarLeaves(c)
  BY DEF BasicReads, GrammarLeads, GrammarLeaves, Lower, Word, Letter, Char
<1>4. CASE GrammarLeaves(c)
  <2>1. Refused
    BY <1>2, <1>3, <1>4 DEF GrammarLeaves, GrammarTo
  <2> QED BY <1>4, <2>1 DEF GrammarLeaves, BasicFollows
<1>5. CASE c \in Word /\ GrammarTo("key", c, marking)
  <2>1. Stays
    BY <1>2, <1>5 DEF Word, Letter, Lower
  <2>2. mark' = documented'.mark
    BY <1>1, <1>5, <2>1, BasicMark DEF Stays, Turns, Moves
  <2>3. GrammarPast("key", 0)
    BY <1>5, GrammarCounts DEF BasicReads, Word, Letter, Lower
  <2>4. BasicSegment'
    BY <1>1, <2>1, <2>3
       DEF GrammarPast, BasicSegment, Stays, Turns, Moves, Same, Reading, AtBack, AtNumber
  <2>5. BasicAt'
    BY <1>1, <2>1, <2>2, <2>3, <2>4, BasicArrives DEF Stays, Turns, GrammarPast, AtFront, AtNumber
  <2> QED BY <2>3, <2>5 DEF BasicFollows, GrammarPast
<1>6. CASE c = "=" /\ GrammarTo("no_text", c, marking)
  <2>1. Turns("tag_value")
    BY <1>2, <1>6 DEF Word, Letter, Lower
  <2>2. mark' = documented'.mark
    BY <1>1, <1>6, <2>1, BasicMark DEF Stays, Turns, Moves
  <2>3. GrammarPast("no_text", 0)
    BY <1>6, GrammarCounts DEF BasicReads, Word, Letter, Lower
  <2>4. BasicSegment'
    BY <1>1, <2>1, <2>3
       DEF GrammarPast, BasicSegment, Stays, Turns, Moves, Same, Reading, AtBack, AtNumber
  <2>5. BasicAt'
    BY <1>1, <2>1, <2>2, <2>3, <2>4, BasicArrives DEF Stays, Turns, GrammarPast, AtFront, AtNumber
  <2> QED BY <2>3, <2>5 DEF BasicFollows, GrammarPast
<1> QED BY <1>3, <1>4, <1>5, <1>6

LEMMA BasicFromNoText ==
    ASSUME NEW c \in Char, NEW marking, BasicReads(c, marking), BasicAt,
           documented.at = "no_text"
    PROVE  BasicFollows(c)
<1>1. /\ basic.result = "reading" /\ basic.segment_type = "tag_value"
      /\ basic.length = 0 /\ ~basic.past_type
      /\ basic.tags = documented.tags /\ mark = documented.mark
  BY DEF BasicAt, BasicSegment, BasicDatagram, Reading, AtBack, BasicReads, BasicType, Length
<1>2. \/ c \in Word /\ Stays
      \/ c = ","
      \/ c = ":"
      \/ ~(c \in Word \/ c = "," \/ c = ":") /\ Refused
  BY <1>1, TagValueReads DEF BasicReads, Lower, Word, Letter
<1>3. \/ c \in Word /\ GrammarTo("text", c, marking)
      \/ ~(c \in Word) /\ GrammarLeaves(c)
  BY DEF BasicReads, GrammarLeads, GrammarLeaves, Lower, Word, Letter, Char
<1>4. CASE GrammarLeaves(c)
  <2>1. Refused \/ c = "," \/ c = ":"
    BY <1>2, <1>3, <1>4 DEF GrammarLeaves, GrammarTo
  <2> QED BY <1>4, <2>1, BasicLenience DEF GrammarLeaves, BasicFollows
<1>5. CASE c \in Word /\ GrammarTo("text", c, marking)
  <2>1. Stays
    BY <1>2, <1>5 DEF Word, Letter, Lower
  <2>2. mark' = documented'.mark
    BY <1>1, <1>5, <2>1, BasicMark DEF Stays, Turns, Moves
  <2>3. GrammarPast("text", 0)
    BY <1>5, GrammarCounts DEF BasicReads, Word, Letter, Lower
  <2>4. BasicSegment'
    BY <1>1, <2>1, <2>3
       DEF GrammarPast, BasicSegment, Stays, Turns, Moves, Same, Reading, AtBack, AtNumber
  <2>5. BasicAt'
    BY <1>1, <2>1, <2>2, <2>3, <2>4, BasicArrives DEF Stays, Turns, GrammarPast, AtFront, AtNumber
  <2> QED BY <2>3, <2>5 DEF BasicFollows, GrammarPast
<1> QED BY <1>3, <1>4, <1>5

LEMMA BasicFromText ==
    ASSUME NEW c \in Char, NEW marking, BasicReads(c, marking), BasicAt,
           documented.at = "text"
    PROVE  BasicFollows(c)
<1>1. /\ basic.result = "reading" /\ basic.segment_type = "tag_value"
      /\ basic.length > 0 /\ ~basic.past_type
      /\ basic.tags = documented.tags /\ mark = documented.mark
  BY DEF BasicAt, BasicSegment, BasicDatagram, Reading, AtBack, BasicReads, BasicType, Length
<1>2. \/ c \in Word /\ Stays
      \/ c = "," /\ Moves("tag_key", FALSE) /\ Same /\ Counts(1)
      \/ c = ":" /\ Moves("value", FALSE) /\ Same /\ Counts(1)
      \/ ~(c \in Word \/ c = "," \/ c = ":") /\ Refused
  BY <1>1, TagValueReads DEF BasicReads, Lower, Word, Letter
<1>3. \/ c \in Word /\ GrammarTo("text", c, marking)
      \/ c = "," /\ GrammarTo("no_key", c, marking)
      \/ c = ":" /\ GrammarTo("number", c, marking)
      \/ ~(c \in Word \/ c = "," \/ c = ":") /\ GrammarLeaves(c)
  BY DEF BasicReads, GrammarLeads, GrammarLeaves, Lower, Word, Letter, Char
<1>4. CASE GrammarLeaves(c)
  <2>1. Refused
    BY <1>2, <1>3, <1>4 DEF GrammarLeaves, GrammarTo
  <2> QED BY <1>4, <2>1 DEF GrammarLeaves, BasicFollows
<1>5. CASE c \in Word /\ GrammarTo("text", c, marking)
  <2>1. Stays
    BY <1>2, <1>5 DEF Word, Letter, Lower
  <2>2. mark' = documented'.mark
    BY <1>1, <1>5, <2>1, BasicMark DEF Stays, Turns, Moves
  <2>3. GrammarPast("text", 0)
    BY <1>5, GrammarCounts DEF BasicReads, Word, Letter, Lower
  <2>4. BasicSegment'
    BY <1>1, <2>1, <2>3
       DEF GrammarPast, BasicSegment, Stays, Turns, Moves, Same, Reading, AtBack, AtNumber
  <2>5. BasicAt'
    BY <1>1, <2>1, <2>2, <2>3, <2>4, BasicArrives DEF Stays, Turns, GrammarPast, AtFront, AtNumber
  <2> QED BY <2>3, <2>5 DEF BasicFollows, GrammarPast
<1>6. CASE c = "," /\ GrammarTo("no_key", c, marking)
  <2>1. Moves("tag_key", FALSE) /\ Same /\ Counts(1)
    BY <1>2, <1>6 DEF Word, Letter, Lower
  <2>2. mark' = documented'.mark
    BY <1>1, <1>6, <2>1, BasicMark DEF Stays, Turns, Moves
  <2>3. GrammarPast("no_key", 1)
    BY <1>6, GrammarCounts DEF BasicReads, Word, Letter, Lower
  <2>4. BasicSegment'
    BY <1>1, <2>1, <2>3
       DEF GrammarPast, BasicSegment, Stays, Turns, Moves, Same, Reading, AtBack, AtNumber
  <2>5. BasicAt'
    BY <1>1, <2>1, <2>2, <2>3, <2>4, BasicArrives DEF Stays, Turns, GrammarPast, AtFront, AtNumber
  <2> QED BY <2>3, <2>5 DEF BasicFollows, GrammarPast
<1>7. CASE c = ":" /\ GrammarTo("number", c, marking)
  <2>1. Moves("value", FALSE) /\ Same /\ Counts(1)
    BY <1>2, <1>7 DEF Word, Letter, Lower
  <2>2. mark' = documented'.mark
    BY <1>1, <1>7, <2>1, BasicMark DEF Stays, Turns, Moves
  <2>3. GrammarPast("number", 1)
    BY <1>7, GrammarCounts DEF BasicReads, Word, Letter, Lower
  <2>4. BasicSegment'
    BY <1>1, <2>1, <2>3
       DEF GrammarPast, BasicSegment, Stays, Turns, Moves, Same, Reading, AtBack, AtNumber
  <2>5. BasicAt'
    BY <1>1, <2>1, <2>2, <2>3, <2>4, BasicArrives DEF Stays, Turns, GrammarPast, AtFront, AtNumber
  <2> QED BY <2>3, <2>5 DEF BasicFollows, GrammarPast
<1> QED BY <1>3, <1>4, <1>5, <1>6, <1>7

LEMMA BasicFromEndNoKey ==
    ASSUME NEW c \in Char, NEW marking, BasicReads(c, marking), BasicAt,
           documented.at = "end_no_key"
    PROVE  BasicFollows(c)
<1>1. /\ basic.result = "reading" /\ basic.segment_type = "tag_key"
      /\ basic.length = 0 /\ basic.past_type
      /\ basic.tags = documented.tags /\ mark = documented.mark
  BY DEF BasicAt, BasicSegment, BasicDatagram, Reading, AtBack, BasicReads, BasicType, Length
<1>2. \/ c \in Word /\ Stays
      \/ c = "="
      \/ c = ":"
      \/ ~(c \in Word \/ c = "=" \/ c = ":") /\ Refused
  BY <1>1, TagKeyReads DEF BasicReads, Lower, Word, Letter
<1>3. \/ c \in Word /\ GrammarTo("end_key", c, marking)
      \/ ~(c \in Word) /\ GrammarLeaves(c)
  BY DEF BasicReads, GrammarLeads, GrammarLeaves, Lower, Word, Letter, Char
<1>4. CASE GrammarLeaves(c)
  <2>1. Refused \/ c = "=" \/ c = ":"
    BY <1>2, <1>3, <1>4 DEF GrammarLeaves, GrammarTo
  <2> QED BY <1>4, <2>1, BasicLenience DEF GrammarLeaves, BasicFollows
<1>5. CASE c \in Word /\ GrammarTo("end_key", c, marking)
  <2>1. Stays
    BY <1>2, <1>5 DEF Word, Letter, Lower
  <2>2. mark' = documented'.mark
    BY <1>1, <1>5, <2>1, BasicMark DEF Stays, Turns, Moves
  <2>3. GrammarPast("end_key", 0)
    BY <1>5, GrammarCounts DEF BasicReads, Word, Letter, Lower
  <2>4. BasicSegment'
    BY <1>1, <2>1, <2>3
       DEF GrammarPast, BasicSegment, Stays, Turns, Moves, Same, Reading, AtBack, AtNumber
  <2>5. BasicAt'
    BY <1>1, <2>1, <2>2, <2>3, <2>4, BasicArrives DEF Stays, Turns, GrammarPast, AtFront, AtNumber
  <2> QED BY <2>3, <2>5 DEF BasicFollows, GrammarPast
<1> QED BY <1>3, <1>4, <1>5

LEMMA BasicFromEndKey ==
    ASSUME NEW c \in Char, NEW marking, BasicReads(c, marking), BasicAt,
           documented.at = "end_key"
    PROVE  BasicFollows(c)
<1>1. /\ basic.result = "reading" /\ basic.segment_type = "tag_key"
      /\ basic.length > 0 /\ basic.past_type
      /\ basic.tags = documented.tags /\ mark = documented.mark
  BY DEF BasicAt, BasicSegment, BasicDatagram, Reading, AtBack, BasicReads, BasicType, Length
<1>2. \/ c \in Word /\ Stays
      \/ c = ":" /\ Turns("tag_value")
      \/ c = "="
      \/ ~(c \in Word \/ c = ":" \/ c = "=") /\ Refused
  BY <1>1, TagKeyReads DEF BasicReads, Lower, Word, Letter
<1>3. \/ c \in Word /\ GrammarTo("end_key", c, marking)
      \/ c = ":" /\ GrammarTo("end_no_text", c, marking)
      \/ ~(c \in Word \/ c = ":") /\ GrammarLeaves(c)
  BY DEF BasicReads, GrammarLeads, GrammarLeaves, Lower, Word, Letter, Char
<1>4. CASE GrammarLeaves(c)
  <2>1. Refused \/ c = "="
    BY <1>2, <1>3, <1>4 DEF GrammarLeaves, GrammarTo
  <2> QED BY <1>4, <2>1, BasicLenience DEF GrammarLeaves, BasicFollows
<1>5. CASE c \in Word /\ GrammarTo("end_key", c, marking)
  <2>1. Stays
    BY <1>2, <1>5 DEF Word, Letter, Lower
  <2>2. mark' = documented'.mark
    BY <1>1, <1>5, <2>1, BasicMark DEF Stays, Turns, Moves
  <2>3. GrammarPast("end_key", 0)
    BY <1>5, GrammarCounts DEF BasicReads, Word, Letter, Lower
  <2>4. BasicSegment'
    BY <1>1, <2>1, <2>3
       DEF GrammarPast, BasicSegment, Stays, Turns, Moves, Same, Reading, AtBack, AtNumber
  <2>5. BasicAt'
    BY <1>1, <2>1, <2>2, <2>3, <2>4, BasicArrives DEF Stays, Turns, GrammarPast, AtFront, AtNumber
  <2> QED BY <2>3, <2>5 DEF BasicFollows, GrammarPast
<1>6. CASE c = ":" /\ GrammarTo("end_no_text", c, marking)
  <2>1. Turns("tag_value")
    BY <1>2, <1>6 DEF Word, Letter, Lower
  <2>2. mark' = documented'.mark
    BY <1>1, <1>6, <2>1, BasicMark DEF Stays, Turns, Moves
  <2>3. GrammarPast("end_no_text", 0)
    BY <1>6, GrammarCounts DEF BasicReads, Word, Letter, Lower
  <2>4. BasicSegment'
    BY <1>1, <2>1, <2>3
       DEF GrammarPast, BasicSegment, Stays, Turns, Moves, Same, Reading, AtBack, AtNumber
  <2>5. BasicAt'
    BY <1>1, <2>1, <2>2, <2>3, <2>4, BasicArrives DEF Stays, Turns, GrammarPast, AtFront, AtNumber
  <2> QED BY <2>3, <2>5 DEF BasicFollows, GrammarPast
<1> QED BY <1>3, <1>4, <1>5, <1>6

LEMMA BasicFromEndNoText ==
    ASSUME NEW c \in Char, NEW marking, BasicReads(c, marking), BasicAt,
           documented.at = "end_no_text"
    PROVE  BasicFollows(c)
<1>1. /\ basic.result = "reading" /\ basic.segment_type = "tag_value"
      /\ basic.length = 0 /\ basic.past_type
      /\ basic.tags = documented.tags /\ mark = documented.mark
  BY DEF BasicAt, BasicSegment, BasicDatagram, Reading, AtBack, BasicReads, BasicType, Length
<1>2. \/ c \in Word /\ Stays
      \/ c = ","
      \/ c = ":"
      \/ c = "end"
      \/ ~(c \in Word \/ c = "," \/ c = ":" \/ c = "end") /\ Refused
  BY <1>1, TagValueReads DEF BasicReads, Lower, Word, Letter
<1>3. \/ c \in Word /\ GrammarTo("end_text", c, marking)
      \/ ~(c \in Word) /\ GrammarLeaves(c)
  BY DEF BasicReads, GrammarLeads, GrammarLeaves, Lower, Word, Letter, Char
<1>4. CASE GrammarLeaves(c)
  <2>1. Refused \/ c = "," \/ c = ":" \/ c = "end"
    BY <1>2, <1>3, <1>4 DEF GrammarLeaves, GrammarTo
  <2> QED BY <1>4, <2>1, BasicLenience DEF GrammarLeaves, BasicFollows
<1>5. CASE c \in Word /\ GrammarTo("end_text", c, marking)
  <2>1. Stays
    BY <1>2, <1>5 DEF Word, Letter, Lower
  <2>2. mark' = documented'.mark
    BY <1>1, <1>5, <2>1, BasicMark DEF Stays, Turns, Moves
  <2>3. GrammarPast("end_text", 0)
    BY <1>5, GrammarCounts DEF BasicReads, Word, Letter, Lower
  <2>4. BasicSegment'
    BY <1>1, <2>1, <2>3
       DEF GrammarPast, BasicSegment, Stays, Turns, Moves, Same, Reading, AtBack, AtNumber
  <2>5. BasicAt'
    BY <1>1, <2>1, <2>2, <2>3, <2>4, BasicArrives DEF Stays, Turns, GrammarPast, AtFront, AtNumber
  <2> QED BY <2>3, <2>5 DEF BasicFollows, GrammarPast
<1> QED BY <1>3, <1>4, <1>5

LEMMA BasicFromEndText ==
    ASSUME NEW c \in Char, NEW marking, BasicReads(c, marking), BasicAt,
           documented.at = "end_text"
    PROVE  BasicFollows(c)
<1>1. /\ basic.result = "reading" /\ basic.segment_type = "tag_value"
      /\ basic.length > 0 /\ basic.past_type
      /\ basic.tags = documented.tags /\ mark = documented.mark
  BY DEF BasicAt, BasicSegment, BasicDatagram, Reading, AtBack, BasicReads, BasicType, Length
<1>2. \/ c \in Word /\ Stays
      \/ c = "," /\ Moves("tag_key", FALSE) /\ Same /\ Counts(1)
      \/ c = "end" /\ basic'.result = "accepted" /\ Same /\ Counts(1)
      \/ c = ":"
      \/ ~(c \in Word \/ c = "," \/ c = "end" \/ c = ":") /\ Refused
  BY <1>1, TagValueReads DEF BasicReads, Lower, Word, Letter
<1>3. \/ c \in Word /\ GrammarTo("end_text", c, marking)
      \/ c = "," /\ GrammarTo("end_no_key", c, marking)
      \/ c = "end" /\ GrammarTo("line", c, marking)
      \/ ~(c \in Word \/ c = "," \/ c = "end") /\ GrammarLeaves(c)
  BY DEF BasicReads, GrammarLeads, GrammarLeaves, Lower, Word, Letter, Char
<1>4. CASE GrammarLeaves(c)
  <2>1. Refused \/ c = ":"
    BY <1>2, <1>3, <1>4 DEF GrammarLeaves, GrammarTo
  <2> QED BY <1>4, <2>1, BasicLenience DEF GrammarLeaves, BasicFollows
<1>5. CASE c \in Word /\ GrammarTo("end_text", c, marking)
  <2>1. Stays
    BY <1>2, <1>5 DEF Word, Letter, Lower
  <2>2. mark' = documented'.mark
    BY <1>1, <1>5, <2>1, BasicMark DEF Stays, Turns, Moves
  <2>3. GrammarPast("end_text", 0)
    BY <1>5, GrammarCounts DEF BasicReads, Word, Letter, Lower
  <2>4. BasicSegment'
    BY <1>1, <2>1, <2>3
       DEF GrammarPast, BasicSegment, Stays, Turns, Moves, Same, Reading, AtBack, AtNumber
  <2>5. BasicAt'
    BY <1>1, <2>1, <2>2, <2>3, <2>4, BasicArrives DEF Stays, Turns, GrammarPast, AtFront, AtNumber
  <2> QED BY <2>3, <2>5 DEF BasicFollows, GrammarPast
<1>6. CASE c = "," /\ GrammarTo("end_no_key", c, marking)
  <2>1. Moves("tag_key", FALSE) /\ Same /\ Counts(1)
    BY <1>2, <1>6 DEF Word, Letter, Lower
  <2>2. mark' = documented'.mark
    BY <1>1, <1>6, <2>1, BasicMark DEF Stays, Turns, Moves
  <2>3. GrammarPast("end_no_key", 1)
    BY <1>6, GrammarCounts DEF BasicReads, Word, Letter, Lower
  <2>4. BasicSegment'
    BY <1>1, <2>1, <2>3
       DEF GrammarPast, BasicSegment, Stays, Turns, Moves, Same, Reading, AtBack, AtNumber
  <2>5. BasicAt'
    BY <1>1, <2>1, <2>2, <2>3, <2>4, BasicArrives DEF Stays, Turns, GrammarPast, AtFront, AtNumber
  <2> QED BY <2>3, <2>5 DEF BasicFollows, GrammarPast
<1>7. CASE c = "end" /\ GrammarTo("line", c, marking)
  <2>1. basic'.result = "accepted" /\ Same /\ Counts(1)
    BY <1>2, <1>7 DEF Word, Letter, Lower
  <2>2. mark' = documented'.mark
    BY <1>1, <1>7, <2>1, BasicMark DEF Stays, Turns, Moves
  <2>3. GrammarPast("line", 1)
    BY <1>7, GrammarCounts DEF BasicReads, Word, Letter, Lower
  <2>4. BasicSegment'
    BY <1>1, <2>1, <2>3
       DEF GrammarPast, BasicSegment, Stays, Turns, Moves, Same, Reading, AtBack, AtNumber
  <2>5. BasicAt'
    BY <1>1, <2>1, <2>2, <2>3, <2>4, BasicArrives DEF Stays, Turns, GrammarPast, AtFront, AtNumber
  <2> QED BY <2>3, <2>5 DEF BasicFollows, GrammarPast
<1> QED BY <1>3, <1>4, <1>5, <1>6, <1>7

\* In the number the text that becomes the value is what the grammar has seen of it.
LEMMA BasicNumber ==
    ASSUME BasicAt, documented.at = "number" \/ AtNumber,
           NEW to \in {"sign", "whole", "point", "fraction"},
           documented'.at = to, documented'.type = documented.type,
           documented'.tags = documented.tags,
           NEW sign, NEW digit, NEW dot, Number(sign, digit, dot),
           sign = documented'.sign, digit <=> to # "sign", dot <=> to \in {"point", "fraction"},
           basic.tags \in Nat, mark' = documented'.mark
    PROVE  BasicAt'
<1>1. AtNumber' /\ ~AtFront' /\ ~AtBack' /\ documented'.at \notin {"line", "m", "type"}
  BY DEF AtNumber, AtFront, AtBack
<1>2. ~basic.past_type
  BY DEF BasicAt, BasicSegment, AtNumber, AtBack
<1>3. BasicSegment'
  <2>1. /\ basic'.result = "reading" /\ ~basic'.past_type
        /\ basic'.segment_type = "value" /\ basic'.length > 0
    BY <1>2 DEF Number, Moves
  <2> QED BY <1>1, <2>1 DEF BasicSegment, Reading
<1>4. BasicDatagram'
  <2>1. basic'.tags = documented'.tags /\ basic'.type = documented'.type
    BY DEF BasicAt, BasicDatagram, Number, Counts
  <2>2. basic'.text.sign = documented'.sign
    BY DEF Number
  <2> QED BY <1>1, <2>1, <2>2 DEF BasicDatagram
<1>5. BasicLetters'
  <2>1. (basic'.text.digit <=> to # "sign") /\ (basic'.dot_found <=> to \in {"point", "fraction"})
    BY DEF Number
  <2> QED BY <1>1, <2>1 DEF BasicLetters
<1> QED BY <1>3, <1>4, <1>5 DEF BasicAt

LEMMA NumberMark ==
    ASSUME NEW c \in Char, NEW marking, BasicReads(c, marking), BasicAt,
           basic.result = "reading", basic.segment_type = "value",
           NEW to \in {"sign", "whole", "point", "fraction"}, GrammarTo(to, c, marking),
           NEW sign, NEW digit, NEW dot, Number(sign, digit, dot)
    PROVE  mark' = documented'.mark
<1>1. basic'.result = "reading" /\ basic'.length > 0
  BY DEF Number, Moves
<1>2. basic.tags = documented.tags /\ mark = documented.mark
  BY DEF BasicAt, BasicDatagram
<1> QED BY <1>1, <1>2, BasicMark

\* strtod has made a number of the text.
ValueTaken ==
    /\ Moves("type", FALSE) /\ Counts(0) /\ basic'.explicit_sign = basic.text.sign
    /\ basic'.past_type = basic.past_type /\ basic'.type = basic.type

LEMMA BasicValueEnds ==
    ASSUME NEW marking, BasicReads("|", marking), BasicAt, AtNumber, ValueTaken,
           GrammarTo("value", "|", marking), basic.tags \in Nat, basic.result = "reading",
           basic.text.sign = documented.sign
    PROVE  BasicAt'
<1>1. /\ documented'.at = "value" /\ documented'.type = documented.type
      /\ documented'.tags = documented.tags /\ documented'.sign = documented.sign
  BY DEF GrammarTo, AtNumber
<1>2. ~AtFront' /\ ~AtNumber' /\ ~AtBack'
  BY <1>1 DEF AtFront, AtNumber, AtBack
<1>3. mark' = documented'.mark
  <2>1. ~(basic'.result = "reading" /\ basic'.length > 0)
    BY DEF ValueTaken, Moves
  <2>2. "|" \in Char /\ basic.tags = documented.tags /\ mark = documented.mark
    BY DEF Char, BasicAt, BasicDatagram
  <2> QED BY <2>1, <2>2, BasicMark
<1>4. BasicSegment'
  <2>1. ~basic.past_type
    BY DEF BasicAt, BasicSegment, AtNumber, AtBack
  <2>2. /\ basic'.result = "reading" /\ ~basic'.past_type
        /\ basic'.segment_type = "type" /\ ~(basic'.length > 0)
    BY <2>1 DEF ValueTaken, Moves
  <2> QED BY <1>1, <1>2, <2>2 DEF BasicSegment, Reading
<1>5. BasicDatagram'
  <2>1. /\ basic'.tags = documented'.tags /\ basic'.type = documented'.type
        /\ basic'.explicit_sign = documented'.sign
    BY <1>1 DEF BasicAt, BasicDatagram, ValueTaken, Counts
  <2> QED BY <1>2, <1>3, <2>1 DEF BasicDatagram
<1>6. BasicLetters'
  BY <1>1, <1>2 DEF BasicLetters
<1> QED BY <1>4, <1>5, <1>6 DEF BasicAt

LEMMA BasicFromNumber ==
    ASSUME NEW c \in Char, NEW marking, BasicReads(c, marking), BasicAt,
           documented.at = "number"
    PROVE  BasicFollows(c)
<1>1. /\ basic.result = "reading" /\ basic.segment_type = "value"
      /\ basic.length = 0 /\ basic.tags \in Nat
  BY DEF BasicAt, BasicSegment, Reading, AtNumber, BasicReads, BasicType, Length
<1>2. /\ basic.text.digit = FALSE /\ basic.dot_found = FALSE
      /\ basic.text.sign = "none" /\ documented.sign = "none"
  BY DEF BasicAt, BasicDatagram, BasicLetters, AtNumber, AtFront, NoText
<1>3. /\ c = "+" => Number("plus", FALSE, FALSE)
      /\ c = "-" => Number("minus", FALSE, FALSE)
      /\ c = "digit" => Number("none", TRUE, FALSE)
      /\ c \notin {"digit", "+", "-"} => Refused
  <2>1. BasicType /\ BasicRead(c) /\ basic.length = 0 /\ ~(basic.length > 0)
    BY <1>1 DEF BasicReads
  <2>2. c = "+" => Number("plus", FALSE, FALSE)
    BY <1>1, <1>2, <2>1, ValueReads DEF ValueTaken
  <2>3. c = "-" => Number("minus", FALSE, FALSE)
    BY <1>1, <1>2, <2>1, ValueReads DEF ValueTaken
  <2>4. c = "digit" => Number("none", TRUE, FALSE)
    BY <1>1, <1>2, <2>1, ValueReads DEF ValueTaken
  <2>5. c \notin {"digit", "+", "-"} => Refused
    BY <1>1, <1>2, <2>1, ValueReads DEF ValueTaken
  <2> QED BY <2>2, <2>3, <2>4, <2>5
<1>4. \/ c = "+" /\ GrammarTo("sign", c, marking)
      \/ c = "-" /\ GrammarTo("sign", c, marking)
      \/ c = "digit" /\ GrammarTo("whole", c, marking)
      \/ ~(c = "+" \/ c = "-" \/ c = "digit") /\ GrammarLeaves(c)
  BY DEF BasicReads, GrammarLeads, GrammarLeaves
<1>5. CASE GrammarLeaves(c)
  <2>1. Refused
    BY <1>3, <1>4, <1>5 DEF GrammarLeaves, GrammarTo
  <2> QED BY <1>5, <2>1, BasicLenience DEF GrammarLeaves, BasicFollows
<1>6. CASE c = "+" /\ GrammarTo("sign", c, marking)
  <2>1. Number("plus", FALSE, FALSE)
    BY <1>3, <1>6
  <2>2. mark' = documented'.mark
    BY <1>1, <1>6, <2>1, NumberMark
  <2>3. /\ documented'.at = "sign" /\ documented'.type = documented.type
        /\ documented'.tags = documented.tags /\ documented'.sign = "plus"
    BY <1>2, <1>6 DEF GrammarTo
  <2>4. BasicAt'
    BY <1>1, <1>2, <2>1, <2>2, <2>3, BasicNumber DEF AtNumber
  <2> QED BY <2>3, <2>4 DEF BasicFollows
<1>7. CASE c = "-" /\ GrammarTo("sign", c, marking)
  <2>1. Number("minus", FALSE, FALSE)
    BY <1>3, <1>7
  <2>2. mark' = documented'.mark
    BY <1>1, <1>7, <2>1, NumberMark
  <2>3. /\ documented'.at = "sign" /\ documented'.type = documented.type
        /\ documented'.tags = documented.tags /\ documented'.sign = "minus"
    BY <1>2, <1>7 DEF GrammarTo
  <2>4. BasicAt'
    BY <1>1, <1>2, <2>1, <2>2, <2>3, BasicNumber DEF AtNumber
  <2> QED BY <2>3, <2>4 DEF BasicFollows
<1>8. CASE c = "digit" /\ GrammarTo("whole", c, marking)
  <2>1. Number("none", TRUE, FALSE)
    BY <1>3, <1>8
  <2>2. mark' = documented'.mark
    BY <1>1, <1>8, <2>1, NumberMark
  <2>3. /\ documented'.at = "whole" /\ documented'.type = documented.type
        /\ documented'.tags = documented.tags /\ documented'.sign = "none"
    BY <1>2, <1>8 DEF GrammarTo
  <2>4. BasicAt'
    BY <1>1, <1>2, <2>1, <2>2, <2>3, BasicNumber DEF AtNumber
  <2> QED BY <2>3, <2>4 DEF BasicFollows
<1> QED BY <1>4, <1>5, <1>6, <1>7, <1>8

LEMMA BasicFromSign ==
    ASSUME NEW c \in Char, NEW marking, BasicReads(c, marking), BasicAt,
           documented.at = "sign"
    PROVE  BasicFollows(c)
<1>1. /\ basic.result = "reading" /\ basic.segment_type = "value"
      /\ basic.length > 0 /\ basic.tags \in Nat
  BY DEF BasicAt, BasicSegment, Reading, AtNumber, BasicReads, BasicType, Length
<1>2. /\ basic.text.digit = FALSE /\ basic.dot_found = FALSE
      /\ basic.text.sign = documented.sign
  BY DEF BasicAt, BasicDatagram, BasicLetters, AtNumber, AtFront, NoText
<1>3. /\ c = "digit" => Number(documented.sign, TRUE, FALSE)
      /\ c \notin {"digit", "."} => Refused
  <2>1. BasicType /\ BasicRead(c) /\ basic.length # 0
    BY <1>1 DEF BasicReads
  <2>2. c = "digit" => Number(documented.sign, TRUE, FALSE)
    BY <1>1, <1>2, <2>1, ValueReads DEF ValueTaken
  <2>3. c \notin {"digit", "."} => Refused
    BY <1>1, <1>2, <2>1, ValueReads DEF ValueTaken
  <2> QED BY <2>2, <2>3
<1>4. \/ c = "digit" /\ GrammarTo("whole", c, marking)
      \/ ~(c = "digit") /\ GrammarLeaves(c)
  BY DEF BasicReads, GrammarLeads, GrammarLeaves
<1>5. CASE GrammarLeaves(c)
  <2>1. Refused \/ c = "."
    BY <1>3, <1>4, <1>5 DEF GrammarLeaves, GrammarTo
  <2> QED BY <1>5, <2>1, BasicLenience DEF GrammarLeaves, BasicFollows
<1>6. CASE c = "digit" /\ GrammarTo("whole", c, marking)
  <2>1. Number(documented.sign, TRUE, FALSE)
    BY <1>3, <1>6
  <2>2. mark' = documented'.mark
    BY <1>1, <1>6, <2>1, NumberMark
  <2>3. /\ documented'.at = "whole" /\ documented'.type = documented.type
        /\ documented'.tags = documented.tags /\ documented'.sign = documented.sign
    BY <1>2, <1>6 DEF GrammarTo
  <2>4. BasicAt'
    BY <1>1, <1>2, <2>1, <2>2, <2>3, BasicNumber DEF AtNumber
  <2> QED BY <2>3, <2>4 DEF BasicFollows
<1> QED BY <1>4, <1>5, <1>6

LEMMA BasicFromWhole ==
    ASSUME NEW c \in Char, NEW marking, BasicReads(c, marking), BasicAt,
           documented.at = "whole"
    PROVE  BasicFollows(c)
<1>1. /\ basic.result = "reading" /\ basic.segment_type = "value"
      /\ basic.length > 0 /\ basic.tags \in Nat
  BY DEF BasicAt, BasicSegment, Reading, AtNumber, BasicReads, BasicType, Length
<1>2. /\ basic.text.digit = TRUE /\ basic.dot_found = FALSE
      /\ basic.text.sign = documented.sign
  BY DEF BasicAt, BasicDatagram, BasicLetters, AtNumber, AtFront, NoText
<1>3. /\ c = "digit" => Number(documented.sign, TRUE, FALSE)
      /\ c = "." => Number(documented.sign, TRUE, TRUE)
      /\ c = "|" => ValueTaken \/ (Refused /\ basic_errno')
      /\ c \notin {"digit", ".", "|"} => Refused
  <2>1. BasicType /\ BasicRead(c) /\ basic.length # 0
    BY <1>1 DEF BasicReads
  <2>2. c = "digit" => Number(documented.sign, TRUE, FALSE)
    BY <1>1, <1>2, <2>1, ValueReads DEF ValueTaken
  <2>3. c = "." => Number(documented.sign, TRUE, TRUE)
    BY <1>1, <1>2, <2>1, ValueReads DEF ValueTaken
  <2>4. c = "|" => ValueTaken \/ (Refused /\ basic_errno')
    BY <1>1, <1>2, <2>1, ValueReads DEF ValueTaken
  <2>5. c \notin {"digit", ".", "|"} => Refused
    BY <1>1, <1>2, <2>1, ValueReads DEF ValueTaken
  <2> QED BY <2>2, <2>3, <2>4, <2>5
<1>4. \/ c = "digit" /\ GrammarTo("whole", c, marking)
      \/ c = "." /\ GrammarTo("point", c, marking)
      \/ c = "|" /\ GrammarTo("value", c, marking)
      \/ ~(c = "digit" \/ c = "." \/ c = "|") /\ GrammarLeaves(c)
  BY DEF BasicReads, GrammarLeads, GrammarLeaves
<1>5. CASE GrammarLeaves(c)
  <2>1. Refused
    BY <1>3, <1>4, <1>5 DEF GrammarLeaves, GrammarTo
  <2> QED BY <1>5, <2>1, BasicLenience DEF GrammarLeaves, BasicFollows
<1>6. CASE c = "digit" /\ GrammarTo("whole", c, marking)
  <2>1. Number(documented.sign, TRUE, FALSE)
    BY <1>3, <1>6
  <2>2. mark' = documented'.mark
    BY <1>1, <1>6, <2>1, NumberMark
  <2>3. /\ documented'.at = "whole" /\ documented'.type = documented.type
        /\ documented'.tags = documented.tags /\ documented'.sign = documented.sign
    BY <1>2, <1>6 DEF GrammarTo
  <2>4. BasicAt'
    BY <1>1, <1>2, <2>1, <2>2, <2>3, BasicNumber DEF AtNumber
  <2> QED BY <2>3, <2>4 DEF BasicFollows
<1>7. CASE c = "." /\ GrammarTo("point", c, marking)
  <2>1. Number(documented.sign, TRUE, TRUE)
    BY <1>3, <1>7
  <2>2. mark' = documented'.mark
    BY <1>1, <1>7, <2>1, NumberMark
  <2>3. /\ documented'.at = "point" /\ documented'.type = documented.type
        /\ documented'.tags = documented.tags /\ documented'.sign = documented.sign
    BY <1>2, <1>7 DEF GrammarTo
  <2>4. BasicAt'
    BY <1>1, <1>2, <2>1, <2>2, <2>3, BasicNumber DEF AtNumber
  <2> QED BY <2>3, <2>4 DEF BasicFollows
<1>8. CASE c = "|" /\ GrammarTo("value", c, marking)
  <2>1. documented'.at = "value"
    BY <1>8 DEF GrammarTo
  <2>2. CASE Refused /\ basic_errno'
    BY <2>1, <2>2 DEF BasicFollows
  <2>3. CASE ValueTaken
    BY <1>1, <1>2, <1>8, <2>1, <2>3, BasicValueEnds DEF AtNumber, BasicFollows
  <2> QED BY <1>3, <1>8, <2>2, <2>3
<1> QED BY <1>4, <1>5, <1>6, <1>7, <1>8

LEMMA BasicFromPoint ==
    ASSUME NEW c \in Char, NEW marking, BasicReads(c, marking), BasicAt,
           documented.at = "point"
    PROVE  BasicFollows(c)
<1>1. /\ basic.result = "reading" /\ basic.segment_type = "value"
      /\ basic.length > 0 /\ basic.tags \in Nat
  BY DEF BasicAt, BasicSegment, Reading, AtNumber, BasicReads, BasicType, Length
<1>2. /\ basic.text.digit = TRUE /\ basic.dot_found = TRUE
      /\ basic.text.sign = documented.sign
  BY DEF BasicAt, BasicDatagram, BasicLetters, AtNumber, AtFront, NoText
<1>3. /\ c = "digit" => Number(documented.sign, TRUE, TRUE)
      /\ c \notin {"digit", "|"} => Refused
  <2>1. BasicType /\ BasicRead(c) /\ basic.length # 0
    BY <1>1 DEF BasicReads
  <2>2. c = "digit" => Number(documented.sign, TRUE, TRUE)
    BY <1>1, <1>2, <2>1, ValueReads DEF ValueTaken
  <2>3. c \notin {"digit", "|"} => Refused
    BY <1>1, <1>2, <2>1, ValueReads DEF ValueTaken
  <2> QED BY <2>2, <2>3
<1>4. \/ c = "digit" /\ GrammarTo("fraction", c, marking)
      \/ ~(c = "digit") /\ GrammarLeaves(c)
  BY DEF BasicReads, GrammarLeads, GrammarLeaves
<1>5. CASE GrammarLeaves(c)
  <2>1. Refused \/ c = "|"
    BY <1>3, <1>4, <1>5 DEF GrammarLeaves, GrammarTo
  <2> QED BY <1>5, <2>1, BasicLenience DEF GrammarLeaves, BasicFollows
<1>6. CASE c = "digit" /\ GrammarTo("fraction", c, marking)
  <2>1. Number(documented.sign, TRUE, TRUE)
    BY <1>3, <1>6
  <2>2. mark' = documented'.mark
    BY <1>1, <1>6, <2>1, NumberMark
  <2>3. /\ documented'.at = "fraction" /\ documented'.type = documented.type
        /\ documented'.tags = documented.tags /\ documented'.sign = documented.sign
    BY <1>2, <1>6 DEF GrammarTo
  <2>4. BasicAt'
    BY <1>1, <1>2, <2>1, <2>2, <2>3, BasicNumber DEF AtNumber
  <2> QED BY <2>3, <2>4 DEF BasicFollows
<1> QED BY <1>4, <1>5, <1>6

LEMMA BasicFromFraction ==
    ASSUME NEW c \in Char, NEW marking, BasicReads(c, marking), BasicAt,
           documented.at = "fraction"
    PROVE  BasicFollows(c)
<1>1. /\ basic.result = "reading" /\ basic.segment_type = "value"
      /\ basic.length > 0 /\ basic.tags \in Nat
  BY DEF BasicAt, BasicSegment, Reading, AtNumber, BasicReads, BasicType, Length
<1>2. /\ basic.text.digit = TRUE /\ basic.dot_found = TRUE
      /\ basic.text.sign = documented.sign
  BY DEF BasicAt, BasicDatagram, BasicLetters, AtNumber, AtFront, NoText
<1>3. /\ c = "digit" => Number(documented.sign, TRUE, TRUE)
      /\ c = "|" => ValueTaken \/ (Refused /\ basic_errno')
      /\ c \notin {"digit", "|"} => Refused
  <2>1. BasicType /\ BasicRead(c) /\ basic.length # 0
    BY <1>1 DEF BasicReads
  <2>2. c = "digit" => Number(documented.sign, TRUE, TRUE)
    BY <1>1, <1>2, <2>1, ValueReads DEF ValueTaken
  <2>3. c = "|" => ValueTaken \/ (Refused /\ basic_errno')
    BY <1>1, <1>2, <2>1, ValueReads DEF ValueTaken
  <2>4. c \notin {"digit", "|"} => Refused
    BY <1>1, <1>2, <2>1, ValueReads DEF ValueTaken
  <2> QED BY <2>2, <2>3, <2>4
<1>4. \/ c = "digit" /\ GrammarTo("fraction", c, marking)
      \/ c = "|" /\ GrammarTo("value", c, marking)
      \/ ~(c = "digit" \/ c = "|") /\ GrammarLeaves(c)
  BY DEF BasicReads, GrammarLeads, GrammarLeaves
<1>5. CASE GrammarLeaves(c)
  <2>1. Refused
    BY <1>3, <1>4, <1>5 DEF GrammarLeaves, GrammarTo
  <2> QED BY <1>5, <2>1, BasicLenience DEF GrammarLeaves, BasicFollows
<1>6. CASE c = "digit" /\ GrammarTo("fraction", c, marking)
  <2>1. Number(documented.sign, TRUE, TRUE)
    BY <1>3, <1>6
  <2>2. mark' = documented'.mark
    BY <1>1, <1>6, <2>1, NumberMark
  <2>3. /\ documented'.at = "fraction" /\ documented'.type = documented.type
        /\ documented'.tags = documented.tags /\ documented'.sign = documented.sign
    BY <1>2, <1>6 DEF GrammarTo
  <2>4. BasicAt'
    BY <1>1, <1>2, <2>1, <2>2, <2>3, BasicNumber DEF AtNumber
  <2> QED BY <2>3, <2>4 DEF BasicFollows
<1>7. CASE c = "|" /\ GrammarTo("value", c, marking)
  <2>1. documented'.at = "value"
    BY <1>7 DEF GrammarTo
  <2>2. CASE Refused /\ basic_errno'
    BY <2>1, <2>2 DEF BasicFollows
  <2>3. CASE ValueTaken
    BY <1>1, <1>2, <1>7, <2>1, <2>3, BasicValueEnds DEF AtNumber, BasicFollows
  <2> QED BY <1>3, <1>7, <2>2, <2>3
<1> QED BY <1>4, <1>5, <1>6, <1>7

LEMMA BasicFromValue ==
    ASSUME NEW c \in Char, NEW marking, BasicReads(c, marking), BasicAt,
           documented.at = "value"
    PROVE  BasicFollows(c)
<1>1. /\ basic.result = "reading" /\ basic.segment_type = "type" /\ basic.length = 0
      /\ ~basic.past_type /\ basic.explicit_sign = documented.sign
      /\ basic.tags = documented.tags /\ mark = documented.mark /\ basic.tags \in Nat
  BY DEF BasicAt, BasicSegment, BasicDatagram, Reading, AtBack, AtFront, AtNumber,
         BasicReads, BasicType, Length
<1> DEFINE Typed == /\ Moves("type", TRUE) /\ Counts(0) /\ basic'.length = 1
                    /\ basic'.type = TypeOf(c) /\ basic'.past_type = basic.past_type
                    /\ basic'.explicit_sign = basic.explicit_sign
<1>2. /\ c \in {"m", "c", "g"} => Typed
      /\ c \notin {"m", "c", "g", "|"} => Refused
  <2>1. BasicType /\ BasicRead(c) /\ basic.length # 1 /\ ~(basic.length > 0)
    BY <1>1 DEF BasicReads
  <2> QED BY <1>1, <2>1, TypeReads
<1>3. \/ c \in {"c", "g"} /\ GrammarTo("type", c, marking)
      \/ c = "m" /\ GrammarTo("m", c, marking)
      \/ c \notin {"m", "c", "g"} /\ GrammarLeaves(c)
  BY DEF BasicReads, GrammarLeads, GrammarLeaves
<1>4. CASE c \notin {"m", "c", "g"} /\ GrammarLeaves(c)
  BY <1>2, <1>4, BasicLenience DEF GrammarLeaves, BasicFollows
<1>5. ASSUME c \in {"m", "c", "g"}, NEW to \in {"m", "type"}, GrammarTo(to, c, marking),
             to = "m" <=> c = "m"
      PROVE  BasicFollows(c)
  <2>1. Typed
    BY <1>2, <1>5
  <2>2. /\ documented'.at = to /\ documented'.type = TypeOf(c)
        /\ documented'.tags = documented.tags /\ documented'.sign = documented.sign
    BY <1>5 DEF GrammarTo
  <2>3. mark' = documented'.mark
    BY <1>1, <1>5, <2>1, BasicMark DEF Moves
  <2>4. /\ ~AtFront' /\ ~AtNumber' /\ ~AtBack'
        /\ documented'.at \in {"m", "type"}
    BY <2>2 DEF AtFront, AtNumber, AtBack
  <2>5. BasicSegment'
    BY <1>1, <2>1, <2>4 DEF BasicSegment, Reading, Moves
  <2>6. BasicDatagram'
    BY <1>1, <2>1, <2>2, <2>3, <2>4 DEF BasicDatagram, Counts
  <2>7. BasicLetters'
    <3>1. TypeOf(c) = "duration" <=> to = "m"
      BY <1>5 DEF TypeOf
    <3> QED BY <2>1, <2>2, <2>4, <3>1 DEF BasicLetters
  <2> QED BY <2>2, <2>5, <2>6, <2>7 DEF BasicAt, BasicFollows
<1> QED BY <1>3, <1>4, <1>5

LEMMA BasicFromM ==
    ASSUME NEW c \in Char, NEW marking, BasicReads(c, marking), BasicAt,
           documented.at = "m"
    PROVE  BasicFollows(c)
<1>1. /\ basic.result = "reading" /\ basic.segment_type = "type" /\ basic.length = 1
      /\ ~basic.past_type /\ basic.explicit_sign = documented.sign
      /\ basic.tags = documented.tags /\ mark = documented.mark
      /\ basic.type = "duration" /\ documented.type = "duration"
  BY DEF BasicAt, BasicSegment, BasicDatagram, BasicLetters, Reading, AtBack, AtFront, AtNumber
<1>2. /\ c = "s" => Stays /\ basic'.length = 2
      /\ c \notin {"s", "end", "|"} => Refused
  BY <1>1, TypeReads DEF BasicReads
<1>3. \/ c = "s" /\ GrammarTo("type", c, marking)
      \/ c # "s" /\ GrammarLeaves(c)
  BY DEF BasicReads, GrammarLeads, GrammarLeaves
<1>4. CASE c # "s" /\ GrammarLeaves(c)
  BY <1>2, <1>4, BasicLenience DEF GrammarLeaves, BasicFollows
<1>5. CASE c = "s" /\ GrammarTo("type", c, marking)
  <2>1. Stays /\ basic'.length = 2
    BY <1>2, <1>5
  <2>2. GrammarPast("type", 0)
    BY <1>1, <1>5, GrammarCounts DEF BasicReads
  <2>3. mark' = documented'.mark
    BY <1>1, <1>5, <2>1, BasicMark DEF Stays, Moves
  <2>4. /\ ~AtFront' /\ ~AtNumber' /\ ~AtBack' /\ documented'.at = "type"
    BY <2>2 DEF AtFront, AtNumber, AtBack, GrammarPast
  <2>5. BasicSegment'
    BY <1>1, <2>1, <2>4 DEF BasicSegment, Reading, Stays, Moves, Same
  <2>6. BasicDatagram'
    BY <1>1, <2>1, <2>2, <2>3, <2>4 DEF BasicDatagram, GrammarPast, Stays, Same, Counts
  <2>7. BasicLetters'
    BY <2>1, <2>4 DEF BasicLetters
  <2> QED BY <2>4, <2>5, <2>6, <2>7 DEF BasicAt, BasicFollows
<1> QED BY <1>3, <1>4, <1>5

LEMMA BasicFromType ==
    ASSUME NEW c \in Char, NEW marking, BasicReads(c, marking), BasicAt,
           documented.at = "type"
    PROVE  BasicFollows(c)
<1>1. /\ basic.result = "reading" /\ basic.segment_type = "type"
      /\ basic.length > 0 /\ ~basic.past_type
      /\ basic.tags = documented.tags /\ mark = documented.mark
      /\ ~(basic.length = 1 /\ c = "s" /\ basic.type = "duration")
  BY DEF BasicAt, BasicSegment, BasicDatagram, BasicLetters, Reading, AtBack
<1>2. /\ c = "end" => basic'.result = "accepted" /\ Same /\ Counts(0)
      /\ c = "|" => Turns("divider")
      /\ c \notin {"end", "|"} => Refused
  <2>1. BasicType /\ BasicRead(c) /\ basic.length # 0
    BY <1>1 DEF BasicReads
  <2> QED BY <1>1, <2>1, TypeReads
<1>3. \/ c = "end" /\ GrammarTo("line", c, marking)
      \/ c = "|" /\ GrammarTo("bar", c, marking)
      \/ GrammarLeaves(c)
  BY DEF BasicReads, GrammarLeads, GrammarLeaves
<1>4. CASE GrammarLeaves(c)
  BY <1>2, <1>4, BasicLenience DEF GrammarLeaves, BasicFollows
<1>5. CASE c = "end" /\ GrammarTo("line", c, marking)
  <2>1. basic'.result = "accepted" /\ Same /\ Counts(0)
    BY <1>2, <1>5
  <2>2. mark' = documented'.mark
    BY <1>1, <1>5, <2>1, BasicMark
  <2>3. GrammarPast("line", 0)
    BY <1>5, GrammarCounts DEF BasicReads
  <2>4. BasicSegment'
    BY <1>1, <2>1, <2>3 DEF GrammarPast, BasicSegment, Same, Reading, AtBack, AtNumber
  <2>5. BasicAt'
    BY <1>1, <2>1, <2>2, <2>3, <2>4, BasicArrives DEF GrammarPast, AtFront, AtNumber
  <2> QED BY <2>3, <2>5 DEF BasicFollows, GrammarPast
<1>6. CASE c = "|" /\ GrammarTo("bar", c, marking)
  <2>1. Turns("divider")
    BY <1>2, <1>6
  <2>2. mark' = documented'.mark
    BY <1>1, <1>6, <2>1, BasicMark DEF Turns, Moves
  <2>3. GrammarPast("bar", 0)
    BY <1>6, GrammarCounts DEF BasicReads
  <2>4. BasicSegment'
    BY <1>1, <2>1, <2>3
       DEF GrammarPast, BasicSegment, Turns, Moves, Same, Reading, AtBack, AtNumber
  <2>5. BasicAt'
    BY <1>1, <2>1, <2>2, <2>3, <2>4, BasicArrives DEF Turns, GrammarPast, AtFront, AtNumber
  <2> QED BY <2>3, <2>5 DEF BasicFollows, GrammarPast
<1> QED BY <1>3, <1>4, <1>5, <1>6

LEMMA BasicFromBar ==
    ASSUME NEW c \in Char, NEW marking, BasicReads(c, marking), BasicAt,
           documented.at = "bar"
    PROVE  BasicFollows(c)
<1>1. /\ basic.result = "reading" /\ basic.segment_type = "divider"
      /\ basic.explicit_sign = documented.sign /\ basic.type = documented.type
      /\ basic.tags = documented.tags /\ mark = documented.mark
  BY DEF BasicAt, BasicSegment, BasicDatagram, Reading, AtFront, AtNumber
<1>2. /\ c = "#" => /\ Moves("tag_key", FALSE) /\ Counts(0) /\ basic'.past_type
                    /\ basic'.type = basic.type /\ basic'.explicit_sign = basic.explicit_sign
      /\ c \notin {"#", "|"} => Refused
  BY <1>1, DividerReads DEF BasicReads
<1>3. \/ c = "#" /\ GrammarTo("end_no_key", c, marking)
      \/ c # "#" /\ GrammarLeaves(c)
  BY DEF BasicReads, GrammarLeads, GrammarLeaves
<1>4. CASE c # "#" /\ GrammarLeaves(c)
  BY <1>2, <1>4, BasicLenience DEF GrammarLeaves, BasicFollows
<1>5. CASE c = "#" /\ GrammarTo("end_no_key", c, marking)
  <2>1. /\ Moves("tag_key", FALSE) /\ Counts(0) /\ basic'.past_type
        /\ basic'.type = basic.type /\ basic'.explicit_sign = basic.explicit_sign
    BY <1>2, <1>5
  <2>2. GrammarPast("end_no_key", 0)
    BY <1>5, GrammarCounts DEF BasicReads
  <2>3. mark' = documented'.mark
    BY <1>1, <1>5, <2>1, BasicMark DEF Moves
  <2>4. /\ ~AtFront' /\ ~AtNumber' /\ AtBack' /\ documented'.at = "end_no_key"
    BY <2>2 DEF AtFront, AtNumber, AtBack, GrammarPast
  <2>5. BasicSegment'
    BY <1>1, <2>1, <2>4 DEF BasicSegment, Reading, Moves
  <2>6. BasicDatagram'
    BY <1>1, <2>1, <2>2, <2>3, <2>4 DEF BasicDatagram, GrammarPast, Counts
  <2>7. BasicLetters'
    BY <2>4 DEF BasicLetters
  <2> QED BY <2>4, <2>5, <2>6, <2>7 DEF BasicAt, BasicFollows
<1> QED BY <1>3, <1>4, <1>5

\* The documented part of a line, character by character.
LEMMA BasicFollowsGrammar ==
    ASSUME NEW c \in Char, NEW marking, BasicReads(c, marking), BasicAt,
           documented.at \notin {"line", "refused"}
    PROVE  BasicFollows(c)
BY BasicFromStart, BasicFromName, BasicFromNoKey, BasicFromKey, BasicFromNoText, BasicFromText,
   BasicFromNumber, BasicFromSign, BasicFromWhole, BasicFromPoint, BasicFromFraction,
   BasicFromValue, BasicFromM, BasicFromType, BasicFromBar, BasicFromEndNoKey,
   BasicFromEndKey, BasicFromEndNoText, BasicFromEndText
   DEF BasicReads, GrammarType, GrammarPlace

-----------------------------------------------------------------------------
(* The Ragel machine beside the grammar *)

RagelType ==
    /\ ragel = [result |-> ragel.result, places |-> ragel.places,
                explicit_sign |-> ragel.explicit_sign, type |-> ragel.type,
                tags |-> ragel.tags, whole |-> ragel.whole, mark |-> ragel.mark]
    /\ ragel_errno \in BOOLEAN

LEMMA RagelTypeKept ==
    ASSUME RagelType, NEW c, NEW marking, RagelRead(c, marking)
    PROVE  RagelType'
<1>1. ASSUME Fail PROVE RagelType' \/ ragel_errno' \notin BOOLEAN
  BY <1>1 DEF Fail, RagelStart, RagelType
<1>2. ASSUME NEW result, NEW places, NEW counted, End(result, places, counted)
      PROVE  RagelType' \/ ragel_errno' \notin BOOLEAN
  BY <1>2 DEF End, RagelType
<1>3. ASSUME Advance(c, marking)
      PROVE  RagelType' \/ ragel_errno' \notin BOOLEAN
  BY <1>3 DEF Advance, RagelType
<1>4. CASE ragel.result # "reading" /\ UNCHANGED <<ragel, ragel_errno>>
  BY <1>4 DEF RagelType
<1>5. CASE Stuck(c) /\ UNCHANGED ragel_errno
  BY <1>1, <1>2, <1>5 DEF Stuck, RagelType
<1>6. CASE AtEnd(Reached(c, marking)) /\ UNCHANGED ragel_errno
  BY <1>1, <1>2, <1>6 DEF AtEnd, RagelType
<1>7. CASE ValueParsed(c, marking)
  <2>1. ragel_errno' \in BOOLEAN
    BY <1>7 DEF ValueParsed
  <2> QED BY <1>1, <1>7, <2>1 DEF ValueParsed, RagelType
<1>8. CASE Advance(c, marking) /\ UNCHANGED ragel_errno
  BY <1>3, <1>8 DEF RagelType
<1> QED BY <1>4, <1>5, <1>6, <1>7, <1>8 DEF RagelRead

RagelRefused == ragel'.result = "refused"

LEMMA ReachedFrom ==
    ASSUME NEW c, NEW marking, NEW p
    PROVE  p \in Reached(c, marking) <=>
             \E q \in ragel.places : \E to \in Leads(q.at, q.n, c) :
               p = Place(to[1], to[2], IF marking THEN FieldAt(to[1]) ELSE q.mark)
BY DEF Reached

LEMMA NothingReached ==
    ASSUME NEW c, NEW marking, \A q \in ragel.places : Leads(q.at, q.n, c) = {}
    PROVE  Reached(c, marking) = {}
<1>1. ASSUME NEW p \in Reached(c, marking) PROVE FALSE
  BY <1>1, ReachedFrom
<1> QED BY <1>1

\* No number ends where nothing is reached.
LEMMA ValueLeads ==
    ASSUME NEW c, NEW marking, ValueEnds(c)
    PROVE  Reached(c, marking) # {}
<1>1. PICK q \in ragel.places : q.at \in {"whole", "fraction"}
  BY DEF ValueEnds, From
<1>2. <<"value", 0>> \in Leads(q.at, q.n, c)
  <2>1. c = "|"
    BY DEF ValueEnds
  <2>2. CASE q.at = "whole"
    BY <2>1, <2>2 DEF Leads, Final
  <2>3. CASE q.at = "fraction"
    BY <2>1, <2>3 DEF Leads, Final
  <2> QED BY <1>1, <2>2, <2>3
<1> DEFINE p == Place("value", 0, IF marking THEN FieldAt("value") ELSE q.mark)
<1>3. p \in Reached(c, marking)
  <2>1. <<"value", 0>>[1] = "value" /\ <<"value", 0>>[2] = 0
    OBVIOUS
  <2> HIDE DEF p
  <2>2. p = Place(<<"value", 0>>[1], <<"value", 0>>[2], IF marking THEN FieldAt(<<"value", 0>>[1]) ELSE q.mark)
    BY <2>1 DEF p
  <2> QED BY <1>1, <1>2, <2>2, ReachedFrom
<1> QED BY <1>3

LEMMA RagelStops ==
    ASSUME NEW c, NEW marking, RagelRead(c, marking), ragel.result = "reading",
           Reached(c, marking) = {}, Finals(ragel.places) = {}
    PROVE  RagelRefused /\ UNCHANGED ragel_errno
<1>1. Stuck(c) /\ UNCHANGED ragel_errno
  BY ValueLeads DEF RagelRead
<1> QED BY <1>1 DEF Stuck, Fail, RagelStart, RagelRefused

\* The machine reads on: what becomes of the datagram, from the places it was in.
LEMMA RagelAdvances ==
    ASSUME RagelType, NEW c, NEW marking, RagelRead(c, marking), ragel.result = "reading",
           Reached(c, marking) # {}, c # "end", ~ValueEnds(c)
    PROVE  /\ UNCHANGED ragel_errno
           /\ ragel'.result = "reading" /\ ragel'.places = Reached(c, marking)
           /\ ragel'.type = IF c \in {"c", "g", "m"} /\ From("value") THEN TypeOf(c) ELSE ragel.type
           /\ ragel'.tags = IF TagParsed(c) THEN ragel.tags + 1 ELSE ragel.tags
           /\ c \in {"+", "-"} /\ From("tags") =>
                ragel'.explicit_sign = IF c = "+" THEN "plus" ELSE "minus"
           /\ ~From("tags") => ragel'.explicit_sign = ragel.explicit_sign
           /\ c \notin {"+", "-"} /\ ragel.explicit_sign = "none" => ragel'.explicit_sign = "none"
<1>1. Advance(c, marking) /\ UNCHANGED ragel_errno
  BY DEF RagelRead
<1>2. /\ ragel'.result = "reading" /\ ragel'.places = Reached(c, marking)
      /\ ragel'.type = IF c \in {"c", "g", "m"} /\ From("value") THEN TypeOf(c) ELSE ragel.type
      /\ ragel'.tags = IF TagParsed(c) THEN ragel.tags + 1 ELSE ragel.tags
  BY <1>1 DEF Advance, RagelType
<1>3. ragel'.explicit_sign =
        IF c \in {"+", "-"} /\ From("tags") THEN (IF c = "+" THEN "plus" ELSE "minus")
        ELSE IF (\E p \in Reached(c, marking) : p.at = "whole") /\ From("tags") THEN "none"
        ELSE ragel.explicit_sign
  BY <1>1 DEF Advance, RagelType
<1> QED BY <1>1, <1>2, <1>3

LEMMA OnlyReached ==
    ASSUME NEW at, NEW n, NEW field, ragel.places = {Place(at, n, field)},
           NEW c, NEW marking
    PROVE  /\ Leads(at, n, c) = {} => Reached(c, marking) = {}
           /\ \A t, k : Leads(at, n, c) = {<<t, k>>} =>
                Reached(c, marking) = {Place(t, k, IF marking THEN FieldAt(t) ELSE field)}
<1> DEFINE q == Place(at, n, field)
<1>1. q.at = at /\ q.n = n /\ q.mark = field
  BY DEF Place
<1> HIDE DEF q
<1>2. ragel.places = {q}
  BY DEF q
<1>3. ASSUME Leads(at, n, c) = {} PROVE Reached(c, marking) = {}
  BY <1>1, <1>2, <1>3, NothingReached
<1>4. ASSUME NEW t, NEW k, Leads(at, n, c) = {<<t, k>>}
      PROVE  Reached(c, marking) = {Place(t, k, IF marking THEN FieldAt(t) ELSE field)}
  <2>1. ASSUME NEW p
        PROVE  p \in Reached(c, marking) <=> p = Place(t, k, IF marking THEN FieldAt(t) ELSE field)
    <3>1. <<t, k>>[1] = t /\ <<t, k>>[2] = k
      OBVIOUS
    <3>2. PICK to : to = <<t, k>>
      OBVIOUS
    <3>3. to[1] = t /\ to[2] = k /\ Leads(q.at, q.n, c) = {to}
      BY <1>1, <1>4, <3>1, <3>2
    <3>4. p \in Reached(c, marking) <=>
            p = Place(to[1], to[2], IF marking THEN FieldAt(to[1]) ELSE q.mark)
      BY <1>2, <3>3, ReachedFrom
    <3> QED BY <1>1, <3>3, <3>4
  <2> QED BY <2>1
<1> QED BY <1>3, <1>4

LEMMA OnlyFrom ==
    ASSUME NEW at, NEW n, NEW field, ragel.places = {Place(at, n, field)}
    PROVE  /\ \A other : From(other) <=> at = other
           /\ at \notin Final => Finals(ragel.places) = {}
BY DEF From, Place, Finals

\* The places of the grammar that only one place of the machine corresponds to.
OnePlace == {"start", "name", "no_text", "text", "sign", "value", "m", "type", "bar",
             "end_key", "end_no_text", "end_text"}

RagelIn(at, n) == ragel.places = {Place(at, n, documented.mark)}

RagelOn(at) == RagelIn(at, 0)

OneLead(at, c, to, n) == Leads(at, 0, c) = {<<to, n>>}

\* After a tag the machine cannot tell a number from a key that begins with a digit.
InNumber(place) ==
    /\ place \in ragel.places
    /\ \A p \in ragel.places : p = place \/ p.at = "key"

RagelPlaces ==
    /\ documented.at \in OnePlace => RagelOn(documented.at)
    /\ documented.at \in {"no_key", "number"} => RagelOn("tags")
    /\ documented.at = "key" =>
         /\ Place("key", 0, documented.mark) \in ragel.places
         /\ \A p \in ragel.places : \/ p = Place("key", 0, documented.mark)
                                    \/ p.at \in {"whole", "point", "fraction"}
    /\ documented.at = "whole" => InNumber(Place("whole", documented.run, documented.mark))
    /\ documented.at = "point" => InNumber(Place("point", 0, documented.mark))
    /\ documented.at = "fraction" => InNumber(Place("fraction", documented.run, documented.mark))
    /\ documented.at = "end_no_key" => RagelOn("terminated") \/ RagelOn("tags_end")
    /\ documented.at = "line" => ragel.mark = documented.mark

RagelDatagram ==
    /\ ragel.result = IF documented.at = "line" THEN "accepted" ELSE "reading"
    /\ ragel.tags = documented.tags /\ ragel.explicit_sign = documented.sign
    /\ ragel.type = documented.type
    /\ AtFront => documented.sign = "none"

RagelDigits ==
    /\ ~documented.long /\ documented.run <= MaxDigits
    /\ documented.at \notin {"whole", "fraction"} => documented.run = 0

\* Where the machine is when the line so far is documented, or the number was too long.
RagelAt == RagelPlaces /\ RagelDatagram /\ RagelDigits

RagelLong ==
    /\ documented.long /\ ragel.result = "reading"
    /\ documented.at \in {"whole", "point", "fraction"}
    /\ \A p \in ragel.places : p.at = "key"

RagelFollows(c) ==
    IF documented'.at = "refused" THEN RagelRefused \/ Lenient("ragel", documented.at, c)
    ELSE \/ RagelAt' \/ RagelLong'
         \/ RagelRefused /\ (ragel_errno' \/ documented'.long)

RagelReads(c, marking) ==
    /\ RagelType /\ GrammarType /\ RagelRead(c, marking)
    /\ marking \in BOOLEAN /\ (marking => c # "end")
    /\ \/ GrammarLeaves(c)
       \/ \E to \in GrammarLeads(documented.at, c) : GrammarTo(to, c, marking)

LEMMA SameField ==
    ASSUME NEW rto, NEW to, ragel.tags = documented.tags,
           \/ rto = to
           \/ rto = "tags" /\ to \in {"no_key", "number"}
           \/ rto \in Final /\ to = "end_no_key"
    PROVE  FieldAt(rto) = GrammarField(to)
<1>1. CASE rto = to
  BY <1>1 DEF FieldAt, GrammarField
<1>2. CASE rto = "tags" /\ to \in {"no_key", "number"}
  BY <1>2 DEF FieldAt, GrammarField
<1>3. CASE rto \in Final /\ to = "end_no_key"
  BY <1>3 DEF FieldAt, GrammarField, Final
<1> QED BY <1>1, <1>2, <1>3

\* From one place to one place.
LEMMA RagelGoes ==
    ASSUME NEW c \in Char, NEW marking, RagelReads(c, marking), RagelAt,
           documented.at # "line",
           NEW at, RagelOn(at), at \notin {"whole", "fraction"},
           NEW rto, NEW k, OneLead(at, c, rto, k), c # "end",
           NEW to, GrammarTo(to, c, marking),
           \/ rto = to
           \/ rto = "tags" /\ to \in {"no_key", "number"}
           \/ rto \in Final /\ to = "end_no_key"
    PROVE  /\ UNCHANGED ragel_errno /\ ragel'.result = "reading"
           /\ RagelIn(rto, k)'
           /\ ragel'.type = IF at = "value" /\ c \in {"c", "g", "m"} THEN TypeOf(c) ELSE ragel.type
           /\ ragel'.tags = IF at \in {"text", "end_text"} /\ c \in {",", ":"}
                            THEN ragel.tags + 1 ELSE ragel.tags
           /\ at = "tags" /\ c \in {"+", "-"} =>
                ragel'.explicit_sign = IF c = "+" THEN "plus" ELSE "minus"
           /\ at # "tags" \/ (c \notin {"+", "-"} /\ ragel.explicit_sign = "none") =>
                ragel'.explicit_sign = ragel.explicit_sign
<1>1. ragel.result = "reading" /\ ragel.tags = documented.tags
  BY DEF RagelAt, RagelDatagram
<1>2. Reached(c, marking) = {Place(rto, k, IF marking THEN FieldAt(rto) ELSE documented.mark)}
  BY OnlyReached DEF RagelOn, RagelIn, OneLead
<1>3. \A other : From(other) <=> at = other
  BY OnlyFrom DEF RagelOn, RagelIn
<1>4. Reached(c, marking) # {} /\ ~ValueEnds(c)
  BY <1>2, <1>3 DEF ValueEnds
<1>5. documented'.mark = IF marking THEN FieldAt(rto) ELSE documented.mark
  BY <1>1, SameField DEF GrammarTo
<1>6. TagParsed(c) <=> at \in {"text", "end_text"} /\ c \in {",", ":"}
  BY <1>3 DEF TagParsed
<1>7. RagelRead(c, marking) /\ RagelType
  BY DEF RagelReads
<1> QED BY <1>1, <1>2, <1>3, <1>4, <1>5, <1>6, <1>7, RagelAdvances DEF RagelIn

LEMMA RagelLeaves ==
    ASSUME NEW c \in Char, NEW marking, RagelReads(c, marking), RagelAt,
           documented.at # "line", GrammarLeaves(c),
           Reached(c, marking) = {}, Finals(ragel.places) = {}
    PROVE  RagelFollows(c)
<1>1. ragel.result = "reading" /\ RagelRead(c, marking)
  BY DEF RagelAt, RagelDatagram, RagelReads
<1>2. RagelRefused
  BY <1>1, RagelStops
<1> QED BY <1>2 DEF RagelFollows, GrammarLeaves

LEMMA RagelOnLeaves ==
    ASSUME NEW c \in Char, NEW marking, RagelReads(c, marking), RagelAt,
           documented.at # "line", GrammarLeaves(c),
           NEW at, RagelOn(at), at \notin Final, Leads(at, 0, c) = {}
    PROVE  RagelFollows(c)
BY OnlyReached, OnlyFrom, RagelLeaves DEF RagelOn, RagelIn

LEMMA RagelArrives ==
    ASSUME RagelAt, NEW c, NEW marking, NEW to, GrammarTo(to, c, marking),
           to \notin {"whole", "fraction", "line"}, AtFront' => documented'.sign = "none",
           ragel'.result = "reading", ragel'.tags = documented'.tags,
           ragel'.type = documented'.type, ragel'.explicit_sign = documented'.sign,
           RagelPlaces'
    PROVE  RagelAt'
<1>1. documented'.run = 0 /\ ~documented'.long /\ documented'.at = to
  BY DigitsAssumption DEF GrammarTo, RagelAt, RagelDigits
<1>2. RagelDigits'
  BY <1>1, DigitsAssumption DEF RagelDigits
<1>3. RagelDatagram'
  BY <1>1 DEF RagelDatagram
<1> QED BY <1>2, <1>3 DEF RagelAt

FrontPlace == {"start", "name", "no_key", "key", "no_text", "text", "number"}

\* The places of the machine that correspond to one of the grammar on the way to it.
Passage(rto, to) ==
    \/ rto = to /\ to \in OnePlace \cup {"key"}
    \/ rto = "tags" /\ to \in {"no_key", "number"}
    \/ rto \in Final /\ to = "end_no_key"

\* Whether a character ends a tag, for the machine and for the grammar.
CountsTag(at, c) ==
    at \in {"text", "end_text"} /\ c \in {",", ":"}
      <=> documented.at \in {"text", "end_text"} /\ c \notin Word

\* ... when the character is neither of a number nor of a type.
LEMMA RagelPasses ==
    ASSUME NEW c \in Char, NEW marking, RagelReads(c, marking), RagelAt,
           documented.at \notin {"line", "value"},
           NEW at, RagelOn(at), at \notin {"whole", "fraction", "value"},
           NEW rto, OneLead(at, c, rto, 0), c \notin {"end", "+", "-"},
           NEW to, GrammarTo(to, c, marking),
           Passage(rto, to), CountsTag(at, c), AtFront <=> to \in FrontPlace, at = "tags" => AtFront
    PROVE  RagelFollows(c)
<1>1. /\ ragel.tags = documented.tags /\ ragel.type = documented.type
      /\ ragel.explicit_sign = documented.sign /\ (AtFront => ragel.explicit_sign = "none")
  BY DEF RagelAt, RagelDatagram
<1>2. /\ ragel'.result = "reading" /\ RagelIn(rto, 0)'
      /\ ragel'.type = ragel.type
      /\ ragel'.tags = IF at \in {"text", "end_text"} /\ c \in {",", ":"}
                       THEN ragel.tags + 1 ELSE ragel.tags
      /\ ragel'.explicit_sign = ragel.explicit_sign
  <2>1. \/ rto = to
        \/ rto = "tags" /\ to \in {"no_key", "number"}
        \/ rto \in Final /\ to = "end_no_key"
    BY DEF Passage
  <2>2. at # "tags" \/ (c \notin {"+", "-"} /\ ragel.explicit_sign = "none")
    BY <1>1
  <2>3. documented.at # "line" /\ c # "end" /\ at \notin {"whole", "fraction"} /\ at # "value"
    OBVIOUS
  <2>4. /\ ragel'.result = "reading" /\ RagelIn(rto, 0)'
        /\ ragel'.type = IF at = "value" /\ c \in {"c", "g", "m"} THEN TypeOf(c) ELSE ragel.type
        /\ ragel'.tags = IF at \in {"text", "end_text"} /\ c \in {",", ":"}
                         THEN ragel.tags + 1 ELSE ragel.tags
        /\ at # "tags" \/ (c \notin {"+", "-"} /\ ragel.explicit_sign = "none") =>
                ragel'.explicit_sign = ragel.explicit_sign
    BY <2>1, <2>3, RagelGoes
  <2> QED BY <2>2, <2>3, <2>4
<1>3. /\ documented'.at = to /\ documented'.type = documented.type
      /\ documented'.sign = documented.sign
      /\ documented'.tags = IF documented.at \in {"text", "end_text"} /\ c \notin Word
                            THEN documented.tags + 1 ELSE documented.tags
  BY DEF GrammarTo
<1>4. ragel'.tags = documented'.tags
  BY <1>1, <1>2, <1>3 DEF CountsTag
<1>5. RagelPlaces'
  <2>1. CASE rto = to /\ to \in OnePlace
    BY <1>2, <1>3, <2>1 DEF RagelPlaces, RagelOn, RagelIn, OnePlace
  <2>2. CASE rto = "key" /\ to = "key"
    BY <1>2, <1>3, <2>2 DEF RagelPlaces, RagelOn, RagelIn, OnePlace
  <2>3. CASE rto = "tags" /\ to \in {"no_key", "number"}
    BY <1>2, <1>3, <2>3 DEF RagelPlaces, RagelOn, RagelIn, OnePlace
  <2>4. CASE rto \in Final /\ to = "end_no_key"
    BY <1>2, <1>3, <2>4 DEF RagelPlaces, RagelOn, RagelIn, OnePlace, Final
  <2> QED BY <2>1, <2>2, <2>3, <2>4 DEF Passage
<1>6. AtFront' => documented'.sign = "none"
  <2>1. AtFront' => AtFront
    BY <1>3 DEF AtFront, FrontPlace
  <2> QED BY <1>1, <1>3, <2>1
<1>7. to \notin {"whole", "fraction", "line", "refused"}
  BY DEF OnePlace, Passage
<1>8. RagelAt'
  BY <1>1, <1>2, <1>3, <1>4, <1>5, <1>6, <1>7, RagelArrives
<1> QED BY <1>3, <1>7, <1>8 DEF RagelFollows

LEMMA RagelLenience ==
    /\ \A c \in {"+", "-"} : Lenient("ragel", "no_key", c)
    /\ Lenient("ragel", "key", "|")
    /\ \A c \in Word \ {"digit"} : Lenient("ragel", "number", c)
    /\ \A c \in (Word \ {"digit", "."}) \cup {"="} : Lenient("ragel", "whole", c)
    /\ \A c \in (Word \ {"digit"}) \cup {"="} : /\ Lenient("ragel", "point", c)
                                                 /\ Lenient("ragel", "fraction", c)
    /\ \A c \in {"@", "end", "|"} : Lenient("ragel", "type", c)
    /\ \A c \in Char : c \notin Word => Lenient("ragel", "end_no_key", c)
BY DEF Lenient, Lenience, NonWord

LEMMA RagelFromStart ==
    ASSUME NEW c \in Char, NEW marking, RagelReads(c, marking), RagelAt,
           documented.at = "start"
    PROVE  RagelFollows(c)
<1>1. RagelOn("start")
  BY DEF RagelAt, RagelPlaces, OnePlace
<1>2. \/ c \in Lower /\ GrammarTo("name", c, marking)
      \/ ~(c \in Lower) /\ GrammarLeaves(c)
  BY DEF RagelReads, GrammarLeads, GrammarLeaves, Lower, Word, Letter
<1>3. CASE ~(c \in Lower) /\ GrammarLeaves(c)
  <2>1. Leads("start", 0, c) = {}
    BY <1>3 DEF Leads, Final, Lower, Word, Letter
  <2> QED BY <1>1, <1>3, <2>1, RagelOnLeaves DEF Final
<1>4. CASE c \in Lower /\ GrammarTo("name", c, marking)
  <2>1. OneLead("start", c, "name", 0)
    BY <1>4 DEF OneLead, Leads, Final, Lower, Word, Letter
  <2>2. c \notin {"end", "+", "-"} /\ CountsTag("start", c)
    BY <1>4 DEF CountsTag, Word, Letter, Lower
  <2>3. Passage("name", "name") /\ (AtFront <=> "name" \in FrontPlace)
    BY DEF Passage, AtFront, FrontPlace, OnePlace, Final
  <2> QED BY <1>1, <1>4, <2>1, <2>2, <2>3, RagelPasses
<1> QED BY <1>2, <1>3, <1>4

LEMMA RagelFromName ==
    ASSUME NEW c \in Char, NEW marking, RagelReads(c, marking), RagelAt,
           documented.at = "name"
    PROVE  RagelFollows(c)
<1>1. RagelOn("name")
  BY DEF RagelAt, RagelPlaces, OnePlace
<1>2. \/ c \in Word /\ GrammarTo("name", c, marking)
      \/ c = "," /\ GrammarTo("no_key", c, marking)
      \/ c = ":" /\ GrammarTo("number", c, marking)
      \/ ~(c \in Word \/ c = "," \/ c = ":") /\ GrammarLeaves(c)
  BY DEF RagelReads, GrammarLeads, GrammarLeaves, Lower, Word, Letter
<1>3. CASE ~(c \in Word \/ c = "," \/ c = ":") /\ GrammarLeaves(c)
  <2>1. Leads("name", 0, c) = {}
    BY <1>3 DEF Leads, Final, Lower, Word, Letter
  <2> QED BY <1>1, <1>3, <2>1, RagelOnLeaves DEF Final
<1>4. CASE c \in Word /\ GrammarTo("name", c, marking)
  <2>1. OneLead("name", c, "name", 0)
    BY <1>4 DEF OneLead, Leads, Final, Lower, Word, Letter
  <2>2. c \notin {"end", "+", "-"} /\ CountsTag("name", c)
    BY <1>4 DEF CountsTag, Word, Letter, Lower
  <2>3. Passage("name", "name") /\ (AtFront <=> "name" \in FrontPlace)
    BY DEF Passage, AtFront, FrontPlace, OnePlace, Final
  <2> QED BY <1>1, <1>4, <2>1, <2>2, <2>3, RagelPasses
<1>5. CASE c = "," /\ GrammarTo("no_key", c, marking)
  <2>1. OneLead("name", c, "tags", 0)
    BY <1>5 DEF OneLead, Leads, Final, Lower, Word, Letter
  <2>2. c \notin {"end", "+", "-"} /\ CountsTag("name", c)
    BY <1>5 DEF CountsTag, Word, Letter, Lower
  <2>3. Passage("tags", "no_key") /\ (AtFront <=> "no_key" \in FrontPlace)
    BY DEF Passage, AtFront, FrontPlace, OnePlace, Final
  <2> QED BY <1>1, <1>5, <2>1, <2>2, <2>3, RagelPasses
<1>6. CASE c = ":" /\ GrammarTo("number", c, marking)
  <2>1. OneLead("name", c, "tags", 0)
    BY <1>6 DEF OneLead, Leads, Final, Lower, Word, Letter
  <2>2. c \notin {"end", "+", "-"} /\ CountsTag("name", c)
    BY <1>6 DEF CountsTag, Word, Letter, Lower
  <2>3. Passage("tags", "number") /\ (AtFront <=> "number" \in FrontPlace)
    BY DEF Passage, AtFront, FrontPlace, OnePlace, Final
  <2> QED BY <1>1, <1>6, <2>1, <2>2, <2>3, RagelPasses
<1> QED BY <1>2, <1>3, <1>4, <1>5, <1>6

LEMMA RagelFromNoText ==
    ASSUME NEW c \in Char, NEW marking, RagelReads(c, marking), RagelAt,
           documented.at = "no_text"
    PROVE  RagelFollows(c)
<1>1. RagelOn("no_text")
  BY DEF RagelAt, RagelPlaces, OnePlace
<1>2. \/ c \in Word /\ GrammarTo("text", c, marking)
      \/ ~(c \in Word) /\ GrammarLeaves(c)
  BY DEF RagelReads, GrammarLeads, GrammarLeaves, Lower, Word, Letter
<1>3. CASE ~(c \in Word) /\ GrammarLeaves(c)
  <2>1. Leads("no_text", 0, c) = {}
    BY <1>3 DEF Leads, Final, Lower, Word, Letter
  <2> QED BY <1>1, <1>3, <2>1, RagelOnLeaves DEF Final
<1>4. CASE c \in Word /\ GrammarTo("text", c, marking)
  <2>1. OneLead("no_text", c, "text", 0)
    BY <1>4 DEF OneLead, Leads, Final, Lower, Word, Letter
  <2>2. c \notin {"end", "+", "-"} /\ CountsTag("no_text", c)
    BY <1>4 DEF CountsTag, Word, Letter, Lower
  <2>3. Passage("text", "text") /\ (AtFront <=> "text" \in FrontPlace)
    BY DEF Passage, AtFront, FrontPlace, OnePlace, Final
  <2> QED BY <1>1, <1>4, <2>1, <2>2, <2>3, RagelPasses
<1> QED BY <1>2, <1>3, <1>4

LEMMA RagelFromText ==
    ASSUME NEW c \in Char, NEW marking, RagelReads(c, marking), RagelAt,
           documented.at = "text"
    PROVE  RagelFollows(c)
<1>1. RagelOn("text")
  BY DEF RagelAt, RagelPlaces, OnePlace
<1>2. \/ c \in Word /\ GrammarTo("text", c, marking)
      \/ c = "," /\ GrammarTo("no_key", c, marking)
      \/ c = ":" /\ GrammarTo("number", c, marking)
      \/ ~(c \in Word \/ c = "," \/ c = ":") /\ GrammarLeaves(c)
  BY DEF RagelReads, GrammarLeads, GrammarLeaves, Lower, Word, Letter
<1>3. CASE ~(c \in Word \/ c = "," \/ c = ":") /\ GrammarLeaves(c)
  <2>1. Leads("text", 0, c) = {}
    BY <1>3 DEF Leads, Final, Lower, Word, Letter
  <2> QED BY <1>1, <1>3, <2>1, RagelOnLeaves DEF Final
<1>4. CASE c \in Word /\ GrammarTo("text", c, marking)
  <2>1. OneLead("text", c, "text", 0)
    BY <1>4 DEF OneLead, Leads, Final, Lower, Word, Letter
  <2>2. c \notin {"end", "+", "-"} /\ CountsTag("text", c)
    BY <1>4 DEF CountsTag, Word, Letter, Lower
  <2>3. Passage("text", "text") /\ (AtFront <=> "text" \in FrontPlace)
    BY DEF Passage, AtFront, FrontPlace, OnePlace, Final
  <2> QED BY <1>1, <1>4, <2>1, <2>2, <2>3, RagelPasses
<1>5. CASE c = "," /\ GrammarTo("no_key", c, marking)
  <2>1. OneLead("text", c, "tags", 0)
    BY <1>5 DEF OneLead, Leads, Final, Lower, Word, Letter
  <2>2. c \notin {"end", "+", "-"} /\ CountsTag("text", c)
    BY <1>5 DEF CountsTag, Word, Letter, Lower
  <2>3. Passage("tags", "no_key") /\ (AtFront <=> "no_key" \in FrontPlace)
    BY DEF Passage, AtFront, FrontPlace, OnePlace, Final
  <2> QED BY <1>1, <1>5, <2>1, <2>2, <2>3, RagelPasses
<1>6. CASE c = ":" /\ GrammarTo("number", c, marking)
  <2>1. OneLead("text", c, "tags", 0)
    BY <1>6 DEF OneLead, Leads, Final, Lower, Word, Letter
  <2>2. c \notin {"end", "+", "-"} /\ CountsTag("text", c)
    BY <1>6 DEF CountsTag, Word, Letter, Lower
  <2>3. Passage("tags", "number") /\ (AtFront <=> "number" \in FrontPlace)
    BY DEF Passage, AtFront, FrontPlace, OnePlace, Final
  <2> QED BY <1>1, <1>6, <2>1, <2>2, <2>3, RagelPasses
<1> QED BY <1>2, <1>3, <1>4, <1>5, <1>6

LEMMA RagelFromEndKey ==
    ASSUME NEW c \in Char, NEW marking, RagelReads(c, marking), RagelAt,
           documented.at = "end_key"
    PROVE  RagelFollows(c)
<1>1. RagelOn("end_key")
  BY DEF RagelAt, RagelPlaces, OnePlace
<1>2. \/ c \in Word /\ GrammarTo("end_key", c, marking)
      \/ c = ":" /\ GrammarTo("end_no_text", c, marking)
      \/ ~(c \in Word \/ c = ":") /\ GrammarLeaves(c)
  BY DEF RagelReads, GrammarLeads, GrammarLeaves, Lower, Word, Letter
<1>3. CASE ~(c \in Word \/ c = ":") /\ GrammarLeaves(c)
  <2>1. Leads("end_key", 0, c) = {}
    BY <1>3 DEF Leads, Final, Lower, Word, Letter
  <2> QED BY <1>1, <1>3, <2>1, RagelOnLeaves DEF Final
<1>4. CASE c \in Word /\ GrammarTo("end_key", c, marking)
  <2>1. OneLead("end_key", c, "end_key", 0)
    BY <1>4 DEF OneLead, Leads, Final, Lower, Word, Letter
  <2>2. c \notin {"end", "+", "-"} /\ CountsTag("end_key", c)
    BY <1>4 DEF CountsTag, Word, Letter, Lower
  <2>3. Passage("end_key", "end_key") /\ (AtFront <=> "end_key" \in FrontPlace)
    BY DEF Passage, AtFront, FrontPlace, OnePlace, Final
  <2> QED BY <1>1, <1>4, <2>1, <2>2, <2>3, RagelPasses
<1>5. CASE c = ":" /\ GrammarTo("end_no_text", c, marking)
  <2>1. OneLead("end_key", c, "end_no_text", 0)
    BY <1>5 DEF OneLead, Leads, Final, Lower, Word, Letter
  <2>2. c \notin {"end", "+", "-"} /\ CountsTag("end_key", c)
    BY <1>5 DEF CountsTag, Word, Letter, Lower
  <2>3. Passage("end_no_text", "end_no_text") /\ (AtFront <=> "end_no_text" \in FrontPlace)
    BY DEF Passage, AtFront, FrontPlace, OnePlace, Final
  <2> QED BY <1>1, <1>5, <2>1, <2>2, <2>3, RagelPasses
<1> QED BY <1>2, <1>3, <1>4, <1>5

LEMMA RagelFromEndNoText ==
    ASSUME NEW c \in Char, NEW marking, RagelReads(c, marking), RagelAt,
           documented.at = "end_no_text"
    PROVE  RagelFollows(c)
<1>1. RagelOn("end_no_text")
  BY DEF RagelAt, RagelPlaces, OnePlace
<1>2. \/ c \in Word /\ GrammarTo("end_text", c, marking)
      \/ ~(c \in Word) /\ GrammarLeaves(c)
  BY DEF RagelReads, GrammarLeads, GrammarLeaves, Lower, Word, Letter
<1>3. CASE ~(c \in Word) /\ GrammarLeaves(c)
  <2>1. Leads("end_no_text", 0, c) = {}
    BY <1>3 DEF Leads, Final, Lower, Word, Letter
  <2> QED BY <1>1, <1>3, <2>1, RagelOnLeaves DEF Final
<1>4. CASE c \in Word /\ GrammarTo("end_text", c, marking)
  <2>1. OneLead("end_no_text", c, "end_text", 0)
    BY <1>4 DEF OneLead, Leads, Final, Lower, Word, Letter
  <2>2. c \notin {"end", "+", "-"} /\ CountsTag("end_no_text", c)
    BY <1>4 DEF CountsTag, Word, Letter, Lower
  <2>3. Passage("end_text", "end_text") /\ (AtFront <=> "end_text" \in FrontPlace)
    BY DEF Passage, AtFront, FrontPlace, OnePlace, Final
  <2> QED BY <1>1, <1>4, <2>1, <2>2, <2>3, RagelPasses
<1> QED BY <1>2, <1>3, <1>4

LEMMA RagelFromBar ==
    ASSUME NEW c \in Char, NEW marking, RagelReads(c, marking), RagelAt,
           documented.at = "bar"
    PROVE  RagelFollows(c)
<1>1. RagelOn("bar")
  BY DEF RagelAt, RagelPlaces, OnePlace
<1>2. \/ c = "#" /\ GrammarTo("end_no_key", c, marking)
      \/ ~(c = "#") /\ GrammarLeaves(c)
  BY DEF RagelReads, GrammarLeads, GrammarLeaves, Lower, Word, Letter
<1>3. CASE ~(c = "#") /\ GrammarLeaves(c)
  <2>1. Leads("bar", 0, c) = {}
    BY <1>3 DEF Leads, Final, Lower, Word, Letter
  <2> QED BY <1>1, <1>3, <2>1, RagelOnLeaves DEF Final
<1>4. CASE c = "#" /\ GrammarTo("end_no_key", c, marking)
  <2>1. OneLead("bar", c, "terminated", 0)
    BY <1>4 DEF OneLead, Leads, Final, Lower, Word, Letter
  <2>2. c \notin {"end", "+", "-"} /\ CountsTag("bar", c)
    BY <1>4 DEF CountsTag, Word, Letter, Lower
  <2>3. Passage("terminated", "end_no_key") /\ (AtFront <=> "end_no_key" \in FrontPlace)
    BY DEF Passage, AtFront, FrontPlace, OnePlace, Final
  <2> QED BY <1>1, <1>4, <2>1, <2>2, <2>3, RagelPasses
<1> QED BY <1>2, <1>3, <1>4

LEMMA RagelFromM ==
    ASSUME NEW c \in Char, NEW marking, RagelReads(c, marking), RagelAt,
           documented.at = "m"
    PROVE  RagelFollows(c)
<1>1. RagelOn("m")
  BY DEF RagelAt, RagelPlaces, OnePlace
<1>2. \/ c = "s" /\ GrammarTo("type", c, marking)
      \/ ~(c = "s") /\ GrammarLeaves(c)
  BY DEF RagelReads, GrammarLeads, GrammarLeaves, Lower, Word, Letter
<1>3. CASE ~(c = "s") /\ GrammarLeaves(c)
  <2>1. Leads("m", 0, c) = {}
    BY <1>3 DEF Leads, Final, Lower, Word, Letter
  <2> QED BY <1>1, <1>3, <2>1, RagelOnLeaves DEF Final
<1>4. CASE c = "s" /\ GrammarTo("type", c, marking)
  <2>1. OneLead("m", c, "type", 0)
    BY <1>4 DEF OneLead, Leads, Final, Lower, Word, Letter
  <2>2. c \notin {"end", "+", "-"} /\ CountsTag("m", c)
    BY <1>4 DEF CountsTag, Word, Letter, Lower
  <2>3. Passage("type", "type") /\ (AtFront <=> "type" \in FrontPlace)
    BY DEF Passage, AtFront, FrontPlace, OnePlace, Final
  <2> QED BY <1>1, <1>4, <2>1, <2>2, <2>3, RagelPasses
<1> QED BY <1>2, <1>3, <1>4

\* A digit where a key or a number may begin leads to both.
LEMMA DigitAfterTags ==
    ASSUME NEW marking, RagelReads("digit", marking), RagelAt, AtFront, RagelOn("tags"),
           NEW to, GrammarTo(to, "digit", marking)
    PROVE  /\ ragel'.result = "reading" /\ ragel'.type = ragel.type
           /\ ragel'.tags = ragel.tags /\ ragel'.explicit_sign = "none"
           /\ ragel'.places = {Place("key", 0, IF marking THEN FieldAt("key") ELSE documented.mark),
                               Place("whole", 1, IF marking THEN FieldAt("whole") ELSE documented.mark)}
<1>1. /\ ragel.result = "reading" /\ ragel.explicit_sign = "none"
      /\ RagelRead("digit", marking) /\ RagelType
  BY DEF RagelAt, RagelDatagram, RagelReads, AtFront
<1>2. Leads("tags", 0, "digit") = {<<"key", 0>>, <<"whole", 1>>}
  BY DigitsAssumption DEF Leads, Final, Word, Letter, Lower
<1>3. ragel.places = {Place("tags", 0, documented.mark)}
  BY DEF RagelOn, RagelIn
<1>4. Reached("digit", marking) =
        {Place("key", 0, IF marking THEN FieldAt("key") ELSE documented.mark),
         Place("whole", 1, IF marking THEN FieldAt("whole") ELSE documented.mark)}
  <2> DEFINE q == Place("tags", 0, documented.mark)
  <2>1. q.at = "tags" /\ q.n = 0 /\ q.mark = documented.mark
    BY DEF Place
  <2> HIDE DEF q
  <2>2. PICK k, w : k = <<"key", 0>> /\ w = <<"whole", 1>>
    OBVIOUS
  <2>3. k[1] = "key" /\ k[2] = 0 /\ w[1] = "whole" /\ w[2] = 1
    BY <2>2
  <2>4. Leads(q.at, q.n, "digit") = {k, w} /\ ragel.places = {q}
    BY <1>2, <1>3, <2>1, <2>2 DEF q
  <2>5. ASSUME NEW p
        PROVE  p \in Reached("digit", marking) <=>
                 \/ p = Place(k[1], k[2], IF marking THEN FieldAt(k[1]) ELSE q.mark)
                 \/ p = Place(w[1], w[2], IF marking THEN FieldAt(w[1]) ELSE q.mark)
    BY <2>4, ReachedFrom
  <2> QED BY <2>1, <2>3, <2>5
<1>5. Reached("digit", marking) # {} /\ ~ValueEnds("digit")
  BY <1>4 DEF ValueEnds
<1>6. ~From("value") /\ ~TagParsed("digit")
  BY <1>3, OnlyFrom DEF TagParsed
<1> QED BY <1>1, <1>4, <1>5, <1>6, RagelAdvances

LEMMA RagelFromNoKey ==
    ASSUME NEW c \in Char, NEW marking, RagelReads(c, marking), RagelAt,
           documented.at = "no_key"
    PROVE  RagelFollows(c)
<1>1. RagelOn("tags") /\ AtFront
  BY DEF RagelAt, RagelPlaces, OnePlace, AtFront
<1>2. \/ c \in Word /\ GrammarTo("key", c, marking)
      \/ c \notin Word /\ GrammarLeaves(c)
  BY DEF RagelReads, GrammarLeads, GrammarLeaves
<1>3. CASE c \notin Word /\ GrammarLeaves(c)
  <2>1. CASE c \in {"+", "-"}
    BY <1>3, <2>1, RagelLenience DEF RagelFollows, GrammarLeaves
  <2>2. CASE c \notin {"+", "-"}
    <3>1. Leads("tags", 0, c) = {}
      BY <1>3, <2>2 DEF Leads, Final, Word, Letter, Lower
    <3> QED BY <1>1, <1>3, <3>1, RagelOnLeaves DEF Final
  <2> QED BY <2>1, <2>2
<1>4. CASE c \in Word /\ c # "digit" /\ GrammarTo("key", c, marking)
  <2>1. OneLead("tags", c, "key", 0)
    BY <1>4 DEF OneLead, Leads, Final, Lower, Word, Letter
  <2>2. c \notin {"end", "+", "-"} /\ CountsTag("tags", c)
    BY <1>4 DEF CountsTag, Word, Letter, Lower
  <2>3. Passage("key", "key") /\ (AtFront <=> "key" \in FrontPlace)
    BY DEF Passage, AtFront, FrontPlace, OnePlace, Final
  <2> QED BY <1>1, <1>4, <2>1, <2>2, <2>3, RagelPasses
<1>5. CASE c = "digit" /\ GrammarTo("key", c, marking)
  <2>1. /\ documented'.at = "key" /\ documented'.type = documented.type
        /\ documented'.sign = documented.sign /\ documented'.tags = documented.tags
        /\ documented'.mark = IF marking THEN GrammarField("key") ELSE documented.mark
    BY <1>5 DEF GrammarTo
  <2>2. /\ ragel.tags = documented.tags /\ ragel.type = documented.type /\ documented.sign = "none"
    BY <1>1 DEF RagelAt, RagelDatagram
  <2>3. /\ ragel'.result = "reading" /\ ragel'.type = ragel.type
        /\ ragel'.tags = ragel.tags /\ ragel'.explicit_sign = "none"
        /\ ragel'.places = {Place("key", 0, IF marking THEN FieldAt("key") ELSE documented.mark),
                            Place("whole", 1, IF marking THEN FieldAt("whole") ELSE documented.mark)}
    BY <1>1, <1>5, DigitAfterTags
  <2>4. FieldAt("key") = GrammarField("key")
    BY <2>2, SameField
  <2>5. RagelPlaces'
    <3>1. Place("key", 0, documented'.mark) \in ragel'.places
      BY <2>1, <2>3, <2>4
    <3>2. ASSUME NEW p \in ragel'.places
          PROVE  p = Place("key", 0, documented'.mark) \/ p.at = "whole"
      BY <2>1, <2>3, <2>4, <3>2 DEF Place
    <3> QED BY <2>1, <3>1, <3>2 DEF RagelPlaces, OnePlace
  <2>6. RagelAt'
    BY <1>5, <2>1, <2>2, <2>3, <2>5, RagelArrives
  <2> QED BY <2>1, <2>6 DEF RagelFollows
<1> QED BY <1>2, <1>3, <1>4, <1>5

\* The number of digits in a row.
LEMMA OneDigit ==
    ASSUME NEW c, NEW marking, NEW to \in {"whole", "fraction"}, GrammarTo(to, c, marking),
           documented.run \in Nat, documented.run <= MaxDigits, ~documented.long
    PROVE  /\ documented'.run = documented.run + 1
           /\ documented'.long <=> ~(documented.run + 1 <= MaxDigits)
BY DigitsAssumption DEF GrammarTo, UpTo

LEMMA RagelFromNumber ==
    ASSUME NEW c \in Char, NEW marking, RagelReads(c, marking), RagelAt,
           documented.at = "number"
    PROVE  RagelFollows(c)
<1>1. RagelOn("tags") /\ AtFront
  BY DEF RagelAt, RagelPlaces, OnePlace, AtFront
<1>2. \/ c \in {"+", "-"} /\ GrammarTo("sign", c, marking)
      \/ c = "digit" /\ GrammarTo("whole", c, marking)
      \/ c \notin {"+", "-", "digit"} /\ GrammarLeaves(c)
  BY DEF RagelReads, GrammarLeads, GrammarLeaves
<1>3. CASE c \notin {"+", "-", "digit"} /\ GrammarLeaves(c)
  <2>1. CASE c \in Word
    BY <1>3, <2>1, RagelLenience DEF RagelFollows, GrammarLeaves
  <2>2. CASE c \notin Word
    <3>1. Leads("tags", 0, c) = {}
      BY <1>3, <2>2 DEF Leads, Final, Word, Letter, Lower
    <3> QED BY <1>1, <1>3, <3>1, RagelOnLeaves DEF Final
  <2> QED BY <2>1, <2>2
<1>4. /\ ragel.tags = documented.tags /\ ragel.type = documented.type /\ documented.sign = "none"
      /\ documented.run = 0 /\ ~documented.long
  BY <1>1 DEF RagelAt, RagelDatagram, RagelDigits
<1>5. CASE c \in {"+", "-"} /\ GrammarTo("sign", c, marking)
  <2>1. OneLead("tags", c, "sign", 0)
    BY <1>5 DEF OneLead, Leads, Final, Lower, Word, Letter
  <2>2. c \notin {"end", ",", ":", "c", "g", "m"}
    BY <1>5
  <2>3. /\ documented'.at = "sign" /\ documented'.type = documented.type
        /\ documented'.sign = (IF c = "+" THEN "plus" ELSE "minus")
        /\ documented'.tags = documented.tags
    BY <1>5 DEF GrammarTo
  <2>4. /\ ragel'.result = "reading" /\ RagelIn("sign", 0)'
        /\ ragel'.type = ragel.type /\ ragel'.tags = ragel.tags
        /\ ragel'.explicit_sign = IF c = "+" THEN "plus" ELSE "minus"
    BY <1>1, <1>5, <2>1, <2>2, RagelGoes
  <2>5. RagelPlaces'
    BY <2>3, <2>4 DEF RagelPlaces, RagelOn, OnePlace
  <2>6. ~AtFront'
    BY <2>3 DEF AtFront
  <2>7. RagelAt'
    BY <1>4, <1>5, <2>3, <2>4, <2>5, <2>6, RagelArrives
  <2> QED BY <2>3, <2>7 DEF RagelFollows
<1>6. CASE c = "digit" /\ GrammarTo("whole", c, marking)
  <2>1. /\ documented'.at = "whole" /\ documented'.type = documented.type
        /\ documented'.sign = documented.sign /\ documented'.tags = documented.tags
        /\ documented'.mark = IF marking THEN GrammarField("whole") ELSE documented.mark
    BY <1>6 DEF GrammarTo
  <2>2. documented'.run = 1 /\ ~documented'.long
    BY <1>4, <1>6, DigitsAssumption, OneDigit
  <2>3. /\ ragel'.result = "reading" /\ ragel'.type = ragel.type
        /\ ragel'.tags = ragel.tags /\ ragel'.explicit_sign = "none"
        /\ ragel'.places = {Place("key", 0, IF marking THEN FieldAt("key") ELSE documented.mark),
                            Place("whole", 1, IF marking THEN FieldAt("whole") ELSE documented.mark)}
    BY <1>1, <1>6, DigitAfterTags
  <2>4. FieldAt("whole") = GrammarField("whole")
    BY <1>4, SameField
  <2>5. InNumber(Place("whole", documented.run, documented.mark))'
    <3>1. Place("whole", documented'.run, documented'.mark) \in ragel'.places
      BY <2>1, <2>2, <2>3, <2>4
    <3>2. ASSUME NEW p \in ragel'.places
          PROVE  p = Place("whole", documented'.run, documented'.mark) \/ p.at = "key"
      BY <2>1, <2>2, <2>3, <2>4, <3>2 DEF Place
    <3> QED BY <3>1, <3>2 DEF InNumber
  <2>6. RagelPlaces'
    BY <2>1, <2>5 DEF RagelPlaces, OnePlace
  <2>7. RagelDatagram'
    BY <1>4, <2>1, <2>3 DEF RagelDatagram, AtFront
  <2>8. RagelDigits'
    BY <2>1, <2>2, DigitsAssumption DEF RagelDigits
  <2> QED BY <2>1, <2>6, <2>7, <2>8 DEF RagelFollows, RagelAt
<1> QED BY <1>2, <1>3, <1>5, <1>6

LEMMA RagelFromSign ==
    ASSUME NEW c \in Char, NEW marking, RagelReads(c, marking), RagelAt,
           documented.at = "sign"
    PROVE  RagelFollows(c)
<1>1. RagelOn("sign")
  BY DEF RagelAt, RagelPlaces, OnePlace
<1>2. \/ c = "digit" /\ GrammarTo("whole", c, marking)
      \/ c # "digit" /\ GrammarLeaves(c)
  BY DEF RagelReads, GrammarLeads, GrammarLeaves
<1>3. CASE c # "digit" /\ GrammarLeaves(c)
  <2>1. Leads("sign", 0, c) = {}
    BY <1>3 DEF Leads, Final
  <2> QED BY <1>1, <1>3, <2>1, RagelOnLeaves DEF Final
<1>4. CASE c = "digit" /\ GrammarTo("whole", c, marking)
  <2>1. /\ ragel.tags = documented.tags /\ ragel.type = documented.type
        /\ ragel.explicit_sign = documented.sign /\ documented.run = 0 /\ ~documented.long
    BY DEF RagelAt, RagelDatagram, RagelDigits
  <2>2. /\ documented'.at = "whole" /\ documented'.type = documented.type
        /\ documented'.sign = documented.sign /\ documented'.tags = documented.tags
    BY <1>4 DEF GrammarTo
  <2>3. documented'.run = 1 /\ ~documented'.long
    BY <1>4, <2>1, DigitsAssumption, OneDigit
  <2>4. OneLead("sign", c, "whole", 1)
    BY <1>4, DigitsAssumption DEF OneLead, Leads, Final
  <2>5. /\ ragel'.result = "reading" /\ RagelIn("whole", 1)'
        /\ ragel'.type = ragel.type /\ ragel'.tags = ragel.tags
        /\ ragel'.explicit_sign = ragel.explicit_sign
    BY <1>1, <1>4, <2>4, RagelGoes
  <2>6. RagelPlaces'
    BY <2>2, <2>3, <2>5 DEF RagelPlaces, OnePlace, InNumber, RagelIn
  <2>7. RagelDatagram'
    BY <2>1, <2>2, <2>5 DEF RagelDatagram, AtFront
  <2>8. RagelDigits'
    BY <2>2, <2>3, DigitsAssumption DEF RagelDigits
  <2> QED BY <2>2, <2>6, <2>7, <2>8 DEF RagelFollows, RagelAt
<1> QED BY <1>2, <1>3, <1>4

LEMMA RagelFromValue ==
    ASSUME NEW c \in Char, NEW marking, RagelReads(c, marking), RagelAt,
           documented.at = "value"
    PROVE  RagelFollows(c)
<1>1. RagelOn("value")
  BY DEF RagelAt, RagelPlaces, OnePlace
<1>2. \/ \E to \in {"m", "type"} : /\ c \in {"m", "c", "g"} /\ (to = "m" <=> c = "m")
                                  /\ GrammarTo(to, c, marking)
      \/ c \notin {"m", "c", "g"} /\ GrammarLeaves(c)
  <2>1. \/ c \in {"c", "g"} /\ GrammarTo("type", c, marking)
        \/ c = "m" /\ GrammarTo("m", c, marking)
        \/ c \notin {"m", "c", "g"} /\ GrammarLeaves(c)
    BY DEF RagelReads, GrammarLeads, GrammarLeaves
  <2> QED BY <2>1
<1>3. CASE c \notin {"m", "c", "g"} /\ GrammarLeaves(c)
  <2>1. Leads("value", 0, c) = {}
    BY <1>3 DEF Leads, Final
  <2> QED BY <1>1, <1>3, <2>1, RagelOnLeaves DEF Final
<1>4. ASSUME NEW to \in {"m", "type"}, c \in {"m", "c", "g"}, to = "m" <=> c = "m",
             GrammarTo(to, c, marking)
      PROVE  RagelFollows(c)
  <2>1. /\ ragel.tags = documented.tags /\ ragel.explicit_sign = documented.sign
    BY DEF RagelAt, RagelDatagram
  <2>2. /\ documented'.at = to /\ documented'.type = TypeOf(c)
        /\ documented'.sign = documented.sign /\ documented'.tags = documented.tags
    BY <1>4 DEF GrammarTo
  <2>3. OneLead("value", c, to, 0)
    BY <1>4 DEF OneLead, Leads, Final
  <2>4. /\ ragel'.result = "reading" /\ RagelIn(to, 0)'
        /\ ragel'.type = TypeOf(c) /\ ragel'.tags = ragel.tags
        /\ ragel'.explicit_sign = ragel.explicit_sign
    BY <1>1, <1>4, <2>3, RagelGoes
  <2>5. RagelPlaces'
    BY <2>2, <2>4 DEF RagelPlaces, RagelOn, OnePlace
  <2>6. ~AtFront'
    BY <2>2 DEF AtFront
  <2>7. RagelAt'
    BY <1>4, <2>1, <2>2, <2>4, <2>5, <2>6, RagelArrives
  <2> QED BY <2>2, <2>7 DEF RagelFollows
<1> QED BY <1>2, <1>3, <1>4

\* The end of a documented line.
LEMMA RagelLine ==
    ASSUME NEW marking, RagelReads("end", marking), RagelAt,
           documented.at \in {"type", "end_text"}, RagelOn(documented.at),
           GrammarTo("line", "end", marking),
           NEW rto \in Final, OneLead(documented.at, "end", rto, 0)
    PROVE  RagelFollows("end")
<1> DEFINE p == Place(rto, 0, documented.mark)
<1>1. /\ ragel.result = "reading" /\ RagelRead("end", marking) /\ RagelType /\ ~marking
      /\ ragel.tags = documented.tags /\ ragel.explicit_sign = documented.sign
      /\ ragel.type = documented.type
  BY DEF RagelAt, RagelDatagram, RagelReads
<1>2. Reached("end", marking) = {p}
  BY <1>1, OnlyReached DEF RagelOn, RagelIn, OneLead
<1>3. p.at \in Final /\ p.mark = documented.mark
  BY DEF Place
<1> HIDE DEF p
<1>4. Finals({p}) = {p}
  BY <1>3 DEF Finals
<1>5. AtEnd({p})
  BY <1>1, <1>2 DEF RagelRead, ValueEnds
<1>6. (CHOOSE q \in {p} : TRUE) = p
  OBVIOUS
<1>7. ragel' = [ragel EXCEPT !.result = "accepted", !.places = {}, !.mark = documented.mark,
                             !.tags = IF TagParsed("end") THEN ragel.tags + 1 ELSE ragel.tags]
  <2>1. End("accepted", {p}, IF TagParsed("end") THEN ragel.tags + 1 ELSE ragel.tags)
    BY <1>4, <1>5 DEF AtEnd
  <2> QED BY <1>1, <1>3, <1>6, <2>1 DEF End, RagelType
<1>8. TagParsed("end") <=> documented.at = "end_text"
  BY OnlyFrom DEF TagParsed, RagelOn, RagelIn
<1>9. /\ ragel'.result = "accepted" /\ ragel'.mark = documented.mark
      /\ ragel'.tags = (IF documented.at = "end_text" THEN ragel.tags + 1 ELSE ragel.tags)
      /\ ragel'.type = ragel.type /\ ragel'.explicit_sign = ragel.explicit_sign
  BY <1>1, <1>7, <1>8 DEF RagelType
<1>10. /\ documented'.at = "line" /\ documented'.mark = documented.mark
       /\ documented'.sign = documented.sign /\ documented'.type = documented.type
       /\ documented'.tags = IF documented.at = "end_text" THEN documented.tags + 1 ELSE documented.tags
  BY <1>1 DEF GrammarTo, Word, Letter, Lower
<1>11. RagelPlaces'
  BY <1>9, <1>10 DEF RagelPlaces, OnePlace
<1>12. RagelDatagram'
  BY <1>1, <1>9, <1>10 DEF RagelDatagram, AtFront
<1>13. RagelDigits'
  BY DigitsAssumption DEF RagelDigits, GrammarTo, RagelAt
<1> QED BY <1>10, <1>11, <1>12, <1>13 DEF RagelFollows, RagelAt

LEMMA RagelFromType ==
    ASSUME NEW c \in Char, NEW marking, RagelReads(c, marking), RagelAt,
           documented.at = "type"
    PROVE  RagelFollows(c)
<1>1. RagelOn("type")
  BY DEF RagelAt, RagelPlaces, OnePlace
<1>2. \/ c = "|" /\ GrammarTo("bar", c, marking)
      \/ c = "end" /\ GrammarTo("line", c, marking)
      \/ GrammarLeaves(c)
  BY DEF RagelReads, GrammarLeads, GrammarLeaves
<1>3. CASE GrammarLeaves(c)
  <2>1. CASE c \in {"@", "end", "|"}
    BY <1>3, <2>1, RagelLenience DEF RagelFollows, GrammarLeaves
  <2>2. CASE c \notin {"@", "end", "|"}
    <3>1. Leads("type", 0, c) = {}
      BY <2>2 DEF Leads, Final
    <3> QED BY <1>1, <1>3, <3>1, RagelOnLeaves DEF Final
  <2> QED BY <2>1, <2>2
<1>4. CASE c = "|" /\ GrammarTo("bar", c, marking)
  <2>1. OneLead("type", c, "bar", 0)
    BY <1>4 DEF OneLead, Leads, Final
  <2>2. c \notin {"end", "+", "-"} /\ CountsTag("type", c)
    BY <1>4 DEF CountsTag
  <2>3. Passage("bar", "bar") /\ (AtFront <=> "bar" \in FrontPlace)
    BY DEF Passage, AtFront, FrontPlace, OnePlace, Final
  <2> QED BY <1>1, <1>4, <2>1, <2>2, <2>3, RagelPasses
<1>5. CASE c = "end" /\ GrammarTo("line", c, marking)
  <2>1. OneLead("type", "end", "terminated", 0) /\ "terminated" \in Final
    BY DEF OneLead, Leads, Final
  <2> QED BY <1>1, <1>5, <2>1, RagelLine
<1> QED BY <1>2, <1>3, <1>4, <1>5

LEMMA RagelFromEndText ==
    ASSUME NEW c \in Char, NEW marking, RagelReads(c, marking), RagelAt,
           documented.at = "end_text"
    PROVE  RagelFollows(c)
<1>1. RagelOn("end_text")
  BY DEF RagelAt, RagelPlaces, OnePlace
<1>2. \/ c \in Word /\ GrammarTo("end_text", c, marking)
      \/ c = "," /\ GrammarTo("end_no_key", c, marking)
      \/ c = "end" /\ GrammarTo("line", c, marking)
      \/ ~(c \in Word \/ c = "," \/ c = "end") /\ GrammarLeaves(c)
  BY DEF RagelReads, GrammarLeads, GrammarLeaves, Lower, Word, Letter
<1>3. CASE ~(c \in Word \/ c = "," \/ c = "end") /\ GrammarLeaves(c)
  <2>1. Leads("end_text", 0, c) = {}
    BY <1>3 DEF Leads, Final, Lower, Word, Letter
  <2> QED BY <1>1, <1>3, <2>1, RagelOnLeaves DEF Final
<1>4. CASE c \in Word /\ GrammarTo("end_text", c, marking)
  <2>1. OneLead("end_text", c, "end_text", 0)
    BY <1>4 DEF OneLead, Leads, Final, Lower, Word, Letter
  <2>2. c \notin {"end", "+", "-"} /\ CountsTag("end_text", c)
    BY <1>4 DEF CountsTag, Word, Letter, Lower
  <2>3. Passage("end_text", "end_text") /\ (AtFront <=> "end_text" \in FrontPlace)
    BY DEF Passage, AtFront, FrontPlace, OnePlace, Final
  <2> QED BY <1>1, <1>4, <2>1, <2>2, <2>3, RagelPasses
<1>5. CASE c = "," /\ GrammarTo("end_no_key", c, marking)
  <2>1. OneLead("end_text", c, "tags_end", 0)
    BY <1>5 DEF OneLead, Leads, Final, Lower, Word, Letter
  <2>2. c \notin {"end", "+", "-"} /\ CountsTag("end_text", c)
    BY <1>5 DEF CountsTag, Word, Letter, Lower
  <2>3. Passage("tags_end", "end_no_key") /\ (AtFront <=> "end_no_key" \in FrontPlace)
    BY DEF Passage, AtFront, FrontPlace, OnePlace, Final
  <2> QED BY <1>1, <1>5, <2>1, <2>2, <2>3, RagelPasses
<1>6. CASE c = "end" /\ GrammarTo("line", c, marking)
  <2>1. OneLead("end_text", "end", "tags_end", 0) /\ "tags_end" \in Final
    BY DEF OneLead, Leads, Final, Lower, Word, Letter
  <2> QED BY <1>1, <1>6, <2>1, RagelLine
<1> QED BY <1>2, <1>3, <1>4, <1>5, <1>6

LEMMA RagelFromEndNoKey ==
    ASSUME NEW c \in Char, NEW marking, RagelReads(c, marking), RagelAt,
           documented.at = "end_no_key"
    PROVE  RagelFollows(c)
<1>1. PICK at \in Final : RagelOn(at)
  BY DEF RagelAt, RagelPlaces, OnePlace, Final
<1>2. \/ c \in Word /\ GrammarTo("end_key", c, marking)
      \/ c \notin Word /\ GrammarLeaves(c)
  BY DEF RagelReads, GrammarLeads, GrammarLeaves
<1>3. CASE c \notin Word /\ GrammarLeaves(c)
  BY <1>3, RagelLenience DEF RagelFollows, GrammarLeaves
<1>4. CASE c \in Word /\ GrammarTo("end_key", c, marking)
  <2>1. OneLead(at, c, "end_key", 0)
    <3>1. CASE at = "terminated"
      BY <1>4, <3>1 DEF OneLead, Leads, Final, Lower, Word, Letter
    <3>2. CASE at = "tags_end"
      BY <1>4, <3>2 DEF OneLead, Leads, Final, Lower, Word, Letter
    <3> QED BY <3>1, <3>2 DEF Final
  <2>2. c \notin {"end", "+", "-"} /\ CountsTag(at, c)
    BY <1>4 DEF CountsTag, Word, Letter, Lower, Final
  <2>3. Passage("end_key", "end_key") /\ (AtFront <=> "end_key" \in FrontPlace)
    BY DEF Passage, AtFront, FrontPlace, OnePlace
  <2>4. at \notin {"whole", "fraction", "value", "tags"}
    BY DEF Final
  <2> QED BY <1>1, <1>4, <2>1, <2>2, <2>3, <2>4, RagelPasses
<1> QED BY <1>2, <1>3, <1>4

LEMMA LeadsFromKey ==
    ASSUME NEW n, NEW c
    PROVE  /\ c \in Word => Leads("key", n, c) = {<<"key", 0>>}
           /\ c = "=" => Leads("key", n, c) = {<<"no_text", 0>>}
           /\ c \notin Word /\ c # "=" => Leads("key", n, c) = {}
BY DEF Leads, Final, Word, Letter, Lower

LEMMA LeadsFromNumber ==
    ASSUME NEW at \in {"whole", "point", "fraction"}, NEW n, NEW c
    PROVE  /\ c \notin {"digit", ".", "|"} => Leads(at, n, c) = {}
           /\ c # "|" => \A to \in Leads(at, n, c) : to[1] \in {"whole", "point", "fraction"}
<1>1. CASE at = "whole"
  <2>1. Leads(at, n, c) = (IF c = "digit" /\ n + 1 <= MaxDigits THEN {<<"whole", n + 1>>} ELSE {})
                          \cup (IF c \in {"."} THEN {<<"point", 0>>} ELSE {})
                          \cup (IF c \in {"|"} THEN {<<"value", 0>>} ELSE {})
    BY <1>1 DEF Leads, Final
  <2> QED BY <2>1
<1>2. CASE at = "point"
  <2>1. Leads(at, n, c) = IF c = "digit" /\ 1 <= MaxDigits THEN {<<"fraction", 1>>} ELSE {}
    BY <1>2 DEF Leads, Final
  <2> QED BY <2>1
<1>3. CASE at = "fraction"
  <2>1. Leads(at, n, c) = (IF c = "digit" /\ n + 1 <= MaxDigits THEN {<<"fraction", n + 1>>} ELSE {})
                          \cup (IF c \in {"|"} THEN {<<"value", 0>>} ELSE {})
    BY <1>3 DEF Leads, Final
  <2> QED BY <2>1
<1> QED BY <1>1, <1>2, <1>3

\* What a place with one lead contributes.
LEMMA ReachedThrough ==
    ASSUME NEW c, NEW marking, NEW q \in ragel.places, NEW t, NEW k,
           Leads(q.at, q.n, c) = {<<t, k>>}
    PROVE  /\ Place(t, k, IF marking THEN FieldAt(t) ELSE q.mark) \in Reached(c, marking)
           /\ \A p : (\E to \in Leads(q.at, q.n, c) :
                        p = Place(to[1], to[2], IF marking THEN FieldAt(to[1]) ELSE q.mark))
                     <=> p = Place(t, k, IF marking THEN FieldAt(t) ELSE q.mark)
<1>1. PICK to : to = <<t, k>>
  OBVIOUS
<1>2. to[1] = t /\ to[2] = k /\ Leads(q.at, q.n, c) = {to}
  BY <1>1
<1>3. Place(to[1], to[2], IF marking THEN FieldAt(to[1]) ELSE q.mark) \in Reached(c, marking)
  BY <1>2, ReachedFrom
<1> QED BY <1>2, <1>3

LEMMA PlaceFields ==
    ASSUME NEW at, NEW n, NEW field
    PROVE  /\ Place(at, n, field).at = at /\ Place(at, n, field).n = n
           /\ Place(at, n, field).mark = field
BY DEF Place

LEMMA RagelFromKey ==
    ASSUME NEW c \in Char, NEW marking, RagelReads(c, marking), RagelAt,
           documented.at = "key"
    PROVE  RagelFollows(c)
<1>1. PICK q \in ragel.places : /\ q.at = "key" /\ q.n = 0 /\ q.mark = documented.mark
                                /\ \A p \in ragel.places : p = q \/ p.at \in {"whole", "point", "fraction"}
  BY PlaceFields DEF RagelAt, RagelPlaces
<1>2. /\ ragel.result = "reading" /\ ragel.tags = documented.tags /\ ragel.type = documented.type
      /\ ragel.explicit_sign = documented.sign /\ documented.sign = "none"
      /\ RagelRead(c, marking) /\ RagelType
  BY DEF RagelAt, RagelDatagram, RagelReads, AtFront
<1>3. Finals(ragel.places) = {} /\ ~From("tags") /\ ~From("value") /\ ~TagParsed(c)
  BY <1>1 DEF Finals, Final, From, TagParsed
<1>4. \/ c \in Word /\ GrammarTo("key", c, marking)
      \/ c = "=" /\ GrammarTo("no_text", c, marking)
      \/ ~(c \in Word \/ c = "=") /\ GrammarLeaves(c)
  BY DEF RagelReads, GrammarLeads, GrammarLeaves, Lower, Word, Letter
<1>5. CASE ~(c \in Word \/ c = "=") /\ GrammarLeaves(c)
  <2>1. CASE c = "|"
    BY <1>5, <2>1, RagelLenience DEF RagelFollows, GrammarLeaves
  <2>2. CASE c # "|"
    <3>1. c \notin {"digit", ".", "|"}
      BY <1>5, <2>2 DEF Word
    <3>2. \A p \in ragel.places : Leads(p.at, p.n, c) = {}
      BY <1>1, <1>5, <3>1, LeadsFromKey, LeadsFromNumber
    <3>3. Reached(c, marking) = {}
      BY <3>2, NothingReached
    <3> QED BY <1>3, <1>5, <3>3, RagelLeaves
  <2> QED BY <2>1, <2>2
<1>6. CASE c \in Word /\ GrammarTo("key", c, marking)
  <2>1. c \notin {"end", "|", "+", "-"}
    BY <1>6 DEF Word, Letter, Lower
  <2>2. /\ documented'.at = "key" /\ documented'.type = documented.type
        /\ documented'.sign = documented.sign /\ documented'.tags = documented.tags
        /\ documented'.mark = IF marking THEN GrammarField("key") ELSE documented.mark
    BY <1>6, <2>1 DEF GrammarTo
  <2>3. FieldAt("key") = GrammarField("key")
    BY <1>2, SameField
  <2>4. Leads(q.at, q.n, c) = {<<"key", 0>>}
    BY <1>1, <1>6, LeadsFromKey
  <2>5. Place("key", 0, documented'.mark) \in Reached(c, marking)
    BY <1>1, <2>2, <2>3, <2>4, ReachedThrough
  <2>6. ASSUME NEW p \in Reached(c, marking)
        PROVE  p = Place("key", 0, documented'.mark) \/ p.at \in {"whole", "point", "fraction"}
    <3>1. PICK r \in ragel.places : \E to \in Leads(r.at, r.n, c) :
            p = Place(to[1], to[2], IF marking THEN FieldAt(to[1]) ELSE r.mark)
      BY <2>6, ReachedFrom
    <3>2. CASE r = q
      BY <1>1, <2>2, <2>3, <2>4, <3>1, <3>2, ReachedThrough
    <3>3. CASE r.at \in {"whole", "point", "fraction"}
      BY <2>1, <3>1, <3>3, LeadsFromNumber, PlaceFields
    <3> QED BY <1>1, <3>2, <3>3
  <2>7. ~ValueEnds(c)
    BY <2>1 DEF ValueEnds
  <2>8. /\ ragel'.result = "reading" /\ ragel'.places = Reached(c, marking)
        /\ ragel'.type = ragel.type /\ ragel'.tags = ragel.tags
        /\ ragel'.explicit_sign = ragel.explicit_sign
    BY <1>2, <1>3, <2>1, <2>5, <2>7, RagelAdvances
  <2>9. RagelPlaces'
    BY <2>2, <2>5, <2>6, <2>8 DEF RagelPlaces, OnePlace
  <2>10. RagelAt'
    BY <1>2, <1>6, <2>2, <2>8, <2>9, RagelArrives
  <2> QED BY <2>2, <2>10 DEF RagelFollows
<1>7. CASE c = "=" /\ GrammarTo("no_text", c, marking)
  <2>1. c \notin {"end", "|", "+", "-"}
    BY <1>7
  <2>2. /\ documented'.at = "no_text" /\ documented'.type = documented.type
        /\ documented'.sign = documented.sign /\ documented'.tags = documented.tags
        /\ documented'.mark = IF marking THEN GrammarField("no_text") ELSE documented.mark
    BY <1>7, <2>1 DEF GrammarTo
  <2>3. FieldAt("no_text") = GrammarField("no_text")
    BY <1>2, SameField
  <2>4. Leads(q.at, q.n, c) = {<<"no_text", 0>>}
    BY <1>1, <1>7, LeadsFromKey
  <2>5. Place("no_text", 0, documented'.mark) \in Reached(c, marking)
    <3>1. Place("no_text", 0, IF marking THEN FieldAt("no_text") ELSE q.mark) \in Reached(c, marking)
      BY <2>4, ReachedThrough
    <3> QED BY <1>1, <2>2, <2>3, <3>1
  <2>6. ASSUME NEW p \in Reached(c, marking)
        PROVE  p = Place("no_text", 0, documented'.mark)
    <3>1. PICK r \in ragel.places : \E to \in Leads(r.at, r.n, c) :
            p = Place(to[1], to[2], IF marking THEN FieldAt(to[1]) ELSE r.mark)
      BY <2>6, ReachedFrom
    <3>2. r = q
      BY <1>1, <1>7, <3>1, LeadsFromNumber
    <3> QED BY <1>1, <2>2, <2>3, <2>4, <3>1, <3>2, ReachedThrough
  <2>7. ~ValueEnds(c)
    BY <2>1 DEF ValueEnds
  <2>8. /\ ragel'.result = "reading" /\ ragel'.places = Reached(c, marking)
        /\ ragel'.type = ragel.type /\ ragel'.tags = ragel.tags
        /\ ragel'.explicit_sign = ragel.explicit_sign
    BY <1>2, <1>3, <2>1, <2>5, <2>7, RagelAdvances
  <2>9. ragel'.places = {Place("no_text", 0, documented'.mark)}
    BY <2>5, <2>6, <2>8
  <2>10. RagelPlaces'
    BY <2>2, <2>9 DEF RagelPlaces, RagelOn, RagelIn, OnePlace
  <2>11. RagelAt'
    BY <1>2, <1>7, <2>2, <2>8, <2>10, RagelArrives
  <2> QED BY <2>2, <2>11 DEF RagelFollows
<1> QED BY <1>4, <1>5, <1>6, <1>7

NumberPlace == {"whole", "point", "fraction"}

\* In a number the machine is in no place with actions or of a complete line.
LEMMA NoActions ==
    ASSUME \A p \in ragel.places : p.at \in NumberPlace \cup {"key"}
    PROVE  /\ Finals(ragel.places) = {} /\ ~From("tags") /\ ~From("value")
           /\ \A c : ~TagParsed(c)
BY DEF Finals, Final, From, TagParsed, NumberPlace

LEMMA NumberGoesOn ==
    ASSUME NEW c \in {"digit", "."}, NEW marking, RagelReads(c, marking), RagelAt,
           NEW at \in NumberPlace, documented.at = at,
           NEW n, InNumber(Place(at, n, documented.mark)),
           NEW to \in NumberPlace, GrammarTo(to, c, marking),
           NEW k, Leads(at, n, c) = {<<to, k>>}
    PROVE  /\ RagelDatagram' /\ InNumber(Place(to, k, documented.mark))'
<1>1. PICK q \in ragel.places : /\ q.at = at /\ q.n = n /\ q.mark = documented.mark
                                /\ \A p \in ragel.places : p = q \/ p.at = "key"
  BY PlaceFields DEF InNumber
<1>2. /\ ragel.result = "reading" /\ ragel.tags = documented.tags /\ ragel.type = documented.type
      /\ ragel.explicit_sign = documented.sign /\ RagelRead(c, marking) /\ RagelType
  BY DEF RagelAt, RagelDatagram, RagelReads, NumberPlace
<1>3. Finals(ragel.places) = {} /\ ~From("tags") /\ ~From("value") /\ ~TagParsed(c)
  <2>1. \A p \in ragel.places : p.at \in NumberPlace \cup {"key"}
    BY <1>1
  <2> QED BY <2>1, NoActions
<1>4. c \notin {"end", "|", "+", "-"} /\ ~ValueEnds(c) /\ c \in Word
  BY DEF ValueEnds, Word
<1>5. /\ documented'.at = to /\ documented'.type = documented.type
      /\ documented'.sign = documented.sign /\ documented'.tags = documented.tags
      /\ documented'.mark = IF marking THEN GrammarField(to) ELSE documented.mark
  BY <1>4 DEF GrammarTo, NumberPlace
<1>6. FieldAt(to) = GrammarField(to)
  BY <1>2, SameField
<1>7. Leads(q.at, q.n, c) = {<<to, k>>}
  BY <1>1
<1>8. Place(to, k, documented'.mark) \in Reached(c, marking)
  <2>1. Place(to, k, IF marking THEN FieldAt(to) ELSE q.mark) \in Reached(c, marking)
    BY <1>7, ReachedThrough
  <2> QED BY <1>1, <1>5, <1>6, <2>1
<1>9. ASSUME NEW p \in Reached(c, marking)
      PROVE  p = Place(to, k, documented'.mark) \/ p.at = "key"
  <2>1. PICK r \in ragel.places : \E lead \in Leads(r.at, r.n, c) :
          p = Place(lead[1], lead[2], IF marking THEN FieldAt(lead[1]) ELSE r.mark)
    BY <1>9, ReachedFrom
  <2>2. CASE r = q
    <3>1. p = Place(to, k, IF marking THEN FieldAt(to) ELSE q.mark)
      BY <1>7, <2>1, <2>2, ReachedThrough
    <3> QED BY <1>1, <1>5, <1>6, <3>1
  <2>3. CASE r.at = "key"
    <3>1. Leads(r.at, r.n, c) = {<<"key", 0>>}
      BY <1>4, <2>3, LeadsFromKey
    <3>2. p = Place("key", 0, IF marking THEN FieldAt("key") ELSE r.mark)
      BY <2>1, <3>1, ReachedThrough
    <3> QED BY <3>2, PlaceFields
  <2> QED BY <1>1, <2>2, <2>3
<1>10. /\ ragel'.result = "reading" /\ ragel'.places = Reached(c, marking)
       /\ ragel'.type = ragel.type /\ ragel'.tags = ragel.tags
       /\ ragel'.explicit_sign = ragel.explicit_sign
  BY <1>2, <1>3, <1>4, <1>8, RagelAdvances
<1>11. InNumber(Place(to, k, documented.mark))'
  BY <1>8, <1>9, <1>10 DEF InNumber
<1>12. RagelDatagram'
  BY <1>2, <1>5, <1>10 DEF RagelDatagram, AtFront, NumberPlace
<1> QED BY <1>11, <1>12

\* Only keys are left once the number is too long, and then nothing.
LEMMA NumberTooLong ==
    ASSUME NEW c \in {"digit", "."}, NEW marking, RagelReads(c, marking),
           ragel.result = "reading",
           \A p \in ragel.places : \/ p.at = "key"
                                   \/ p.at \in NumberPlace /\ Leads(p.at, p.n, c) = {},
           NEW to \in NumberPlace, GrammarTo(to, c, marking), documented'.long
    PROVE  RagelFollows(c)
<1>1. RagelRead(c, marking) /\ RagelType /\ documented'.at = to /\ to # "refused"
  BY DEF RagelReads, GrammarTo, NumberPlace
<1>2. Finals(ragel.places) = {} /\ ~From("tags") /\ ~From("value") /\ ~TagParsed(c)
  <2>1. \A p \in ragel.places : p.at \in NumberPlace \cup {"key"}
    OBVIOUS
  <2> QED BY <2>1, NoActions
<1>3. c \notin {"end", "|"} /\ ~ValueEnds(c) /\ c \in Word
  BY DEF ValueEnds, Word
<1>4. CASE Reached(c, marking) = {}
  <2>1. RagelRefused
    BY <1>1, <1>2, <1>4, RagelStops
  <2> QED BY <1>1, <2>1 DEF RagelFollows
<1>5. CASE Reached(c, marking) # {}
  <2>1. ragel'.result = "reading" /\ ragel'.places = Reached(c, marking)
    BY <1>1, <1>3, <1>5, RagelAdvances
  <2>2. ASSUME NEW p \in Reached(c, marking) PROVE p.at = "key"
    <3>1. PICK r \in ragel.places : \E lead \in Leads(r.at, r.n, c) :
            p = Place(lead[1], lead[2], IF marking THEN FieldAt(lead[1]) ELSE r.mark)
      BY <2>2, ReachedFrom
    <3>2. Leads(r.at, r.n, c) = {<<"key", 0>>}
      BY <1>3, <3>1, LeadsFromKey
    <3>3. p = Place("key", 0, IF marking THEN FieldAt("key") ELSE r.mark)
      BY <3>1, <3>2, ReachedThrough
    <3> QED BY <3>3, PlaceFields
  <2>3. RagelLong'
    BY <1>1, <2>1, <2>2 DEF RagelLong, NumberPlace
  <2> QED BY <1>1, <2>3 DEF RagelFollows
<1> QED BY <1>4, <1>5

LEMMA NumberEnds ==
    ASSUME NEW marking, RagelReads("|", marking), RagelAt,
           NEW at \in {"whole", "fraction"}, documented.at = at,
           NEW n, InNumber(Place(at, n, documented.mark)),
           GrammarTo("value", "|", marking)
    PROVE  RagelFollows("|")
<1>1. PICK q \in ragel.places : /\ q.at = at /\ q.n = n /\ q.mark = documented.mark
                                /\ \A p \in ragel.places : p = q \/ p.at = "key"
  BY PlaceFields DEF InNumber
<1>2. /\ ragel.result = "reading" /\ ragel.tags = documented.tags /\ ragel.type = documented.type
      /\ ragel.explicit_sign = documented.sign /\ RagelRead("|", marking) /\ RagelType
  BY DEF RagelAt, RagelDatagram, RagelReads
<1>3. /\ documented'.at = "value" /\ documented'.type = documented.type
      /\ documented'.sign = documented.sign /\ documented'.tags = documented.tags
      /\ documented'.mark = IF marking THEN GrammarField("value") ELSE documented.mark
  BY DEF GrammarTo
<1>4. FieldAt("value") = GrammarField("value")
  BY <1>2, SameField
<1>5. Leads(q.at, q.n, "|") = {<<"value", 0>>}
  <2>1. CASE at = "whole"
    BY <1>1, <2>1 DEF Leads, Final
  <2>2. CASE at = "fraction"
    BY <1>1, <2>2 DEF Leads, Final
  <2> QED BY <2>1, <2>2
<1>6. Place("value", 0, documented'.mark) \in Reached("|", marking)
  <2>1. Place("value", 0, IF marking THEN FieldAt("value") ELSE q.mark) \in Reached("|", marking)
    BY <1>5, ReachedThrough
  <2> QED BY <1>1, <1>3, <1>4, <2>1
<1>7. ASSUME NEW p \in Reached("|", marking)
      PROVE  p = Place("value", 0, documented'.mark)
  <2>1. PICK r \in ragel.places : \E lead \in Leads(r.at, r.n, "|") :
          p = Place(lead[1], lead[2], IF marking THEN FieldAt(lead[1]) ELSE r.mark)
    BY <1>7, ReachedFrom
  <2>2. r = q
    <3>1. "|" \notin Word
      BY DEF Word, Letter, Lower
    <3> QED BY <1>1, <2>1, <3>1, LeadsFromKey
  <2>3. p = Place("value", 0, IF marking THEN FieldAt("value") ELSE q.mark)
    BY <1>5, <2>1, <2>2, ReachedThrough
  <2> QED BY <1>1, <1>3, <1>4, <2>3
<1>8. ValueEnds("|")
  BY <1>1 DEF ValueEnds, From
<1>9. ValueParsed("|", marking)
  BY <1>2, <1>6, <1>8 DEF RagelRead
<1>10. CASE Fail /\ ragel_errno'
  BY <1>3, <1>10 DEF Fail, RagelStart, RagelRefused, RagelFollows
<1>11. CASE ragel' = [ragel EXCEPT !.places = Reached("|", marking), !.whole = 0]
  <2>1. /\ ragel'.result = "reading" /\ ragel'.places = Reached("|", marking)
        /\ ragel'.type = ragel.type /\ ragel'.tags = ragel.tags
        /\ ragel'.explicit_sign = ragel.explicit_sign
    BY <1>2, <1>11 DEF RagelType
  <2>2. ragel'.places = {Place("value", 0, documented'.mark)}
    BY <1>6, <1>7, <2>1
  <2>3. RagelPlaces'
    BY <1>3, <2>2 DEF RagelPlaces, RagelOn, RagelIn, OnePlace
  <2>4. ~AtFront'
    BY <1>3 DEF AtFront
  <2>5. RagelAt'
    BY <1>2, <1>3, <2>1, <2>3, <2>4, RagelArrives
  <2> QED BY <1>3, <2>5 DEF RagelFollows
<1> QED BY <1>9, <1>10, <1>11 DEF ValueParsed

\* The line leaves the grammar in its number: the machine may take it for a key.
LEMMA NumberLeaves ==
    ASSUME NEW c \in Char, NEW marking, RagelReads(c, marking), ragel.result = "reading",
           documented.at \in NumberPlace, GrammarLeaves(c),
           \A p \in ragel.places : p.at = "key" \/ p.at = documented.at
    PROVE  RagelFollows(c)
<1>1. \/ c \in (Word \ {"digit"}) \cup {"="} /\ (documented.at = "whole" => c # ".")
      \/ c \notin Word \cup {"=", "|"}
      \/ c = "|" /\ documented.at = "point"
  <2>1. c # "digit" /\ (documented.at = "whole" => c # ".") /\ (c = "|" => documented.at = "point")
    BY DEF GrammarLeaves, GrammarLeads, NumberPlace
  <2> QED BY <2>1
<1>2. CASE c \in (Word \ {"digit"}) \cup {"="} /\ (documented.at = "whole" => c # ".")
  <2>1. CASE documented.at = "whole"
    BY <1>2, <2>1, RagelLenience DEF RagelFollows, GrammarLeaves
  <2>2. CASE documented.at \in {"point", "fraction"}
    BY <1>2, <2>2, RagelLenience DEF RagelFollows, GrammarLeaves
  <2> QED BY <2>1, <2>2 DEF NumberPlace
<1>3. CASE c \notin Word \cup {"="} /\ (c = "|" => documented.at = "point")
  <2>1. ASSUME NEW p \in ragel.places PROVE Leads(p.at, p.n, c) = {}
    <3>1. CASE p.at = "key"
      BY <1>3, <3>1, LeadsFromKey
    <3>2. CASE p.at = documented.at /\ c # "|"
      <4>1. c \notin {"digit", ".", "|"}
        BY <1>3, <3>2 DEF Word
      <4> QED BY <3>2, <4>1, LeadsFromNumber DEF NumberPlace
    <3>3. CASE p.at = "point" /\ c = "|"
      BY <3>3 DEF Leads, Final
    <3> QED BY <1>3, <3>1, <3>2, <3>3
  <2>2. Reached(c, marking) = {}
    BY <2>1, NothingReached
  <2>3. Finals(ragel.places) = {}
    BY NoActions
  <2>4. RagelRefused
    BY <2>2, <2>3, RagelStops DEF RagelReads
  <2> QED BY <2>4 DEF RagelFollows, GrammarLeaves
<1>4. "|" \notin Word
  BY DEF Word, Letter, Lower
<1> QED BY <1>1, <1>2, <1>3, <1>4

LEMMA RagelFromWhole ==
    ASSUME NEW c \in Char, NEW marking, RagelReads(c, marking), RagelAt,
           documented.at = "whole"
    PROVE  RagelFollows(c)
<1> DEFINE n == documented.run
<1>1. /\ InNumber(Place("whole", n, documented.mark)) /\ ragel.result = "reading"
      /\ n \in Nat /\ n <= MaxDigits /\ ~documented.long
  BY DEF RagelAt, RagelPlaces, RagelDatagram, RagelDigits, RagelReads, GrammarType, OnePlace
<1>2. \A p \in ragel.places : p.at = "key" \/ (p.at = "whole" /\ p.n = n)
  BY <1>1, PlaceFields DEF InNumber
<1>3. \/ c = "digit" /\ GrammarTo("whole", c, marking)
      \/ c = "." /\ GrammarTo("point", c, marking)
      \/ c = "|" /\ GrammarTo("value", c, marking)
      \/ GrammarLeaves(c)
  BY DEF RagelReads, GrammarLeads, GrammarLeaves
<1> HIDE DEF n
<1>4. CASE GrammarLeaves(c)
  BY <1>1, <1>2, <1>4, NumberLeaves DEF NumberPlace
<1>5. CASE c = "|" /\ GrammarTo("value", c, marking)
  BY <1>1, <1>5, NumberEnds
<1>6. CASE c = "." /\ GrammarTo("point", c, marking)
  <2>1. Leads("whole", n, c) = {<<"point", 0>>}
    BY <1>6 DEF Leads, Final
  <2>2. RagelDatagram' /\ InNumber(Place("point", 0, documented.mark))'
    BY <1>1, <1>6, <2>1, NumberGoesOn DEF NumberPlace
  <2>3. documented'.at = "point" /\ documented'.run = 0 /\ ~documented'.long
    BY <1>1, <1>6, DigitsAssumption DEF GrammarTo
  <2>4. RagelPlaces'
    BY <2>2, <2>3 DEF RagelPlaces, OnePlace
  <2>5. RagelDigits'
    BY <2>3, DigitsAssumption DEF RagelDigits
  <2> QED BY <2>2, <2>3, <2>4, <2>5 DEF RagelAt, RagelFollows
<1>7. CASE c = "digit" /\ GrammarTo("whole", c, marking)
  <2>1. documented'.run = n + 1 /\ (documented'.long <=> ~(n + 1 <= MaxDigits))
    BY <1>1, <1>7, OneDigit DEF n
  <2>2. documented'.at = "whole"
    BY <1>7 DEF GrammarTo
  <2>3. CASE n + 1 <= MaxDigits
    <3>1. PICK k : k = n + 1
      OBVIOUS
    <3>2. Leads("whole", n, c) = {<<"whole", k>>}
      BY <1>7, <2>3, <3>1 DEF Leads, Final
    <3>3. RagelDatagram' /\ InNumber(Place("whole", k, documented.mark))'
      BY <1>1, <1>7, <3>2, NumberGoesOn DEF NumberPlace
    <3>4. RagelPlaces'
      BY <2>1, <2>2, <3>1, <3>3 DEF RagelPlaces, OnePlace
    <3>5. RagelDigits'
      BY <1>1, <2>1, <2>2, <2>3, DigitsAssumption DEF RagelDigits
    <3> QED BY <2>2, <3>3, <3>4, <3>5 DEF RagelAt, RagelFollows
  <2>4. CASE ~(n + 1 <= MaxDigits)
    <3>1. Leads("whole", n, c) = {}
      BY <1>7, <2>4 DEF Leads, Final
    <3>2. \A p \in ragel.places : \/ p.at = "key"
                                  \/ p.at \in NumberPlace /\ Leads(p.at, p.n, c) = {}
      BY <1>2, <3>1 DEF NumberPlace
    <3> QED BY <1>1, <1>7, <2>1, <2>4, <3>2, NumberTooLong DEF NumberPlace
  <2> QED BY <2>3, <2>4
<1> QED BY <1>3, <1>4, <1>5, <1>6, <1>7

LEMMA RagelFromPoint ==
    ASSUME NEW c \in Char, NEW marking, RagelReads(c, marking), RagelAt,
           documented.at = "point"
    PROVE  RagelFollows(c)
<1>1. /\ InNumber(Place("point", 0, documented.mark)) /\ ragel.result = "reading"
      /\ documented.run = 0 /\ ~documented.long
  BY DEF RagelAt, RagelPlaces, RagelDatagram, RagelDigits, OnePlace
<1>2. \A p \in ragel.places : p.at = "key" \/ p.at = "point"
  BY <1>1, PlaceFields DEF InNumber
<1>3. \/ c = "digit" /\ GrammarTo("fraction", c, marking)
      \/ GrammarLeaves(c)
  BY DEF RagelReads, GrammarLeads, GrammarLeaves
<1>4. CASE GrammarLeaves(c)
  BY <1>1, <1>2, <1>4, NumberLeaves DEF NumberPlace
<1>5. CASE c = "digit" /\ GrammarTo("fraction", c, marking)
  <2>1. Leads("point", 0, c) = {<<"fraction", 1>>}
    BY <1>5, DigitsAssumption DEF Leads, Final
  <2>2. RagelDatagram' /\ InNumber(Place("fraction", 1, documented.mark))'
    BY <1>1, <1>5, <2>1, NumberGoesOn DEF NumberPlace
  <2>3. documented'.at = "fraction" /\ documented'.run = 1 /\ ~documented'.long
    <3>1. documented'.at = "fraction"
      BY <1>5 DEF GrammarTo
    <3> QED BY <1>1, <1>5, <3>1, DigitsAssumption, OneDigit
  <2>4. RagelPlaces'
    BY <2>2, <2>3 DEF RagelPlaces, OnePlace
  <2>5. RagelDigits'
    BY <2>3, DigitsAssumption DEF RagelDigits
  <2> QED BY <2>2, <2>3, <2>4, <2>5 DEF RagelAt, RagelFollows
<1> QED BY <1>3, <1>4, <1>5

LEMMA RagelFromFraction ==
    ASSUME NEW c \in Char, NEW marking, RagelReads(c, marking), RagelAt,
           documented.at = "fraction"
    PROVE  RagelFollows(c)
<1> DEFINE n == documented.run
<1>1. /\ InNumber(Place("fraction", n, documented.mark)) /\ ragel.result = "reading"
      /\ n \in Nat /\ n <= MaxDigits /\ ~documented.long
  BY DEF RagelAt, RagelPlaces, RagelDatagram, RagelDigits, RagelReads, GrammarType, OnePlace
<1>2. \A p \in ragel.places : p.at = "key" \/ (p.at = "fraction" /\ p.n = n)
  BY <1>1, PlaceFields DEF InNumber
<1>3. \/ c = "digit" /\ GrammarTo("fraction", c, marking)
      \/ c = "|" /\ GrammarTo("value", c, marking)
      \/ GrammarLeaves(c)
  BY DEF RagelReads, GrammarLeads, GrammarLeaves
<1> HIDE DEF n
<1>4. CASE GrammarLeaves(c)
  BY <1>1, <1>2, <1>4, NumberLeaves DEF NumberPlace
<1>5. CASE c = "|" /\ GrammarTo("value", c, marking)
  BY <1>1, <1>5, NumberEnds
<1>6. CASE c = "digit" /\ GrammarTo("fraction", c, marking)
  <2>1. documented'.run = n + 1 /\ (documented'.long <=> ~(n + 1 <= MaxDigits))
    BY <1>1, <1>6, OneDigit DEF n
  <2>2. documented'.at = "fraction"
    BY <1>6 DEF GrammarTo
  <2>3. CASE n + 1 <= MaxDigits
    <3>1. PICK k : k = n + 1
      OBVIOUS
    <3>2. Leads("fraction", n, c) = {<<"fraction", k>>}
      BY <1>6, <2>3, <3>1 DEF Leads, Final
    <3>3. RagelDatagram' /\ InNumber(Place("fraction", k, documented.mark))'
      BY <1>1, <1>6, <3>2, NumberGoesOn DEF NumberPlace
    <3>4. RagelPlaces'
      BY <2>1, <2>2, <3>1, <3>3 DEF RagelPlaces, OnePlace
    <3>5. RagelDigits'
      BY <1>1, <2>1, <2>2, <2>3, DigitsAssumption DEF RagelDigits
    <3> QED BY <2>2, <3>3, <3>4, <3>5 DEF RagelAt, RagelFollows
  <2>4. CASE ~(n + 1 <= MaxDigits)
    <3>1. Leads("fraction", n, c) = {}
      BY <1>6, <2>4 DEF Leads, Final
    <3>2. \A p \in ragel.places : \/ p.at = "key"
                                  \/ p.at \in NumberPlace /\ Leads(p.at, p.n, c) = {}
      BY <1>2, <3>1 DEF NumberPlace
    <3> QED BY <1>1, <1>6, <2>1, <2>4, <3>2, NumberTooLong DEF NumberPlace
  <2> QED BY <2>3, <2>4
<1> QED BY <1>3, <1>4, <1>5, <1>6

LEMMA RagelFromLong ==
    ASSUME NEW c \in Char, NEW marking, RagelReads(c, marking), RagelLong
    PROVE  RagelFollows(c)
<1>1. /\ ragel.result = "reading" /\ documented.long /\ documented.at \in NumberPlace
      /\ \A p \in ragel.places : p.at = "key"
  BY DEF RagelLong, NumberPlace
<1>2. \/ c \in {"digit", "."} /\ \E to \in NumberPlace : GrammarTo(to, c, marking)
      \/ c = "|" /\ GrammarTo("value", c, marking)
      \/ GrammarLeaves(c)
  <2>1. documented.at = "whole" \/ documented.at = "point" \/ documented.at = "fraction"
    BY <1>1 DEF NumberPlace
  <2> QED BY <2>1 DEF RagelReads, GrammarLeads, GrammarLeaves, NumberPlace
<1>3. CASE GrammarLeaves(c)
  BY <1>1, <1>3, NumberLeaves
<1>4. CASE c \in {"digit", "."} /\ \E to \in NumberPlace : GrammarTo(to, c, marking)
  <2>1. PICK to \in NumberPlace : GrammarTo(to, c, marking)
    BY <1>4
  <2>2. documented'.long
    BY <1>1, <2>1 DEF GrammarTo
  <2> QED BY <1>1, <1>4, <2>1, <2>2, NumberTooLong
<1>5. CASE c = "|" /\ GrammarTo("value", c, marking)
  <2>1. documented'.long /\ documented'.at = "value"
    BY <1>1, <1>5 DEF GrammarTo
  <2>2. c \notin Word /\ c # "="
    BY <1>5 DEF Word, Letter, Lower
  <2>3. \A p \in ragel.places : Leads(p.at, p.n, c) = {}
    BY <1>1, <2>2, LeadsFromKey
  <2>4. Reached(c, marking) = {}
    BY <2>3, NothingReached
  <2>5. Finals(ragel.places) = {}
    BY <1>1, NoActions
  <2>6. RagelRefused
    BY <1>1, <2>4, <2>5, RagelStops DEF RagelReads
  <2> QED BY <2>1, <2>6 DEF RagelFollows
<1> QED BY <1>2, <1>3, <1>4, <1>5

LEMMA RagelFollowsGrammar ==
    ASSUME NEW c \in Char, NEW marking, RagelReads(c, marking), RagelAt,
           documented.at \notin {"line", "refused"}
    PROVE  RagelFollows(c)
BY RagelFromStart, RagelFromName, RagelFromNoKey, RagelFromKey, RagelFromNoText, RagelFromText,
   RagelFromNumber, RagelFromSign, RagelFromWhole, RagelFromPoint, RagelFromFraction,
   RagelFromValue, RagelFromM, RagelFromType, RagelFromBar, RagelFromEndNoKey,
   RagelFromEndKey, RagelFromEndNoText, RagelFromEndText
   DEF RagelReads, GrammarType, GrammarPlace

-----------------------------------------------------------------------------
(* Both parsers past the grammar *)

\* The machine is in one place, past the number.
InOne(at, field) ==
    /\ ragel.result = "reading" /\ ragel.places = {Place(at, 0, field)}
    /\ at \notin {"whole", "fraction", "value", "tags"}

RagelKeeps(n) ==
    /\ ragel'.explicit_sign = ragel.explicit_sign /\ ragel'.type = ragel.type
    /\ ragel'.tags = ragel.tags + n

LEMMA OneMoves ==
    ASSUME RagelType, ragel.tags \in Nat, NEW c, NEW marking, RagelRead(c, marking), c # "end",
           NEW at, NEW field, InOne(at, field), NEW to, OneLead(at, c, to, 0)
    PROVE  /\ ragel'.result = "reading"
           /\ ragel'.places = {Place(to, 0, IF marking THEN FieldAt(to) ELSE field)}
           /\ at \in {"text", "end_text"} /\ c \in {",", ":"} => RagelKeeps(1)
           /\ ~(at \in {"text", "end_text"} /\ c \in {",", ":"}) => RagelKeeps(0)
<1>1. Reached(c, marking) = {Place(to, 0, IF marking THEN FieldAt(to) ELSE field)}
  BY OnlyReached DEF InOne, OneLead
<1>2. \A other : From(other) <=> at = other
  BY OnlyFrom DEF InOne
<1>3. ~ValueEnds(c) /\ ~From("value") /\ ~From("tags") /\ Reached(c, marking) # {}
  BY <1>1, <1>2 DEF ValueEnds, InOne
<1>4. TagParsed(c) <=> at \in {"text", "end_text"} /\ c \in {",", ":"}
  BY <1>2 DEF TagParsed
<1>5. ragel.result = "reading"
  BY DEF InOne
<1>6. /\ ragel'.result = "reading" /\ ragel'.places = Reached(c, marking)
      /\ ragel'.type = ragel.type /\ ragel'.explicit_sign = ragel.explicit_sign
      /\ TagParsed(c) => ragel'.tags = ragel.tags + 1
      /\ ~TagParsed(c) => ragel'.tags = ragel.tags
  BY <1>3, <1>5, RagelAdvances
<1>7. TagParsed(c) => RagelKeeps(1)
  BY <1>6 DEF RagelKeeps
<1>8. ~TagParsed(c) => RagelKeeps(0)
  BY <1>6 DEF RagelKeeps
<1> QED BY <1>1, <1>4, <1>6, <1>7, <1>8

LEMMA OneStuck ==
    ASSUME RagelType, NEW c, NEW marking, RagelRead(c, marking),
           NEW at, NEW field, InOne(at, field), Leads(at, 0, c) = {}
    PROVE  /\ at \notin Final => RagelRefused
           /\ at \in Final /\ c # "end" => ragel'.result = "stopped"
<1>1. Reached(c, marking) = {} /\ ragel.result = "reading"
  BY OnlyReached DEF InOne
<1>2. ASSUME at \notin Final PROVE RagelRefused
  BY <1>1, <1>2, OnlyFrom, RagelStops DEF InOne
<1>3. ASSUME at \in Final, c # "end" PROVE ragel'.result = "stopped"
  <2>1. Finals(ragel.places) # {}
    <3>1. PICK q : q = Place(at, 0, field)
      OBVIOUS
    <3>2. q.at = at /\ q \in ragel.places
      BY <3>1, PlaceFields DEF InOne
    <3> QED BY <1>3, <3>2 DEF Finals
  <2>2. Stuck(c)
    BY <1>1, ValueLeads DEF RagelRead
  <2> QED BY <1>3, <2>1, <2>2 DEF Stuck, End, RagelType
<1> QED BY <1>2, <1>3

LEMMA OneEnds ==
    ASSUME RagelType, ragel.tags \in Nat, NEW c, c = "end",
           NEW marking, ~marking, RagelRead(c, marking),
           NEW at, NEW field, InOne(at, field), NEW to \in Final, OneLead(at, c, to, 0)
    PROVE  /\ ragel'.result = "accepted" /\ ragel'.mark = field
           /\ at = "end_text" => RagelKeeps(1)
           /\ at \notin {"text", "end_text"} => RagelKeeps(0)
<1> DEFINE p == Place(to, 0, field)
<1>1. Reached(c, marking) = {p}
  <2>1. Reached(c, marking) = {Place(to, 0, IF marking THEN FieldAt(to) ELSE field)}
    BY OnlyReached DEF InOne, OneLead
  <2>2. (IF marking THEN FieldAt(to) ELSE field) = field
    OBVIOUS
  <2> QED BY <2>1, <2>2
<1>2. p.at \in Final /\ p.mark = field
  BY PlaceFields
<1> HIDE DEF p
<1>3. Finals({p}) = {p}
  BY <1>2 DEF Finals
<1>4. AtEnd({p})
  BY <1>1 DEF RagelRead, ValueEnds, InOne
<1>5. (CHOOSE q \in {p} : TRUE) = p
  OBVIOUS
<1>6. TagParsed(c) <=> at \in {"text", "end_text"}
  BY OnlyFrom DEF TagParsed, InOne
<1>7. End("accepted", {p}, IF TagParsed(c) THEN ragel.tags + 1 ELSE ragel.tags)
  BY <1>3, <1>4 DEF AtEnd
<1>8. ragel' = [ragel EXCEPT !.result = "accepted", !.places = {}, !.mark = field,
                             !.tags = IF TagParsed(c) THEN ragel.tags + 1 ELSE ragel.tags]
  BY <1>2, <1>5, <1>7 DEF End
<1>9. /\ ragel'.result = "accepted" /\ ragel'.mark = field
      /\ ragel'.explicit_sign = ragel.explicit_sign /\ ragel'.type = ragel.type
      /\ TagParsed(c) => ragel'.tags = ragel.tags + 1
      /\ ~TagParsed(c) => ragel'.tags = ragel.tags
  BY <1>8 DEF RagelType
<1>10. /\ at = "end_text" => RagelKeeps(1)
       /\ at \notin {"text", "end_text"} => RagelKeeps(0)
  BY <1>6, <1>9 DEF RagelKeeps
<1> QED BY <1>9, <1>10

\* What both have made of the line, and where they are, in step, past the grammar.
TailSame ==
    /\ basic.explicit_sign = ragel.explicit_sign /\ basic.type = ragel.type
    /\ basic.tags = ragel.tags

TailAt ==
    /\ basic.result = "reading"
    /\ basic.past_type <=> basic.segment_type # "divider"
    /\ \/ Reading("divider", FALSE) /\ InOne("bar", mark)
       \/ Reading("tag_key", FALSE) /\ \E at \in Final : InOne(at, mark)
       \/ Reading("tag_key", TRUE) /\ InOne("end_key", mark)
       \/ Reading("tag_value", FALSE) /\ InOne("end_no_text", mark)
       \/ Reading("tag_value", TRUE) /\ InOne("end_text", mark)

TailEnd == basic.result = "accepted" /\ ragel.result = "accepted" /\ mark = ragel.mark

InStep == TailSame /\ (TailAt \/ TailEnd)

\* Or one of them is out of it.
TailFollows == Refused \/ RagelRefused \/ ragel'.result = "stopped" \/ InStep'

BothRead(c, marking) ==
    /\ BasicType /\ BasicRead(c) /\ RagelType /\ RagelRead(c, marking)
    /\ marking \in BOOLEAN /\ (marking => c # "end")
    /\ mark' = IF marking THEN BasicField ELSE mark

LEMMA TailMark ==
    ASSUME NEW c, NEW marking, BothRead(c, marking),
           basic.result = "reading", basic'.result = "reading", basic.tags = ragel.tags, NEW to,
           \/ basic'.length > 0 /\ basic.segment_type = "tag_key" /\ to = "end_key"
           \/ basic'.length > 0 /\ basic.segment_type = "tag_value" /\ to = "end_text"
           \/ ~(basic'.length > 0) /\ to \in {"bar", "terminated", "tags_end", "end_no_text"}
    PROVE  mark' = IF marking THEN FieldAt(to) ELSE mark
<1>1. BasicField = FieldAt(to)
  <2>1. CASE basic'.length > 0
    <3>1. BasicField = <<basic.segment_type, IF basic.segment_type \in {"tag_key", "tag_value"}
                                             THEN basic.tags + 1 ELSE 0>>
      BY <2>1 DEF BasicField
    <3> QED BY <2>1, <3>1 DEF FieldAt
  <2>2. CASE ~(basic'.length > 0)
    <3>1. BasicField = <<"none", 0>>
      BY <2>2 DEF BasicField
    <3> QED BY <2>2, <3>1 DEF FieldAt, Unmarked
  <2> QED BY <2>1, <2>2
<1> QED BY <1>1 DEF BothRead

LEMMA TailGoes ==
    ASSUME NEW c, NEW marking, BothRead(c, marking), TailSame, basic.result = "reading",
           NEW at, InOne(at, mark), c # "end",
           NEW to \in {"bar", "terminated", "tags_end", "end_key", "end_no_text", "end_text"},
           OneLead(at, c, to, 0),
           at = "end_text" /\ c = "," => Counts(1), ~(at = "end_text" /\ c = ",") => Counts(0),
           at # "text", at = "end_text" => c # ":",
           basic'.type = basic.type, basic'.explicit_sign = basic.explicit_sign,
           basic'.result = "reading",
           \/ basic'.length > 0 /\ basic.segment_type = "tag_key" /\ to = "end_key"
           \/ basic'.length > 0 /\ basic.segment_type = "tag_value" /\ to = "end_text"
           \/ ~(basic'.length > 0) /\ to \in {"bar", "terminated", "tags_end", "end_no_text"}
    PROVE  TailSame' /\ InOne(to, mark)'
<1>1. /\ basic.tags = ragel.tags /\ basic.tags \in Nat /\ RagelType /\ RagelRead(c, marking)
  BY DEF TailSame, BothRead, BasicType
<1>2. mark' = IF marking THEN FieldAt(to) ELSE mark
  <2>1. \/ basic'.length > 0 /\ basic.segment_type = "tag_key" /\ to = "end_key"
        \/ basic'.length > 0 /\ basic.segment_type = "tag_value" /\ to = "end_text"
        \/ ~(basic'.length > 0) /\ to \in {"bar", "terminated", "tags_end", "end_no_text"}
    OBVIOUS
  <2> QED BY ONLY <1>1, <2>1, BothRead(c, marking), basic.result = "reading",
                  basic'.result = "reading", TailMark
<1>3. /\ ragel'.result = "reading"
      /\ ragel'.places = {Place(to, 0, IF marking THEN FieldAt(to) ELSE mark)}
      /\ at \in {"text", "end_text"} /\ c \in {",", ":"} => RagelKeeps(1)
      /\ ~(at \in {"text", "end_text"} /\ c \in {",", ":"}) => RagelKeeps(0)
  BY <1>1, OneMoves
<1>4. InOne(to, mark)'
  BY <1>2, <1>3 DEF InOne
<1>5. CASE at = "end_text" /\ c = ","
  <2>1. Counts(1) /\ RagelKeeps(1)
    BY <1>3, <1>5
  <2> QED BY <1>1, <1>4, <2>1 DEF TailSame, RagelKeeps, Counts
<1>6. CASE ~(at = "end_text" /\ c = ",")
  <2>1. Counts(0) /\ RagelKeeps(0)
    BY <1>3, <1>6
  <2> QED BY <1>1, <1>4, <2>1 DEF TailSame, RagelKeeps, Counts
<1> QED BY <1>4, <1>5, <1>6

LEMMA TailFromDivider ==
    ASSUME NEW c \in Char, NEW marking, BothRead(c, marking), TailSame, basic.result = "reading",
           Reading("divider", FALSE), InOne("bar", mark)
    PROVE  TailFollows
<1>1. CASE c = "#"
  <2>1. /\ Moves("tag_key", FALSE) /\ Counts(0) /\ basic'.past_type
        /\ basic'.type = basic.type /\ basic'.explicit_sign = basic.explicit_sign
    BY <1>1, DividerReads DEF BothRead, Reading
  <2>2. OneLead("bar", c, "terminated", 0)
    BY <1>1 DEF OneLead, Leads, Final
  <2>3. TailSame' /\ InOne("terminated", mark)'
    BY <1>1, <2>1, <2>2, TailGoes DEF Moves
  <2>4. TailAt'
    <3>1. \E at \in Final : InOne(at, mark)'
      BY <2>3 DEF Final
    <3> QED BY <2>1, <3>1 DEF TailAt, Moves, Reading
  <2> QED BY <2>3, <2>4 DEF TailFollows, InStep
<1>2. CASE c # "#"
  <2>1. Leads("bar", 0, c) = {} /\ "bar" \notin Final
    BY <1>2 DEF Leads, Final
  <2>2. RagelRefused
    BY <2>1, OneStuck DEF BothRead
  <2> QED BY <2>2 DEF TailFollows
<1> QED BY <1>1, <1>2

LEMMA TailFromNoKey ==
    ASSUME NEW c \in Char, NEW marking, BothRead(c, marking), TailSame, basic.result = "reading",
           basic.past_type, Reading("tag_key", FALSE), NEW at \in Final, InOne(at, mark)
    PROVE  TailFollows
<1>1. \/ c \in Word /\ Stays
      \/ c = "=" \/ c = ":"
      \/ Refused
  BY TagKeyReads DEF BothRead, Reading
<1>2. CASE c \in Word /\ Stays
  <2>1. OneLead(at, c, "end_key", 0) /\ c # "end" /\ at \notin {"text", "end_text"}
    BY <1>2 DEF OneLead, Leads, Final, Word, Letter, Lower
  <2>2. Moves("tag_key", TRUE) /\ Same /\ Counts(0)
    BY <1>2 DEF Stays, Reading
  <2>3. TailSame' /\ InOne("end_key", mark)'
    BY <2>1, <2>2, TailGoes DEF Moves, Same, Reading
  <2>4. TailAt'
    BY <2>2, <2>3 DEF TailAt, Moves, Reading, Same
  <2> QED BY <2>3, <2>4 DEF TailFollows, InStep
<1>3. CASE c = "=" \/ c = ":"
  <2>1. Leads(at, 0, c) = {} /\ c # "end"
    BY <1>3 DEF Leads, Final, Word, Letter, Lower
  <2>2. ragel'.result = "stopped"
    BY <2>1, OneStuck DEF BothRead
  <2> QED BY <2>2 DEF TailFollows
<1> QED BY <1>1, <1>2, <1>3 DEF TailFollows

LEMMA TailFromKey ==
    ASSUME NEW c \in Char, NEW marking, BothRead(c, marking), TailSame, basic.result = "reading",
           basic.past_type, Reading("tag_key", TRUE), InOne("end_key", mark)
    PROVE  TailFollows
<1>1. \/ c \in Word /\ Stays
      \/ c = ":" /\ Turns("tag_value")
      \/ c = "="
      \/ Refused
  BY TagKeyReads DEF BothRead, Reading
<1>2. CASE c \in Word /\ Stays
  <2>1. OneLead("end_key", c, "end_key", 0) /\ c # "end"
    BY <1>2 DEF OneLead, Leads, Final, Word, Letter, Lower
  <2>2. Moves("tag_key", TRUE) /\ Same /\ Counts(0)
    BY <1>2 DEF Stays, Reading
  <2>3. TailSame' /\ InOne("end_key", mark)'
    BY <2>1, <2>2, TailGoes DEF Moves, Same, Reading
  <2>4. TailAt'
    BY <2>2, <2>3 DEF TailAt, Moves, Reading, Same
  <2> QED BY <2>3, <2>4 DEF TailFollows, InStep
<1>3. CASE c = ":" /\ Turns("tag_value")
  <2>1. OneLead("end_key", c, "end_no_text", 0)
    BY <1>3 DEF OneLead, Leads, Final, Word, Letter, Lower
  <2>2. Moves("tag_value", FALSE) /\ Same /\ Counts(0)
    BY <1>3 DEF Turns
  <2>3. TailSame' /\ InOne("end_no_text", mark)'
    BY <1>3, <2>1, <2>2, TailGoes DEF Moves, Same
  <2>4. TailAt'
    BY <2>2, <2>3 DEF TailAt, Moves, Reading, Same
  <2> QED BY <2>3, <2>4 DEF TailFollows, InStep
<1>4. CASE c = "="
  <2>1. Leads("end_key", 0, c) = {} /\ "end_key" \notin Final
    BY <1>4 DEF Leads, Final, Word, Letter, Lower
  <2>2. RagelRefused
    BY <2>1, OneStuck DEF BothRead
  <2> QED BY <2>2 DEF TailFollows
<1> QED BY <1>1, <1>2, <1>3, <1>4 DEF TailFollows

LEMMA TailFromNoText ==
    ASSUME NEW c \in Char, NEW marking, BothRead(c, marking), TailSame, basic.result = "reading",
           basic.past_type, Reading("tag_value", FALSE), InOne("end_no_text", mark)
    PROVE  TailFollows
<1>1. CASE c \in Word
  <2>1. OneLead("end_no_text", c, "end_text", 0) /\ c # "end"
    BY <1>1 DEF OneLead, Leads, Final, Word, Letter, Lower
  <2>2. c \notin {",", ":", "end"}
    BY <1>1 DEF Word, Letter, Lower
  <2>3. Moves("tag_value", TRUE) /\ Same /\ Counts(0)
    BY <1>1, <2>2, TagValueReads DEF BothRead, Stays, Reading
  <2>4. TailSame' /\ InOne("end_text", mark)'
    BY <2>1, <2>3, TailGoes DEF Moves, Same, Reading
  <2>5. TailAt'
    BY <2>3, <2>4 DEF TailAt, Moves, Reading, Same
  <2> QED BY <2>4, <2>5 DEF TailFollows, InStep
<1>2. CASE c \notin Word
  <2>1. Leads("end_no_text", 0, c) = {} /\ "end_no_text" \notin Final
    BY <1>2 DEF Leads, Final
  <2>2. RagelRefused
    BY <2>1, OneStuck DEF BothRead
  <2> QED BY <2>2 DEF TailFollows
<1> QED BY <1>1, <1>2

LEMMA TailFromText ==
    ASSUME NEW c \in Char, NEW marking, BothRead(c, marking), TailSame, basic.result = "reading",
           basic.past_type, Reading("tag_value", TRUE), InOne("end_text", mark)
    PROVE  TailFollows
<1>1. \/ c \in Word /\ Stays
      \/ c = "," /\ Moves("tag_key", FALSE) /\ Same /\ Counts(1)
      \/ c = ":"
      \/ c = "end" /\ basic'.result = "accepted" /\ Same /\ Counts(1)
      \/ Refused
  BY TagValueReads DEF BothRead, Reading
<1>2. CASE c \in Word /\ Stays
  <2>1. OneLead("end_text", c, "end_text", 0) /\ c \notin {"end", ",", ":"}
    BY <1>2 DEF OneLead, Leads, Final, Word, Letter, Lower
  <2>2. Moves("tag_value", TRUE) /\ Same /\ Counts(0)
    BY <1>2 DEF Stays, Reading
  <2>3. TailSame' /\ InOne("end_text", mark)'
    BY <2>1, <2>2, TailGoes DEF Moves, Same, Reading
  <2>4. TailAt'
    BY <2>2, <2>3 DEF TailAt, Moves, Reading, Same
  <2> QED BY <2>3, <2>4 DEF TailFollows, InStep
<1>3. CASE c = "," /\ Moves("tag_key", FALSE) /\ Same /\ Counts(1)
  <2>1. OneLead("end_text", c, "tags_end", 0)
    BY <1>3 DEF OneLead, Leads, Final, Word, Letter, Lower
  <2>2. TailSame' /\ InOne("tags_end", mark)'
    BY <1>3, <2>1, TailGoes DEF Moves, Same
  <2>3. TailAt'
    <3>1. \E at \in Final : InOne(at, mark)'
      BY <2>2 DEF Final
    <3> QED BY <1>3, <3>1 DEF TailAt, Moves, Reading, Same
  <2> QED BY <2>2, <2>3 DEF TailFollows, InStep
<1>4. CASE c = ":"
  <2>1. Leads("end_text", 0, c) = {} /\ "end_text" \notin Final
    BY <1>4 DEF Leads, Final, Word, Letter, Lower
  <2>2. RagelRefused
    BY <2>1, OneStuck DEF BothRead
  <2> QED BY <2>2 DEF TailFollows
<1>5. CASE c = "end" /\ basic'.result = "accepted" /\ Same /\ Counts(1)
  <2>1. OneLead("end_text", c, "tags_end", 0) /\ "tags_end" \in Final
    BY <1>5 DEF OneLead, Leads, Final, Word, Letter, Lower
  <2>2. basic.tags = ragel.tags /\ basic.tags \in Nat /\ ~marking /\ mark' = mark
    BY <1>5 DEF TailSame, BothRead, BasicType
  <2>3. ragel'.result = "accepted" /\ ragel'.mark = mark /\ RagelKeeps(1)
    BY <1>5, <2>1, <2>2, OneEnds DEF BothRead
  <2>4. TailSame' /\ TailEnd'
    BY <1>5, <2>2, <2>3 DEF TailSame, TailEnd, RagelKeeps, Same, Counts
  <2> QED BY <2>4 DEF TailFollows, InStep
<1> QED BY <1>1, <1>2, <1>3, <1>4, <1>5 DEF TailFollows

LEMMA TailGoesOn ==
    ASSUME NEW c \in Char, NEW marking, BothRead(c, marking), TailSame, TailAt
    PROVE  TailFollows
<1>1. \/ Reading("divider", FALSE) /\ InOne("bar", mark)
      \/ basic.past_type /\ Reading("tag_key", FALSE) /\ \E at \in Final : InOne(at, mark)
      \/ basic.past_type /\ Reading("tag_key", TRUE) /\ InOne("end_key", mark)
      \/ basic.past_type /\ Reading("tag_value", FALSE) /\ InOne("end_no_text", mark)
      \/ basic.past_type /\ Reading("tag_value", TRUE) /\ InOne("end_text", mark)
  BY DEF TailAt, Reading
<1>2. basic.result = "reading"
  BY DEF TailAt
<1> QED BY <1>1, <1>2, TailFromDivider, TailFromNoKey, TailFromKey, TailFromNoText, TailFromText

\* Where both parsers are lenient.
LEMMA BothLenient ==
    ASSUME NEW at, NEW c, Lenient("basic", at, c), Lenient("ragel", at, c)
    PROVE  \/ at = "type" /\ c \in {"end", "|"}
           \/ at = "end_no_key" /\ c \in {"=", ":"}
<1>1. /\ DOMAIN Lenience("basic") =
           {"start", "no_key", "no_text", "sign", "point", "value", "m", "type", "bar",
            "end_no_key", "end_key", "end_no_text", "end_text"}
      /\ DOMAIN Lenience("ragel") =
           {"no_key", "key", "number", "whole", "point", "fraction", "type", "end_no_key"}
  BY DEF Lenience
<1>2. /\ Lenience("basic")["no_key"] = {"="} /\ Lenience("basic")["point"] = {"|"}
      /\ Lenience("basic")["type"] = {"end", "|"}
      /\ Lenience("basic")["end_no_key"] = {"=", ":"}
  BY DEF Lenience
<1>3. /\ Lenience("ragel")["no_key"] = {"+", "-"}
      /\ Lenience("ragel")["point"] = (Word \ {"digit"}) \cup {"="}
  BY DEF Lenience
<1>4. at \in {"no_key", "point", "type", "end_no_key"}
  BY <1>1 DEF Lenient
<1> QED BY <1>2, <1>3, <1>4 DEF Lenient, Word, Letter, Lower

LEMMA TailFromType ==
    ASSUME NEW c \in {"end", "|"}, NEW marking, BothRead(c, marking), BasicAt, RagelAt,
           documented.at = "type"
    PROVE  TailFollows
<1>1. /\ basic.result = "reading" /\ basic.segment_type = "type"
      /\ basic.length > 0 /\ basic.length # 0 /\ ~basic.past_type /\ mark = documented.mark
      /\ basic.tags = documented.tags /\ basic.explicit_sign = documented.sign
      /\ basic.type = documented.type
  BY DEF BasicAt, BasicSegment, BasicDatagram, BasicLetters, Reading, AtBack, AtFront, AtNumber
<1>2. /\ InOne("type", mark)
      /\ ragel.tags = documented.tags /\ ragel.explicit_sign = documented.sign
      /\ ragel.type = documented.type
  <2>1. RagelOn("type") /\ ragel.result = "reading"
    BY DEF RagelAt, RagelPlaces, RagelDatagram, OnePlace
  <2> QED BY <1>1, <2>1 DEF RagelOn, RagelIn, InOne, RagelAt, RagelDatagram
<1>3. TailSame /\ basic.tags \in Nat /\ ragel.tags \in Nat
  BY <1>1, <1>2 DEF TailSame, BothRead, BasicType
<1>4. c \in Char /\ BasicType /\ BasicRead(c)
  BY DEF Char, BothRead
<1>5. CASE c = "|"
  <2>1. Turns("divider")
    BY <1>1, <1>4, <1>5, TypeReads
  <2>2. OneLead("type", c, "bar", 0) /\ c # "end"
    BY <1>5 DEF OneLead, Leads, Final
  <2>3. TailSame' /\ InOne("bar", mark)'
    BY <1>1, <1>2, <1>3, <2>1, <2>2, TailGoes DEF Turns, Moves, Same
  <2>4. TailAt'
    BY <1>1, <2>1, <2>3 DEF TailAt, Turns, Moves, Reading, Same
  <2> QED BY <2>3, <2>4 DEF TailFollows, InStep
<1>6. CASE c = "end"
  <2>1. basic'.result = "accepted" /\ Same /\ Counts(0)
    BY <1>1, <1>4, <1>6, TypeReads
  <2>2. OneLead("type", c, "terminated", 0) /\ "terminated" \in Final
    BY <1>6 DEF OneLead, Leads, Final
  <2>3. ~marking /\ mark' = mark /\ RagelType /\ RagelRead(c, marking)
    BY <1>6 DEF BothRead
  <2>4. ragel'.result = "accepted" /\ ragel'.mark = mark /\ RagelKeeps(0)
    BY <1>2, <1>3, <1>6, <2>2, <2>3, OneEnds
  <2>5. TailSame' /\ TailEnd'
    BY <1>3, <2>1, <2>3, <2>4 DEF TailSame, TailEnd, RagelKeeps, Same, Counts
  <2> QED BY <2>5 DEF TailFollows, InStep
<1> QED BY <1>5, <1>6

\* How a line that is not documented comes to be read on by both.
LEMMA TailBegins ==
    ASSUME NEW c \in Char, NEW marking, BothRead(c, marking), BasicAt, RagelAt \/ RagelLong,
           GrammarLeaves(c), BasicFollows(c), RagelFollows(c)
    PROVE  TailFollows
<1>1. CASE Refused \/ RagelRefused
  BY <1>1 DEF TailFollows
<1>2. CASE ~Refused /\ ~RagelRefused
  <2>1. Lenient("basic", documented.at, c) /\ Lenient("ragel", documented.at, c)
    BY <1>2 DEF BasicFollows, RagelFollows, GrammarLeaves
  <2>2. CASE documented.at = "type" /\ c \in {"end", "|"}
    BY <2>2, TailFromType DEF RagelLong
  <2>3. CASE documented.at = "end_no_key" /\ c \in {"=", ":"}
    <3>1. PICK at \in Final : RagelOn(at)
      BY <2>3 DEF RagelAt, RagelPlaces, RagelLong, OnePlace, Final
    <3>2. InOne(at, documented.mark)
      BY <2>3, <3>1 DEF RagelAt, RagelDatagram, RagelLong, RagelOn, RagelIn, InOne, Final
    <3>3. Leads(at, 0, c) = {} /\ c # "end"
      BY <2>3 DEF Leads, Final, Word, Letter, Lower
    <3>4. ragel'.result = "stopped"
      BY <3>2, <3>3, OneStuck DEF BothRead
    <3> QED BY <3>4 DEF TailFollows
  <2> QED BY <2>1, <2>2, <2>3, BothLenient
<1> QED BY <1>1, <1>2

-----------------------------------------------------------------------------
(* The invariant of the lines *)

\* While the line is documented both are where the grammar is, or a number of it was
\* out of range or too long, ...
BasicInv ==
    documented.at # "refused" => BasicAt \/ (basic.result = "refused" /\ basic_errno)

RagelInv ==
    documented.at # "refused" =>
      \/ RagelAt \/ RagelLong
      \/ ragel.result = "refused" /\ (ragel_errno \/ documented.long)

\* ... and once it is not, a parser that has not refused it was lenient where it left
\* the grammar, and both that read on are in step.
LeftInv ==
    documented.at = "refused" =>
      /\ basic.result # "refused" => Lenient("basic", documented.refused[1], documented.refused[2])
      /\ ragel.result # "refused" => Lenient("ragel", documented.refused[1], documented.refused[2])

TailInv ==
    documented.at = "refused" /\ basic.result # "refused" /\ ragel.result \notin {"refused", "stopped"}
      => InStep

ReadingInv ==
    phase = "reading" =>
      basic.result # "accepted" /\ ragel.result # "accepted" /\ documented.at # "line"

LineType == BasicType /\ GrammarType /\ RagelType

LineInv ==
    /\ LineType
    /\ BasicInv /\ RagelInv /\ LeftInv /\ TailInv

\* Nothing but the end of a line is the end of it.
LEMMA BasicEnds ==
    ASSUME BasicType, NEW c \in Char, BasicRead(c), c # "end", basic.result # "accepted"
    PROVE  basic'.result # "accepted"
<1>1. CASE basic.result # "reading"
  BY <1>1 DEF BasicRead, Name, TagKey, TagValue, Value, Type, Divider
<1> SUFFICES ASSUME basic.result = "reading", basic'.result = "accepted" PROVE FALSE
  BY <1>1
<1>2. Continue => FALSE
  BY Continues DEF Moves
<1>3. Refuse => FALSE
  BY Refuses DEF Refused
<1>4. CASE basic.segment_type = "name"
  BY <1>4, NameReads DEF Stays, Turns, Moves, Refused
<1>5. CASE basic.segment_type = "tag_key"
  BY <1>5, TagKeyReads DEF Stays, Turns, Moves, Refused
<1>6. CASE basic.segment_type = "tag_value"
  BY <1>6, TagValueReads DEF Stays, Turns, Moves, Refused
<1>7. CASE basic.segment_type = "value"
  BY <1>7, ValueReads DEF Number, Moves, Refused
<1>8. CASE basic.segment_type = "type"
  <2>1. Type(c)
    BY <1>8 DEF BasicRead, Name, TagKey, TagValue, Value, Divider
  <2>2. CASE c = "|"
    <3>1. \E typed \in {basic, [basic EXCEPT !.type = TypeOf(c)]} :
             basic' = [typed EXCEPT !.segment_type = "divider", !.length = 0]
      BY <2>1, <2>2, Zenon DEF Type
    <3> QED BY <3>1 DEF BasicType
  <2>3. CASE c # "|"
    BY <1>8, <2>3, TypeReads DEF Stays, Turns, Moves, Refused
  <2> QED BY <2>2, <2>3
<1>9. CASE basic.segment_type = "divider"
  <2>1. Divider(c)
    BY <1>9 DEF BasicRead, Name, TagKey, TagValue, Value, Type
  <2>2. CASE c = "|"
    BY <1>2, <1>3, <2>1, <2>2 DEF Divider
  <2>3. CASE c # "|"
    BY <1>9, <2>3, DividerReads DEF Moves, Refused
  <2> QED BY <2>2, <2>3
<1> QED BY <1>4, <1>5, <1>6, <1>7, <1>8, <1>9 DEF BasicType, Segment

LEMMA RagelEnds ==
    ASSUME RagelType, NEW c, NEW marking, RagelRead(c, marking), c # "end",
           ragel.result # "accepted"
    PROVE  ragel'.result # "accepted"
<1>1. Fail => ragel'.result = "refused"
  BY DEF Fail, RagelStart
<1>2. CASE ragel.result # "reading" /\ UNCHANGED <<ragel, ragel_errno>>
  BY <1>2
<1>3. CASE Stuck(c)
  BY <1>1, <1>3 DEF Stuck, End, RagelType
<1>4. CASE ragel.result = "reading" /\ ValueParsed(c, marking)
  BY <1>1, <1>4 DEF ValueParsed, RagelType
<1>5. CASE ragel.result = "reading" /\ Advance(c, marking)
  BY <1>5 DEF Advance, RagelType
<1> QED BY <1>2, <1>3, <1>4, <1>5 DEF RagelRead

LineStart ==
    /\ basic = BasicStart /\ ragel = RagelStart /\ ragel_errno \in BOOLEAN
    /\ documented = GrammarStart /\ mark = Unmarked

LEMMA LineStarts ==
    LineStart => LineInv /\ basic.result = "reading" /\ ragel.result = "reading"
                 /\ documented.at = "start"
<1> SUFFICES ASSUME LineStart
             PROVE  LineInv /\ basic.result = "reading" /\ ragel.result = "reading"
                    /\ documented.at = "start"
  OBVIOUS
<1>1. BasicType
  <2>1. NoText \in TextOfValue
    BY DEF NoText, TextOfValue, Sign
  <2> QED BY <2>1 DEF LineStart, BasicStart, BasicType, Result, Segment, Length, Sign, ValueType
<1>2. GrammarType /\ documented.at = "start"
  BY DEF LineStart, GrammarStart, GrammarType, GrammarPlace, Sign
<1>3. RagelType /\ ragel.result = "reading"
  BY DEF LineStart, RagelStart, RagelType
<1>4. BasicAt /\ basic.result = "reading"
  <2>1. AtFront /\ ~AtNumber /\ ~AtBack
    BY <1>2 DEF AtFront, AtNumber, AtBack
  <2>2. BasicSegment
    BY <1>2, <2>1 DEF BasicSegment, Reading, LineStart, BasicStart
  <2>3. BasicDatagram
    BY <2>1 DEF BasicDatagram, LineStart, BasicStart, GrammarStart
  <2>4. BasicLetters
    BY <1>2, <2>1 DEF BasicLetters, LineStart, BasicStart
  <2> QED BY <2>2, <2>3, <2>4 DEF BasicAt, LineStart, BasicStart
<1>5. RagelAt
  <2>1. RagelPlaces
    BY <1>2 DEF RagelPlaces, OnePlace, RagelOn, RagelIn, LineStart, RagelStart, GrammarStart
  <2>2. RagelDatagram
    BY DEF RagelDatagram, LineStart, RagelStart, GrammarStart
  <2>3. RagelDigits
    BY DigitsAssumption DEF RagelDigits, LineStart, GrammarStart
  <2> QED BY <2>1, <2>2, <2>3 DEF RagelAt
<1> QED BY <1>1, <1>2, <1>3, <1>4, <1>5
   DEF LineInv, LineType, BasicInv, RagelInv, LeftInv, TailInv

\* A parser that is done with the line is done with it.
LEMMA Done ==
    ASSUME NEW c, NEW marking, BasicRead(c), RagelRead(c, marking)
    PROVE  /\ basic.result # "reading" => UNCHANGED <<basic, basic_errno>>
           /\ ragel.result # "reading" => UNCHANGED <<ragel, ragel_errno>>
BY DEF BasicRead, RagelRead

LEMMA LineLeft ==
    ASSUME LineInv, ReadingInv, phase = "reading", NEW c \in Char, NEW marking,
           BothRead(c, marking), LineType', documented.at = "refused", UNCHANGED documented
    PROVE  LineInv'
<1>1. BasicInv' /\ RagelInv'
  BY DEF BasicInv, RagelInv
<1>2. /\ basic.result = "refused" => basic'.result = "refused"
      /\ ragel.result \in {"refused", "stopped"} => ragel'.result = ragel.result
  BY Done DEF BothRead
<1>3. LeftInv'
  BY <1>2 DEF LineInv, LineType, LeftInv
<1>4. TailInv'
  <2> SUFFICES ASSUME basic'.result # "refused", ragel'.result \notin {"refused", "stopped"}
               PROVE  InStep'
    BY DEF TailInv
  <2>1. InStep /\ ~TailEnd
    BY <1>2 DEF LineInv, LineType, TailInv, ReadingInv, TailEnd
  <2>2. TailFollows
    BY <2>1, TailGoesOn DEF InStep
  <2> QED BY <2>2 DEF TailFollows, Refused, RagelRefused
<1> QED BY <1>1, <1>3, <1>4 DEF LineInv, LineType

LEMMA LineLeaves ==
    ASSUME LineInv, NEW c \in Char, NEW marking, BothRead(c, marking), LineType',
           documented.at \notin {"line", "refused"}, GrammarLeaves(c)
    PROVE  LineInv'
<1>1. BasicInv' /\ RagelInv' /\ documented'.refused = <<documented.at, c>>
  BY DEF BasicInv, RagelInv, GrammarLeaves
<1>2. /\ documented'.refused[1] = documented.at /\ documented'.refused[2] = c
      /\ documented'.at = "refused"
  BY <1>1 DEF GrammarLeaves
<1>3. BasicReads(c, marking) /\ RagelReads(c, marking)
  BY DEF BasicReads, RagelReads, BothRead, LineInv, LineType
<1>4. basic'.result # "refused" => BasicAt /\ BasicFollows(c)
  BY <1>3, Done, BasicFollowsGrammar DEF LineInv, LineType, BasicInv, BothRead
<1>5. ragel'.result # "refused" => (RagelAt \/ RagelLong) /\ RagelFollows(c)
  BY <1>3, Done, RagelFollowsGrammar, RagelFromLong DEF LineInv, LineType, RagelInv, BothRead
<1>6. LeftInv'
  BY <1>2, <1>4, <1>5 DEF LeftInv, BasicFollows, RagelFollows, Refused, RagelRefused
<1>7. TailInv'
  <2> SUFFICES ASSUME basic'.result # "refused", ragel'.result \notin {"refused", "stopped"}
               PROVE  InStep'
    BY DEF TailInv
  <2>1. TailFollows
    BY <1>4, <1>5, TailBegins
  <2> QED BY <2>1 DEF TailFollows, Refused, RagelRefused
<1> QED BY <1>1, <1>6, <1>7 DEF LineInv, LineType

LEMMA LineFollows ==
    ASSUME LineInv, NEW c \in Char, NEW marking, BothRead(c, marking), LineType',
           documented.at \notin {"line", "refused"},
           NEW to \in GrammarLeads(documented.at, c), GrammarTo(to, c, marking)
    PROVE  LineInv'
<1>1. documented'.at # "refused" /\ (documented.long => documented'.long)
  BY DEF GrammarTo, GrammarLeads, LineInv, LineType, GrammarType, GrammarPlace
<1>2. BasicReads(c, marking) /\ RagelReads(c, marking)
  BY DEF BasicReads, RagelReads, BothRead, LineInv, LineType
<1>3. BasicInv'
  <2>1. CASE BasicAt
    BY <1>1, <1>2, <2>1, BasicFollowsGrammar DEF BasicInv, BasicFollows, Refused
  <2>2. CASE basic.result = "refused" /\ basic_errno
    BY <2>2, Done DEF BasicInv, BothRead
  <2> QED BY <2>1, <2>2 DEF LineInv, LineType, BasicInv
<1>4. RagelInv'
  <2>1. CASE RagelAt \/ RagelLong
    BY <1>1, <1>2, <2>1, RagelFollowsGrammar, RagelFromLong
       DEF RagelInv, RagelFollows, RagelRefused
  <2>2. CASE ragel.result = "refused" /\ (ragel_errno \/ documented.long)
    BY <1>1, <2>2, Done DEF RagelInv, BothRead
  <2> QED BY <2>1, <2>2 DEF LineInv, LineType, RagelInv
<1>5. LeftInv' /\ TailInv'
  BY <1>1 DEF LeftInv, TailInv
<1> QED BY <1>3, <1>4, <1>5 DEF LineInv, LineType

LEMMA LineRead ==
    ASSUME LineInv, ReadingInv, ReadChar
    PROVE  LineInv' /\ ReadingInv'
<1>1. PICK c \in Char, marking \in BOOLEAN :
        /\ marking => c # "end"
        /\ BasicRead(c) /\ RagelRead(c, marking) /\ GrammarRead(c, marking)
        /\ mark' = IF marking THEN BasicField ELSE mark
        /\ phase' = IF c = "end" THEN "parsed" ELSE "reading"
  BY DEF ReadChar
<1>2. BothRead(c, marking) /\ phase = "reading"
  BY <1>1 DEF BothRead, LineInv, LineType, ReadChar
<1>3. /\ GrammarType'
      /\ \/ documented.at \in {"line", "refused"} /\ UNCHANGED documented
         \/ /\ documented.at \notin {"line", "refused"}
            /\ \/ GrammarLeaves(c)
               \/ \E to \in GrammarLeads(documented.at, c) : GrammarTo(to, c, marking)
  BY <1>1, GrammarMoves DEF LineInv, LineType
<1>4. BasicType' /\ RagelType'
  BY <1>1, BasicTypeKept, RagelTypeKept DEF LineInv, LineType
<1>5. LineType'
  BY <1>3, <1>4 DEF LineType
<1>6. documented.at # "line"
  BY <1>2 DEF ReadingInv
<1>7. LineInv'
  BY <1>2, <1>3, <1>5, <1>6, LineLeft, LineLeaves, LineFollows
<1>8. ReadingInv'
  <2>1. CASE c = "end"
    BY <1>1, <2>1 DEF ReadingInv
  <2>2. CASE c # "end"
    <3>1. basic'.result # "accepted" /\ ragel'.result # "accepted"
      BY <1>1, <1>2, <2>2, BasicEnds, RagelEnds DEF LineInv, LineType, ReadingInv
    <3>2. documented'.at # "line"
      <4>1. ASSUME NEW to \in GrammarLeads(documented.at, c), documented.at \notin {"line", "refused"}
            PROVE  to # "line"
        BY <2>2, <4>1 DEF GrammarLeads, LineInv, LineType, GrammarType, GrammarPlace
      <4> QED BY <1>3, <1>6, <4>1 DEF GrammarLeaves, GrammarTo
    <3> QED BY <3>1, <3>2 DEF ReadingInv
  <2> QED BY <2>1, <2>2
<1> QED BY <1>7, <1>8

LEMMA LineStep ==
    LineInv /\ ReadingInv /\ [Next]_vars => (LineInv /\ ReadingInv)'
<1> SUFFICES ASSUME LineInv, ReadingInv, [Next]_vars PROVE LineInv' /\ ReadingInv'
  OBVIOUS
<1>1. CASE ReadChar
  BY <1>1, LineRead
<1>2. CASE NextLine
  <2>1. LineStart'
    BY <1>2 DEF NextLine, LineStart, LineInv, LineType, RagelType
  <2>2. LineStart' => (LineInv /\ basic.result = "reading" /\ ragel.result = "reading"
                       /\ documented.at = "start")'
    BY LineStarts, PTL
  <2> QED BY <2>1, <2>2 DEF ReadingInv
<1>3. CASE UNCHANGED <<basic, basic_errno, ragel, ragel_errno, mark, documented>>
           /\ (phase' = "reading" => phase = "reading")
  <2>1. LineType'
    BY <1>3 DEF LineInv, LineType, BasicType, GrammarType, RagelType
  <2>2. BasicInv'
    <3>1. BasicAt => BasicAt'
      BY <1>3
         DEF BasicAt, BasicSegment, BasicDatagram, BasicLetters, Reading, AtFront, AtNumber, AtBack
    <3> QED BY <1>3, <3>1 DEF LineInv, BasicInv
  <2>3. RagelInv'
    <3>1. RagelAt => RagelAt'
      BY <1>3
         DEF RagelAt, RagelPlaces, RagelDatagram, RagelDigits, RagelOn, RagelIn, InNumber, AtFront
    <3>2. RagelLong => RagelLong'
      BY <1>3 DEF RagelLong
    <3> QED BY <1>3, <3>1, <3>2 DEF LineInv, RagelInv
  <2>4. LeftInv'
    BY <1>3 DEF LineInv, LeftInv
  <2>5. TailInv'
    <3>1. InStep => InStep'
      BY <1>3 DEF InStep, TailSame, TailAt, TailEnd, Reading, InOne
    <3> QED BY <1>3, <3>1 DEF LineInv, TailInv
  <2>6. ReadingInv'
    BY <1>3 DEF ReadingInv
  <2> QED BY <2>1, <2>2, <2>3, <2>4, <2>5, <2>6 DEF LineInv
<1>4. CASE SkipRest \/ Collect \/ UNCHANGED vars
  BY <1>3, <1>4 DEF SkipRest, Collect, vars
<1> QED BY <1>1, <1>2, <1>4 DEF Next

LEMMA LineInvariant == Spec => [](LineInv /\ ReadingInv)
<1>1. Init => LineInv /\ ReadingInv
  <2>1. Init => LineStart
    BY DEF Init, BasicInit, RagelInit, LineStart
  <2> QED BY <2>1, LineStarts DEF ReadingInv
<1> QED BY <1>1, LineStep, PTL DEF Spec

-----------------------------------------------------------------------------
(* The theorems *)

\* Whichever parser is configured (parser-basic.c or parser-ragel.rl), a line that both
\* accept becomes the same datagram: sign, type, number of tags, and every character in
\* the same field.
THEOREM AgreeCorrect == Spec => []ParsersAgree
<1>1. LineInv /\ ReadingInv => ParsersAgree
  <2> SUFFICES ASSUME LineInv, basic.result = "accepted", ragel.result = "accepted"
               PROVE  /\ basic.explicit_sign = ragel.explicit_sign /\ basic.type = ragel.type
                      /\ basic.tags = ragel.tags /\ mark = ragel.mark
    BY DEF ParsersAgree
  <2>1. CASE documented.at = "refused"
    <3>1. TailSame /\ TailEnd
      BY <2>1 DEF LineInv, TailInv, InStep, TailAt
    <3> QED BY <3>1 DEF TailSame, TailEnd
  <2>2. CASE documented.at # "refused"
    <3>1. BasicAt /\ RagelAt
      BY <2>2 DEF LineInv, BasicInv, RagelInv, RagelLong
    <3>2. documented.at = "line"
      BY <3>1 DEF BasicAt, BasicSegment
    <3> QED BY <3>1, <3>2 DEF BasicAt, BasicDatagram, RagelAt, RagelDatagram, RagelPlaces,
                             AtFront, AtNumber, OnePlace
  <2> QED BY <2>1, <2>2
<1> QED BY <1>1, LineInvariant, PTL

\* A line of the documented grammar is understood by both parsers, and as it is
\* documented, unless strtod has set errno or the number is longer than the Ragel
\* grammar allows.
THEOREM UnderstoodCorrect == Spec => []DocumentedUnderstood
<1>1. LineInv /\ ReadingInv => DocumentedUnderstood
  <2> SUFFICES ASSUME LineInv, documented.at = "line"
               PROVE  DocumentedUnderstood
    BY DEF DocumentedUnderstood
  <2>1. \/ basic_errno /\ basic.result = "refused"
        \/ /\ basic.result = "accepted" /\ basic.explicit_sign = documented.sign
           /\ basic.type = documented.type /\ basic.tags = documented.tags
           /\ mark = documented.mark
    BY DEF LineInv, BasicInv, BasicAt, BasicSegment, BasicDatagram, AtFront, AtNumber
  <2>2. \/ ragel.result = "refused" /\ (ragel_errno \/ documented.long)
        \/ /\ ragel.result = "accepted" /\ ragel.explicit_sign = documented.sign
           /\ ragel.type = documented.type /\ ragel.tags = documented.tags
           /\ ragel.mark = documented.mark
    BY DEF LineInv, RagelInv, RagelAt, RagelLong, RagelDatagram, RagelPlaces
  <2> QED BY <2>1, <2>2 DEF DocumentedUnderstood
<1> QED BY <1>1, LineInvariant, PTL

\* A line outside the documented grammar is refused by both parsers, but for the ways
\* out of it that Lenience lists for each.
THEOREM RefusedCorrect == Spec => []UndocumentedRefused
<1>1. LineInv /\ ReadingInv => UndocumentedRefused
  BY DEF LineInv, LeftInv, Lenient, UndocumentedRefused
<1> QED BY <1>1, LineInvariant, PTL

-----------------------------------------------------------------------------
(* The JSON of the tags: the loop of tag_collection_to_json writes at the last of   *)
(* each run of equal keys, and its places are listed in order (Lists).              *)

\* f lists the elements of T in ascending order.
Lists(f, n, T) ==
    /\ f \in [1..n -> T]
    /\ \A i, j \in 1..n : i < j => f[i] < f[j]
    /\ \A t \in T : \E i \in 1..n : f[i] = t

\* Every set of places can be listed.
LEMMA ListExists ==
    ASSUME NEW m \in Nat, NEW T, T \subseteq 1..m
    PROVE  \E n \in Nat : \E f : Lists(f, n, T)
<1> DEFINE Good == {k \in 1..(m + 1) :
                      \A U : U \subseteq 1..(k - 1) => \E n \in Nat : \E f : Lists(f, n, U)}
<1>1. ASSUME NEW k \in 1..(m + 1), k = 1 \/ k - 1 \in Good
      PROVE  k \in Good
  <2> SUFFICES ASSUME NEW U, U \subseteq 1..(k - 1)
               PROVE  \E n \in Nat : \E f : Lists(f, n, U)
    OBVIOUS
  <2>1. CASE U = {}
    <3> DEFINE g == [i \in 1..0 |-> 0]
    <3>1. Lists(g, 0, U)
      BY <2>1 DEF Lists
    <3> HIDE DEF g
    <3> QED BY <3>1
  <2>2. CASE U # {}
    <3>1. k - 1 \in Good /\ k - 1 \in Nat \ {0}
      <4>1. k # 1
        <5>1. k = 1 => 1..(k - 1) = {}
          OBVIOUS
        <5> QED BY <2>2, <5>1
      <4>2. k - 1 \in Good
        BY <1>1, <4>1
      <4> HIDE DEF Good
      <4> QED BY <4>1, <4>2
    <3>2. PICK n \in Nat : \E f : Lists(f, n, U \ {k - 1})
      <4>1. U \ {k - 1} \subseteq 1..((k - 1) - 1)
        BY <3>1
      <4> QED BY <3>1, <4>1
    <3>3. PICK f : Lists(f, n, U \ {k - 1})
      BY <3>2
    <3>4. CASE k - 1 \notin U
      <4>1. U \ {k - 1} = U
        BY <3>4
      <4> QED BY <3>3, <4>1
    <3>5. CASE k - 1 \in U
      <4> DEFINE g == [i \in 1..(n + 1) |-> IF i = n + 1 THEN k - 1 ELSE f[i]]
      <4>1. \A i \in 1..n : f[i] \in U /\ f[i] # k - 1 /\ f[i] \in 1..(k - 1)
        BY <3>3 DEF Lists
      <4>2. g \in [1..(n + 1) -> U]
        BY <3>5, <4>1
      <4>3. \A i, j \in 1..(n + 1) : i < j => g[i] < g[j]
        BY <3>1, <3>3, <4>1 DEF Lists
      <4>4. \A t \in U : \E i \in 1..(n + 1) : g[i] = t
        <5> SUFFICES ASSUME NEW t \in U PROVE \E i \in 1..(n + 1) : g[i] = t
          OBVIOUS
        <5>1. CASE t = k - 1
          <6>1. n + 1 \in 1..(n + 1) /\ g[n + 1] = k - 1
            OBVIOUS
          <6> QED BY <5>1, <6>1
        <5>2. CASE t # k - 1
          <6>1. PICK i \in 1..n : f[i] = t
            BY <3>3, <5>2 DEF Lists
          <6>2. i \in 1..(n + 1) /\ g[i] = t
            BY <6>1
          <6> QED BY <6>2
        <5> QED BY <5>1, <5>2
      <4>5. Lists(g, n + 1, U)
        BY <4>2, <4>3, <4>4 DEF Lists
      <4> HIDE DEF g
      <4> QED BY <4>5
    <3> QED BY <3>4, <3>5
  <2> QED BY <2>1, <2>2
<1> HIDE DEF Good
<1>2. \A k \in 1..(m + 1) : k \in Good
  BY <1>1, InductUpTo
<1>3. m + 1 \in Good
  BY <1>2
<1>4. T \subseteq 1..((m + 1) - 1)
  OBVIOUS
<1> QED BY <1>3, <1>4 DEF Good

\* The loop of tag_collection_to_json comes to each of its places once, in order.
LEMMA InOrderLists ==
    ASSUME NEW m \in Nat, NEW T, T \subseteq 1..m
    PROVE  Cardinality(T) \in Nat /\ Lists(InOrder(T), Cardinality(T), T)
<1>1. PICK n \in Nat : \E f : Lists(f, n, T)
  BY ListExists
<1>2. PICK f : Lists(f, n, T)
  BY <1>1
<1>3. \A i \in 1..n : f[i] \in Nat
  <2>1. f \in [1..n -> T] /\ T \subseteq Nat
    BY <1>2 DEF Lists
  <2> QED BY <2>1
<1>4. f \in Bijection(1..n, T)
  <2>1. \A i, j \in 1..n : f[i] = f[j] => i = j
    BY <1>2, <1>3 DEF Lists
  <2>2. f \in [1..n -> T] /\ DOMAIN f = 1..n
    BY <1>2 DEF Lists
  <2> QED BY <1>2, <2>1, <2>2 DEF Lists, Bijection, Injection, Surjection, IsInjective
<1>5. IsFiniteSet(1..n) /\ Cardinality(1..n) = n
  BY FS_Interval
<1>6. IsFiniteSet(T) /\ Cardinality(T) = n
  BY <1>4, <1>5, FS_Bijection DEF ExistsBijection
<1>7. \E g \in [1..n -> T] : \A i, j \in DOMAIN g : i < j => g[i] < g[j]
  BY <1>2 DEF Lists
<1>8. PICK g : g = InOrder(T)
  OBVIOUS
<1>9. g \in [1..n -> T] /\ \A i, j \in DOMAIN g : i < j => g[i] < g[j]
  BY <1>6, <1>7, <1>8, Zenon DEF InOrder
<1>10. DOMAIN g = 1..n
  BY <1>9
<1>11. g \in Injection(1..n, T)
  <2>1. \A i \in 1..n : g[i] \in Nat
    <3>1. T \subseteq Nat
      OBVIOUS
    <3> QED BY <1>9, <3>1
  <2>2. \A i, j \in 1..n : g[i] = g[j] => i = j
    BY <1>9, <1>10, <2>1
  <2> QED BY <1>9, <1>10, <2>2 DEF Injection, IsInjective
<1>12. g \in Surjection(1..n, T)
  BY <1>5, <1>6, <1>11, FS_Injection
<1>13. \A t \in T : \E i \in 1..n : g[i] = t
  BY <1>12 DEF Surjection
<1>14. Lists(g, n, T)
  BY <1>9, <1>10, <1>13 DEF Lists
<1> QED BY <1>6, <1>8, <1>14

-----------------------------------------------------------------------------
(* What the loop writes *)

TagRecord == [key : Key, value : TagText]

\* s is what sorting n tags by their keys, by p, has left.
Sorted(s, p, n, tags) == s = [i \in 1..n |-> tags[p[i]]]

\* The key at a place.
KeyAt(s, i) == s[i].key

\* Equal keys have kept their order.
Kept(s, p, n) == \A i, j \in 1..n : i < j /\ KeyAt(s, i) = KeyAt(s, j) => p[i] < p[j]

\* p leads to every place, and s has there what tags had.
Permutes(p, n) == (\A i \in 1..n : p[i] \in 1..n) /\ \A x \in 1..n : \E i \in 1..n : p[i] = x

Rearranges(s, p, n, tags) ==
    \A i \in 1..n : p[i] \in 1..n /\ s[i] = tags[p[i]] /\ KeyAt(s, i) = KeyAt(tags, p[i])

KeptApart(s, p, n) == StableSort => Kept(s, p, n)

LEMMA SortedIs ==
    ASSUME NEW n \in Nat, NEW tags \in [1..n -> TagRecord], NEW p \in Orders(tags),
           NEW s, Sorted(s, p, n, tags)
    PROVE  /\ Permutes(p, n) /\ Rearranges(s, p, n, tags)
           /\ \A i \in 1..n : KeyAt(s, i) \in Nat
           /\ \A i, j \in 1..n : i < j => KeyAt(s, i) <= KeyAt(s, j)
           /\ KeptApart(s, p, n)
<1>1. DOMAIN tags = 1..n /\ DOMAIN s = 1..n
  BY DEF Sorted
<1>2. /\ p \in [1..n -> 1..n]
      /\ \A i, j \in 1..n : p[i] = p[j] => i = j
      /\ \A i, j \in 1..n : i < j =>
           \/ KeyAt(tags, p[i]) < KeyAt(tags, p[j])
           \/ KeyAt(tags, p[i]) = KeyAt(tags, p[j]) /\ (StableSort => p[i] < p[j])
  BY <1>1, Zenon DEF Orders, KeyAt
<1>3. \A i \in 1..n : p[i] \in 1..n /\ s[i] = tags[p[i]] /\ KeyAt(s, i) = KeyAt(tags, p[i])
  BY <1>2 DEF Sorted, KeyAt
<1>4. \A x \in 1..n : KeyAt(tags, x) \in Nat
  BY TagAssumption DEF TagRecord, KeyAt
<1>5. \A x \in 1..n : \E i \in 1..n : p[i] = x
  <2>1. p \in Injection(1..n, 1..n)
    BY <1>2 DEF Injection, IsInjective
  <2>2. IsFiniteSet(1..n)
    BY FS_Interval
  <2>3. p \in Surjection(1..n, 1..n)
    BY <2>1, <2>2, FS_Injection
  <2> QED BY <2>3 DEF Surjection
<1>6. ASSUME NEW i \in 1..n, NEW j \in 1..n, i < j
      PROVE  /\ KeyAt(s, i) <= KeyAt(s, j)
             /\ StableSort /\ KeyAt(s, i) = KeyAt(s, j) => p[i] < p[j]
  <2>1. KeyAt(s, i) \in Nat /\ KeyAt(s, j) \in Nat
    BY <1>3, <1>4
  <2>2. \/ KeyAt(s, i) < KeyAt(s, j)
        \/ KeyAt(s, i) = KeyAt(s, j) /\ (StableSort => p[i] < p[j])
    BY <1>2, <1>3, <1>6, Zenon
  <2>3. CASE KeyAt(s, i) < KeyAt(s, j)
    BY <2>1, <2>3
  <2>4. CASE KeyAt(s, i) = KeyAt(s, j) /\ (StableSort => p[i] < p[j])
    <3>1. KeyAt(s, i) <= KeyAt(s, j)
      BY <2>1, <2>4
    <3> QED BY <2>4, <3>1, Zenon
  <2> QED BY <2>2, <2>3, <2>4
<1>7. \A i \in 1..n : KeyAt(s, i) \in Nat
  BY <1>3, <1>4
<1>8. KeptApart(s, p, n)
  BY <1>6, Zenon DEF KeptApart, Kept
<1>9. Permutes(p, n) /\ Rearranges(s, p, n, tags)
  BY <1>3, <1>5, Zenon DEF Permutes, Rearranges
<1> QED BY <1>6, <1>7, <1>8, <1>9, Zenon

\* Where the loop writes: at the last of each run of equal keys.
LastOfKey(s, n) == {i \in 1..n : i = n \/ KeyAt(s, i + 1) # KeyAt(s, i)}

\* The loop writes N of the pairs of s, at the places g lists.
Writes(s, n, g, N) ==
    /\ Lists(g, N, LastOfKey(s, n))
    /\ Written(s) = [a \in 1..N |-> s[g[a]]]

LEMMA WrittenIs ==
    ASSUME NEW n \in Nat, NEW s, DOMAIN s = 1..n, Len(s) = n
    PROVE  \E g : \E N \in Nat : Writes(s, n, g, N)
<1>1. LastOfKey(s, n) = {i \in DOMAIN s : i = Len(s) \/ s[i + 1].key # s[i].key}
  BY DEF LastOfKey, KeyAt
<1>2. LastOfKey(s, n) \subseteq 1..n
  BY DEF LastOfKey
<1>3. /\ Cardinality(LastOfKey(s, n)) \in Nat
      /\ Lists(InOrder(LastOfKey(s, n)), Cardinality(LastOfKey(s, n)), LastOfKey(s, n))
  BY <1>2, InOrderLists
<1>4. Written(s) = [a \in 1..Cardinality(LastOfKey(s, n)) |-> s[InOrder(LastOfKey(s, n))[a]]]
  BY <1>1, Zenon DEF Written, At
<1> QED BY <1>3, <1>4, Zenon DEF Writes

\* The pairs written have ascending keys.
LEMMA WrittenAscends ==
    ASSUME NEW n \in Nat, NEW s, NEW N \in Nat, NEW g, Lists(g, N, LastOfKey(s, n)),
           \A i \in 1..n : KeyAt(s, i) \in Nat,
           \A i, j \in 1..n : i < j => KeyAt(s, i) <= KeyAt(s, j)
    PROVE  \A a, b \in 1..N : a < b => KeyAt(s, g[a]) < KeyAt(s, g[b])
<1> SUFFICES ASSUME NEW a \in 1..N, NEW b \in 1..N, a < b
             PROVE  KeyAt(s, g[a]) < KeyAt(s, g[b])
  OBVIOUS
<1>1. PICK x : x = g[a]
  OBVIOUS
<1>2. PICK y : y = g[b]
  OBVIOUS
<1>3. x \in LastOfKey(s, n) /\ y \in LastOfKey(s, n) /\ x < y
  BY <1>1, <1>2 DEF Lists
<1>4. x \in 1..n /\ y \in 1..n /\ (x = n \/ KeyAt(s, x + 1) # KeyAt(s, x))
  BY <1>3 DEF LastOfKey
<1>5. x + 1 \in 1..n /\ x < x + 1 /\ x # n /\ (x + 1 = y \/ x + 1 < y)
  BY <1>3, <1>4
<1>6. KeyAt(s, x) <= KeyAt(s, x + 1) /\ KeyAt(s, x + 1) <= KeyAt(s, y)
  BY <1>4, <1>5
<1>7. KeyAt(s, x) \in Nat /\ KeyAt(s, x + 1) \in Nat /\ KeyAt(s, y) \in Nat
  BY <1>4, <1>5
<1>8. KeyAt(s, x) < KeyAt(s, y)
  BY <1>4, <1>5, <1>6, <1>7
<1> QED BY <1>1, <1>2, <1>8

\* What is written for a key was given last, when equal keys keep their order.
LEMMA WrittenIsLast ==
    ASSUME NEW n \in Nat, NEW s, NEW tags, NEW p, NEW x \in LastOfKey(s, n),
           Permutes(p, n), Rearranges(s, p, n, tags),
           \A i \in 1..n : KeyAt(s, i) \in Nat,
           \A i, j \in 1..n : i < j => KeyAt(s, i) <= KeyAt(s, j),
           Kept(s, p, n), NEW j \in 1..n, j > p[x]
    PROVE  KeyAt(tags, j) # KeyAt(s, x)
<1> SUFFICES ASSUME KeyAt(tags, j) = KeyAt(s, x) PROVE FALSE
  OBVIOUS
<1>1. x \in 1..n /\ (x = n \/ KeyAt(s, x + 1) # KeyAt(s, x))
  BY DEF LastOfKey
<1>2. PICK z \in 1..n : p[z] = j
  BY DEF Permutes
<1>3. KeyAt(s, z) = KeyAt(s, x) /\ KeyAt(s, z) \in Nat
  BY <1>2 DEF Rearranges
<1>4. p[x] \in Int /\ p[z] \in Int /\ p[z] > p[x]
  BY <1>1, <1>2 DEF Permutes
<1>5. ~(z < x) /\ z # x
  BY <1>1, <1>3, <1>4 DEF Kept
<1>6. x + 1 \in 1..n /\ x < x + 1 /\ x # n /\ (x + 1 = z \/ x + 1 < z)
  BY <1>1, <1>5
<1>7. KeyAt(s, x) <= KeyAt(s, x + 1) /\ KeyAt(s, x + 1) <= KeyAt(s, z)
  BY <1>1, <1>3, <1>6
<1>8. KeyAt(s, x + 1) \in Nat
  BY <1>6
<1>9. KeyAt(s, x + 1) # KeyAt(s, x)
  BY <1>1, <1>6
<1> QED BY <1>3, <1>7, <1>8, <1>9

\* Every key is written.
LEMMA KeyWritten ==
    ASSUME NEW n \in Nat, NEW s, NEW k, NEW x \in 1..n, KeyAt(s, x) = k
    PROVE  \E y \in LastOfKey(s, n) : KeyAt(s, y) = k
<1> DEFINE Sharing == {y \in 1..n : KeyAt(s, y) = k}
<1>1. Sharing \subseteq 0..n /\ x \in Sharing
  OBVIOUS
<1>2. PICK y \in Sharing : \A z \in Sharing : z <= y
  BY <1>1, GreatestUpTo
<1>3. CASE y = n
  BY <1>3 DEF LastOfKey
<1>4. CASE y # n
  <2>1. y \in 1..n /\ y + 1 \in 1..n /\ ~(y + 1 <= y)
    BY <1>4
  <2>2. y + 1 \notin Sharing
    BY <1>2, <2>1
  <2> QED BY <2>1, <2>2 DEF LastOfKey
<1> QED BY <1>3, <1>4

\* All that is written for tags whose equal keys kept their order.
WrittenFor(W, N, tags, n) ==
    /\ W \in Seq(TagRecord) /\ DOMAIN W = 1..N /\ Len(W) = N
    /\ \A a, b \in 1..N : a < b => KeyAt(W, a) < KeyAt(W, b)
    /\ \A a \in 1..N : \E i \in 1..n :
         /\ tags[i] = W[a]
         /\ \A j \in 1..n : j > i => KeyAt(tags, j) # KeyAt(W, a)
    /\ \A i \in 1..n : \E a \in 1..N : KeyAt(W, a) = KeyAt(tags, i)

LEMMA WrittenTags ==
    ASSUME NEW n \in Nat, NEW tags \in [1..n -> TagRecord], NEW p \in Orders(tags),
           NEW s, Sorted(s, p, n, tags), Kept(s, p, n)
    PROVE  \E N \in Nat : WrittenFor(Written(s), N, tags, n)
<1>1. \A i \in 1..n : p[i] \in 1..n /\ s[i] = tags[p[i]] /\ KeyAt(s, i) = KeyAt(tags, p[i])
  BY SortedIs DEF Rearranges
<1>2. \A i \in 1..n : KeyAt(s, i) \in Nat
  BY SortedIs
<1>3. \A x \in 1..n : \E i \in 1..n : p[i] = x
  BY SortedIs DEF Permutes
<1>4. \A i, j \in 1..n : i < j => KeyAt(s, i) <= KeyAt(s, j)
  BY SortedIs
<1>5. s \in Seq(TagRecord) /\ DOMAIN s = 1..n /\ Len(s) = n
  <2>1. s = [i \in 1..n |-> tags[p[i]]]
    BY DEF Sorted
  <2>2. \A i \in 1..n : tags[p[i]] \in TagRecord
    BY <1>1
  <2> QED BY <2>1, <2>2
<1>6. PICK g : \E N \in Nat : Writes(s, n, g, N)
  BY <1>5, WrittenIs
<1>7. PICK N \in Nat :
        /\ Lists(g, N, LastOfKey(s, n))
        /\ Written(s) = [a \in 1..N |-> s[g[a]]]
  BY <1>6 DEF Writes
<1>8. PICK W : W = Written(s)
  OBVIOUS
<1>9. \A a \in 1..N : g[a] \in LastOfKey(s, n) /\ g[a] \in 1..n
  BY <1>7 DEF Lists, LastOfKey
<1>10. W \in Seq(TagRecord) /\ DOMAIN W = 1..N /\ Len(W) = N
  <2>1. \A a \in 1..N : s[g[a]] \in TagRecord
    BY <1>5, <1>9
  <2> QED BY <1>7, <1>8, <2>1
<1>11. \A a \in 1..N : W[a] = s[g[a]] /\ KeyAt(W, a) = KeyAt(s, g[a])
  BY <1>7, <1>8 DEF KeyAt
<1>12. \A a, b \in 1..N : a < b => KeyAt(W, a) < KeyAt(W, b)
  <2>1. \A a, b \in 1..N : a < b => KeyAt(s, g[a]) < KeyAt(s, g[b])
    BY <1>2, <1>4, <1>7, WrittenAscends
  <2> QED BY <1>11, <2>1
<1>13. ASSUME NEW a \in 1..N
       PROVE  \E i \in 1..n :
                /\ tags[i] = W[a]
                /\ \A j \in 1..n : j > i => KeyAt(tags, j) # KeyAt(W, a)
  <2>1. PICK x \in LastOfKey(s, n) : x = g[a] /\ x \in 1..n
    BY <1>9
  <2>2. p[x] \in 1..n /\ tags[p[x]] = W[a] /\ KeyAt(W, a) = KeyAt(s, x)
    BY <1>1, <1>11, <2>1
  <2>3. Permutes(p, n) /\ Rearranges(s, p, n, tags)
    BY SortedIs
  <2>4. ASSUME NEW j \in 1..n, j > p[x]
        PROVE  KeyAt(tags, j) # KeyAt(s, x)
    BY <1>2, <1>4, <2>3, <2>4, WrittenIsLast
  <2> QED BY <2>2, <2>4
<1>14. ASSUME NEW i \in 1..n
       PROVE  \E a \in 1..N : KeyAt(W, a) = KeyAt(tags, i)
  <2>1. PICK x \in 1..n : p[x] = i
    BY <1>3
  <2>2. KeyAt(s, x) = KeyAt(tags, i)
    BY <1>1, <2>1
  <2>3. PICK y \in LastOfKey(s, n) : KeyAt(s, y) = KeyAt(tags, i)
    BY <2>2, KeyWritten
  <2>4. PICK a \in 1..N : g[a] = y
    BY <1>7, <2>3 DEF Lists
  <2> QED BY <1>11, <2>3, <2>4
<1>15. WrittenFor(W, N, tags, n)
  BY <1>10, <1>12, <1>13, <1>14 DEF WrittenFor
<1> QED BY <1>8, <1>15

\* So there are as many pairs as keys.
LEMMA AsManyAsKeys ==
    ASSUME NEW n \in Nat, NEW N \in Nat, NEW tags \in [1..n -> TagRecord], NEW W,
           WrittenFor(W, N, tags, n)
    PROVE  Cardinality({tags[i].key : i \in DOMAIN tags}) = N
<1> DEFINE keys == {tags[i].key : i \in DOMAIN tags}
<1>1. keys = {KeyAt(tags, i) : i \in 1..n}
  BY DEF KeyAt
<1>2. PICK h : h = [a \in 1..N |-> KeyAt(W, a)]
  OBVIOUS
<1>3. \A a \in 1..N : KeyAt(W, a) \in Nat
  BY TagAssumption DEF WrittenFor, TagRecord, KeyAt
<1>4. ASSUME NEW a \in 1..N, NEW b \in 1..N, h[a] = h[b]
      PROVE  a = b
  <2>1. KeyAt(W, a) = KeyAt(W, b) /\ KeyAt(W, a) \in Nat
    BY <1>2, <1>3, <1>4
  <2>2. \A c, d \in 1..N : c < d => KeyAt(W, c) < KeyAt(W, d)
    BY DEF WrittenFor
  <2>3. ~(a < b) /\ ~(b < a)
    BY <2>1, <2>2
  <2> QED BY <2>3
<1>5. ASSUME NEW a \in 1..N
      PROVE  h[a] \in keys
  <2>1. PICK i \in 1..n : tags[i] = W[a]
    BY DEF WrittenFor
  <2>2. h[a] = KeyAt(tags, i)
    BY <1>2, <2>1 DEF KeyAt
  <2> HIDE DEF keys
  <2> QED BY <1>1, <2>2
<1>6. ASSUME NEW k \in keys
      PROVE  \E a \in 1..N : h[a] = k
  <2>1. PICK i \in 1..n : k = KeyAt(tags, i)
    BY <1>1
  <2>2. PICK a \in 1..N : KeyAt(W, a) = KeyAt(tags, i)
    BY DEF WrittenFor
  <2> QED BY <1>2, <2>1, <2>2
<1> HIDE DEF keys
<1>7. h \in Bijection(1..N, keys)
  <2>1. h \in [1..N -> keys] /\ DOMAIN h = 1..N
    BY <1>2, <1>5
  <2> QED BY <1>4, <1>6, <2>1 DEF Bijection, Injection, Surjection, IsInjective
<1>8. IsFiniteSet(1..N) /\ Cardinality(1..N) = N
  BY FS_Interval
<1>9. Cardinality(keys) = N
  BY <1>7, <1>8, FS_Bijection DEF ExistsBijection
<1> QED BY <1>9 DEF keys

\* That is all TagsAsDocumented says of them.
DocumentedBy(w, tags) ==
    LET keys == {tags[i].key : i \in DOMAIN tags}
        RightMost(k) == \E i \in DOMAIN tags :
                          /\ tags[i] = [key |-> k, value |-> w[CHOOSE n \in DOMAIN w : w[n].key = k].value]
                          /\ \A j \in DOMAIN tags : j > i => tags[j].key # k
    IN  \/ w = NoJson /\ Cardinality(keys) > JsonSize
        \/ /\ Cardinality(keys) <= JsonSize
           /\ Len(w) = Cardinality(keys)
           /\ \A i, j \in DOMAIN w : i < j => w[i].key < w[j].key
           /\ \A k \in keys : RightMost(k)

LEMMA CollectedAsDocumented ==
    ASSUME StableSort,
           NEW n \in Nat \ {0}, NEW tags \in [1..n -> TagRecord], NEW w \in Json(tags)
    PROVE  DocumentedBy(w, tags)
<1> DEFINE keys == {tags[i].key : i \in DOMAIN tags}
<1>1. DOMAIN tags = 1..n
  OBVIOUS
<1>2. PICK p \in Orders(tags) :
        w = LET pairs == Written([i \in DOMAIN tags |-> tags[p[i]]])
            IN  IF Len(pairs) > JsonSize THEN NoJson ELSE pairs
  BY DEF Json
<1>3. PICK s : s = [i \in 1..n |-> tags[p[i]]]
  OBVIOUS
<1>4. PICK W : W = Written(s)
  OBVIOUS
<1>5. w = IF Len(W) > JsonSize THEN NoJson ELSE W
  BY <1>1, <1>2, <1>3, <1>4
<1>6. Sorted(s, p, n, tags)
  BY <1>3 DEF Sorted
<1>7. Kept(s, p, n)
  <2>1. n \in Nat
    OBVIOUS
  <2>2. KeptApart(s, p, n)
    BY <1>6, <2>1, SortedIs
  <2> QED BY <2>2, Zenon DEF KeptApart
<1>8. PICK N \in Nat : WrittenFor(W, N, tags, n)
  BY <1>4, <1>6, <1>7, WrittenTags
<1>9. Cardinality(keys) = N /\ Len(W) = N
  <2>1. Len(W) = N
    BY <1>8 DEF WrittenFor
  <2> QED BY <1>8, <2>1, AsManyAsKeys
<1>10. CASE Len(W) > JsonSize
  BY <1>5, <1>9, <1>10 DEF DocumentedBy
<1>11. CASE ~(Len(W) > JsonSize)
  <2>1. w = W /\ N <= JsonSize
    BY <1>5, <1>9, <1>11, TagAssumption
  <2>2. DOMAIN w = 1..N /\ \A a \in DOMAIN w : w[a] = W[a]
    BY <1>8, <2>1 DEF WrittenFor
  <2>3. ASSUME NEW k \in keys
        PROVE  \E i \in DOMAIN tags :
                 /\ tags[i] = [key |-> k, value |-> w[CHOOSE a \in DOMAIN w : w[a].key = k].value]
                 /\ \A j \in DOMAIN tags : j > i => tags[j].key # k
    <3>1. PICK x \in 1..n : k = KeyAt(tags, x)
      BY <1>1 DEF KeyAt
    <3>2. PICK b \in 1..N : KeyAt(W, b) = k
      BY <1>8, <3>1 DEF WrittenFor
    <3>3. \E a \in DOMAIN w : w[a].key = k
      BY <2>1, <2>2, <3>2 DEF KeyAt
    <3>4. PICK a : a = CHOOSE c \in DOMAIN w : w[c].key = k
      OBVIOUS
    <3>5. a \in 1..N /\ w[a].key = k
      BY <2>2, <3>3, <3>4
    <3>6. PICK i \in 1..n : tags[i] = W[a] /\ \A j \in 1..n : j > i => KeyAt(tags, j) # KeyAt(W, a)
      BY <1>8, <3>5 DEF WrittenFor
    <3>7. W[a] = [key |-> W[a].key, value |-> W[a].value]
      BY <3>6 DEF TagRecord
    <3>8. tags[i] = [key |-> k, value |-> w[a].value]
      BY <2>1, <3>5, <3>6, <3>7
    <3>9. \A j \in DOMAIN tags : j > i => tags[j].key # k
      BY <1>1, <2>1, <3>5, <3>6 DEF KeyAt
    <3> QED BY <1>1, <3>4, <3>8, <3>9
  <2>4. \A i, j \in DOMAIN w : i < j => w[i].key < w[j].key
    BY <1>8, <2>1, <2>2 DEF WrittenFor, KeyAt
  <2> HIDE DEF keys
  <2>5. Len(w) = Cardinality(keys) /\ Cardinality(keys) <= JsonSize
    BY <1>9, <2>1
  <2> USE DEF keys
  <2> QED BY <2>3, <2>4, <2>5 DEF DocumentedBy
<1> QED BY <1>10, <1>11

-----------------------------------------------------------------------------
\* The tags collected and the JSON of the datagram belong together.
TagsInv ==
    phase = "collected"
      => \E n \in Nat \ {0} : /\ collection \in [1..n -> TagRecord]
                              /\ json \in Json(collection)

LEMMA TagsInvariant == Spec => []TagsInv
<1>1. Init => TagsInv
  BY DEF Init, TagsInv
<1>2. ASSUME LineInv, TagsInv, [Next]_vars
      PROVE  TagsInv'
  <2>1. CASE ReadChar \/ SkipRest \/ NextLine
    <3>1. phase' \in {"reading", "parsed"}
      BY <2>1 DEF ReadChar, SkipRest, NextLine
    <3> QED BY <3>1 DEF TagsInv
  <2>2. CASE Collect
    <3>1. basic.tags \in Nat \ {0}
      <4>1. basic.tags \in Nat
        BY <1>2 DEF LineInv, LineType, BasicType
      <4> QED BY <2>2, <4>1 DEF Collect
    <3>2. PICK tags \in [1..basic.tags -> TagRecord] : collection' = tags /\ json' \in Json(tags)
      BY <2>2 DEF Collect, TagRecord
    <3>3. PICK n : n = basic.tags
      OBVIOUS
    <3>4. collection' \in [1..n -> TagRecord] /\ json' \in Json(collection')
      BY <3>2, <3>3
    <3> QED BY <3>1, <3>3, <3>4 DEF TagsInv
  <2>3. CASE UNCHANGED vars
    BY <1>2, <2>3 DEF vars, TagsInv
  <2> QED BY <1>2, <2>1, <2>2, <2>3 DEF Next
<1> QED BY <1>1, <1>2, LineInvariant, PTL DEF Spec

\* With a sort that keeps equal keys in their order, as the C library's merge sort does,
\* tag_collection_to_json writes the tags of a line once each, in the order of their
\* keys and with the value given last, or none at all when they do not fit its buffer.
THEOREM TagsCorrect == ASSUME StableSort PROVE Spec => []TagsAsDocumented
<1>1. TagsInv => TagsAsDocumented
  <2> SUFFICES ASSUME TagsInv, phase = "collected" PROVE TagsAsDocumented
    BY DEF TagsAsDocumented
  <2>1. PICK n \in Nat \ {0} : collection \in [1..n -> TagRecord] /\ json \in Json(collection)
    BY DEF TagsInv
  <2>2. DocumentedBy(json, collection)
    BY <2>1, CollectedAsDocumented
  <2> QED BY <2>2, Zenon DEF TagsAsDocumented, DocumentedBy
<1> QED BY <1>1, TagsInvariant, PTL
=============================================================================
