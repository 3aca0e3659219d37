---------------------------- MODULE BasicParser ----------------------------
(***************************************************************************)
(* The hand-written automaton of parser-basic.c: parse() reads a line one  *)
(* character at a time and fills a datagram.  Characters are the classes   *)
(* its macros tell apart.  Of a number only its digits are counted: with   *)
(* more than Representable before its point or more than Normal behind it, *)
(* it may be out of range.                                                 *)
(***************************************************************************)
EXTENDS Naturals

CONSTANTS
    Representable,  \* digits any number may have before its point and be finite (308)
    Normal,         \* digits any number may have behind it and not be too small (307)
    MaxDigits       \* digits the Ragel grammar allows before and after it

ASSUME DigitsAssumption ==
    /\ Representable \in Nat \ {0} /\ Normal \in Nat
    /\ MaxDigits \in Nat
    /\ Representable <= MaxDigits

\* "lower" and "upper" stand for the letters without a meaning of their own.
Lower == {"lower", "c", "g", "m", "s"}

Letter == Lower \cup {"upper"}

Word == Letter \cup {"digit", "_", "."}       \* IS_ALPHANUMERIC, IS_ALLOWED_PUNCTUATION

Char == Word \cup {"+", "-", ",", ":", "=", "|", "#", "@", "other", "end"}

\* A count that no comparison tells from a larger one.
UpTo(n, cap) == IF n < cap THEN n ELSE cap

VARIABLES
    basic,          \* the local variables of parse() and the datagram it fills
    basic_errno     \* whether errno is ERANGE: it outlives the line

\* A new datagram and the initial values of parse().  Text is what the value
\* segment holds so far.
NoText == [sign |-> "none", whole |-> 0, fraction |-> 0, digit |-> FALSE]

BasicStart ==
    [result |-> "reading", segment_type |-> "name", length |-> 0, past_type |-> FALSE,
     dot_found |-> FALSE, text |-> NoText, tag_key |-> FALSE, tags |-> 0,
     explicit_sign |-> "none", type |-> "none"]

BasicInit == basic = BasicStart /\ basic_errno = FALSE

\* The datagram and the tags are freed.  The flags that say whether tag_key is
\* allocated are set with other bits than they are tested with: it is not freed.
Refuse == basic' = [BasicStart EXCEPT !.result = "refused", !.tag_key = basic.tag_key]

Continue == basic' = [basic EXCEPT !.length = UpTo(@ + 1, 2)]

Enter(segment) == [basic EXCEPT !.segment_type = segment, !.length = 0]

Name(c) ==
    /\ basic.segment_type = "name"
    /\ \/ basic.length = 0 /\ c \in Letter /\ Continue
       \/ basic.length > 0 /\ c \in Word /\ Continue
       \/ basic.length > 0 /\ c = "," /\ basic' = Enter("tag_key")
       \/ basic.length > 0 /\ c = ":" /\ basic' = Enter("value")
       \/ /\ IF basic.length = 0 THEN c \notin Letter ELSE c \notin Word \cup {",", ":"}
          /\ Refuse
    /\ UNCHANGED basic_errno

\* Mutant: a colon ends a key on either side of the value.
TagKeyColon(c) ==
    LET ends == c \in {"=", ":"}
    IN  /\ basic.segment_type = "tag_key"
        /\ \/ c \in Word /\ Continue
           \/ ends /\ basic' = [Enter("tag_value") EXCEPT !.tag_key = TRUE]
           \/ c \notin Word /\ ~ends /\ Refuse
        /\ UNCHANGED basic_errno

\* The length of a key or a value is not looked at.
TagKey(c) ==
    LET ends == c = "=" \/ (basic.past_type /\ c = ":")
    IN  /\ basic.segment_type = "tag_key"
        /\ \/ c \in Word /\ Continue
           \/ ends /\ basic' = [Enter("tag_value") EXCEPT !.tag_key = TRUE]
           \/ c \notin Word /\ ~ends /\ Refuse
        /\ UNCHANGED basic_errno

\* Mutant: the last tag of a line is not ended by its end.
TagValueNoEnd(c) ==
    LET next == Enter(IF c = "," THEN "tag_key" ELSE "value")
    IN  /\ basic.segment_type = "tag_value"
        /\ \/ c \in Word /\ Continue
           \/ c \in {",", ":"} /\ basic' = [next EXCEPT !.tags = @ + 1, !.tag_key = FALSE]
           \/ c \notin Word \cup {",", ":"} /\ Refuse
        /\ UNCHANGED basic_errno

\* A tag is added to the collection; past the type the end of the line ends it too,
\* and a colon leads to a value again.
TagValue(c) ==
    LET ends == c \in {",", ":"} \/ (basic.past_type /\ c = "end")
        next == Enter(IF c = "," THEN "tag_key" ELSE "value")
    IN  /\ basic.segment_type = "tag_value"
        /\ \/ c \in Word /\ Continue
           \/ /\ ends
              /\ basic' = [next EXCEPT !.tags = @ + 1, !.tag_key = FALSE,
                             !.result = IF c = "end" THEN "accepted" ELSE @]
           \/ c \notin Word /\ ~ends /\ Refuse
        /\ UNCHANGED basic_errno

\* Whether strtod sets errno: digits before the point may make the number overflow
\* or be leading zeros, and those behind it may be zeros before the first that counts.
OutOfRange(whole, fraction) ==
    IF whole > Representable \/ fraction > Normal THEN BOOLEAN ELSE {FALSE}

Digit ==
    LET whole == IF basic.dot_found THEN 0 ELSE 1
    IN  [basic.text EXCEPT !.digit = TRUE, !.whole = UpTo(@ + whole, Representable + 1),
                           !.fraction = UpTo(@ + 1 - whole, Normal + 1)]

\* strtod converts nothing when there is no digit.  errno is compared with ERANGE and
\* never cleared.
ParseValue ==
    LET text == basic.text
    IN  /\ \E out \in OutOfRange(text.whole, text.fraction) : basic_errno' = (basic_errno \/ out)
        /\ IF ~text.digit \/ basic_errno'
           THEN Refuse
           ELSE basic' = [Enter("type") EXCEPT !.explicit_sign = text.sign,
                                               !.dot_found = FALSE, !.text = NoText]

Value(c) ==
    LET first == basic.length = 0
        grown == [basic EXCEPT !.length = UpTo(@ + 1, 2)]
        dot   == ~first /\ ~basic.dot_found /\ c = "."
    IN  /\ basic.segment_type = "value"
        /\ \/ c = "digit" /\ basic' = [grown EXCEPT !.text = Digit] /\ UNCHANGED basic_errno
           \/ /\ first /\ c \in {"+", "-"}
              /\ basic' = [grown EXCEPT !.text.sign = IF c = "+" THEN "plus" ELSE "minus"]
              /\ UNCHANGED basic_errno
           \/ dot /\ basic' = [grown EXCEPT !.dot_found = TRUE] /\ UNCHANGED basic_errno
           \/ ~first /\ c = "|" /\ ParseValue
           \/ /\ c # "digit" /\ ~dot
              /\ c \notin (IF first THEN {"+", "-"} ELSE {"|"})
              /\ Refuse /\ UNCHANGED basic_errno

\* type is the letter at the segment's start; anything but m and g is a counter,
\* also the delimiter of an empty segment.
TypeOf(letter) ==
    CASE letter = "m" -> "duration" [] letter = "g" -> "gauge" [] OTHER -> "counter"

Type(c) ==
    LET first  == basic.length = 0
        second == basic.length = 1 /\ c = "s" /\ basic.type = "duration"
        typed  == IF first THEN [basic EXCEPT !.type = TypeOf(c)] ELSE basic
    IN  /\ basic.segment_type = "type"
        /\ \/ first /\ c \in {"m", "c", "g"} /\ basic' = [typed EXCEPT !.length = 1]
           \/ second /\ Continue
           \/ ~first /\ c = "end" /\ basic' = [basic EXCEPT !.result = "accepted"]
           \/ c = "|" /\ basic' = [typed EXCEPT !.segment_type = "divider", !.length = 0]
           \/ /\ c # "|" /\ ~second
              /\ c \notin (IF first THEN {"m", "c", "g"} ELSE {"end"})
              /\ Refuse
        /\ UNCHANGED basic_errno

Divider(c) ==
    /\ basic.segment_type = "divider"
    /\ \/ basic.length = 0 /\ c = "|" /\ Continue
       \/ c = "#" /\ basic' = [Enter("tag_key") EXCEPT !.past_type = TRUE]
       \/ c # "#" /\ ~(basic.length = 0 /\ c = "|") /\ Refuse
    /\ UNCHANGED basic_errno

\* One iteration of the loop over the line; nothing is read after an error.
BasicRead(c) ==
    \/ /\ basic.result = "reading"
       /\ \/ Name(c) \/ TagKey(c) \/ TagValue(c)
          \/ Value(c) \/ Type(c) \/ Divider(c)
    \/ basic.result # "reading" /\ UNCHANGED <<basic, basic_errno>>

\* The segment the character just read became part of.
BasicField ==
    IF basic.result = "reading" /\ basic'.result = "reading" /\ basic'.length > 0
    THEN <<basic.segment_type,
           IF basic.segment_type \in {"tag_key", "tag_value"} THEN basic.tags + 1 ELSE 0>>
    ELSE <<"none", 0>>
=============================================================================
