------------------------- MODULE ConfigSourcesProofs -------------------------
(***************************************************************************)
(* What the agent is configured with, for files and command lines of every *)
(* length: what the reader carries from line to line is what the file says *)
(* when it is read as a whole.                                             *)
(***************************************************************************)
EXTENDS ConfigSources, DataLemmas

-----------------------------------------------------------------------------
(* The invariant *)

\* What has been read.
ReadType ==
    /\ lines \in Seq(Line)
    /\ options \in Seq(Option)
    /\ phase \in {"file", "died", "command line", "usage", "configured", "released"}
    /\ phase = "file" => options = <<>>

\* The pairs lines may belong to, and whether one would at place i.
Heads == {j \in Pairs : ~Follows(j)}

Open(i) ==
    \E j \in Pairs :
      /\ j < i
      /\ \A k \in j + 1..i - 1 : ~(lines[k].kind = "section" /\ ~lines[k].indented)

\* What the reader carries from line to line is the name of the pair it is in.
PrevInv ==
    /\ Open(lineno) => Heads # {} /\ prev_name = lines[Max(Heads)].name
    /\ ~Open(lineno) => prev_name = NoName

ErrorInv == error = IF BadLines = {} THEN 0 ELSE Min(BadLines)

SettingsInv ==
    /\ settings \in [Setting -> Nat]
    /\ \A name \in Setting : settings[name] = ValueGiven(name)

\* The names the file gave are allocated, and the last one given is in use.
NameInv ==
    /\ allocated = {Heap(i) : i \in AssignedIn(Filename)}
    /\ debug_output_filename =
         IF OptionsFor(Filename) # {} THEN Argv(Max(OptionsFor(Filename)))
         ELSE IF AssignedIn(Filename) # {} THEN Heap(Max(AssignedIn(Filename)))
         ELSE Literal
    /\ phase = "released" => freed = {debug_output_filename}


-----------------------------------------------------------------------------
(* Lines that have been read keep their meaning *)

Names == Setting \cup {Filename, "unknown"}

LEMMA LineFacts ==
    ASSUME SettingAssumption, NEW line, line \in Line
    PROVE  /\ line.kind \in {"comment", "section", "open section", "pair", "bare"}
           /\ line.indented \in BOOLEAN
           /\ line.kind = "comment" => ~line.indented
           /\ line.kind = "pair" => line.name \in Names /\ line.value \in Nat
           /\ LeadingNumber(line) \in Nat
<1>1. 0 \in Nat /\ UintLimit \in Nat /\ \A v \in Number : v \in Nat
  BY DEF SettingAssumption, Number
<1>2. CASE line \in [kind : {"comment"}, indented : {FALSE}]
  BY <1>1, <1>2 DEF LeadingNumber
<1>3. CASE line \in [kind : {"section", "open section"}, indented : BOOLEAN]
  BY <1>1, <1>3 DEF LeadingNumber
<1>4. CASE line \in [kind : {"pair"}, indented : BOOLEAN,
                     name : Setting \cup {Filename, "unknown"}, value : Number]
  BY <1>1, <1>4 DEF LeadingNumber, Names
<1>5. CASE line \in [kind : {"bare"}, indented : BOOLEAN, value : Number]
  BY <1>1, <1>5 DEF LeadingNumber
<1>. QED
  BY <1>2, <1>3, <1>4, <1>5 DEF Line

LEMMA NamesDistinct ==
    ASSUME SettingAssumption
    PROVE  /\ NoName \notin Names
           /\ Filename \notin Setting /\ "unknown" \notin Setting /\ Filename # "unknown"
BY DEF SettingAssumption, Names, Filename, Flags

LEMMA ReadFacts ==
    ASSUME ReadType
    PROVE  /\ Len(lines) \in Nat /\ DOMAIN lines = 1..Len(lines)
           /\ Pairs \subseteq 1..Len(lines) /\ Pairs \subseteq Nat
<1>1. lines \in Seq(Line)
  BY DEF ReadType
<1>2. Len(lines) \in Nat /\ DOMAIN lines = 1..Len(lines)
  BY <1>1
<1>. QED
  BY <1>2 DEF Pairs

\* The first pair belongs to no other, so there is a pair to every line that assigns.
LEMMA HeadExists ==
    ASSUME ReadType, NEW j, j \in Pairs
    PROVE  \E h \in Heads : h <= j
<1>1. Pairs \subseteq Nat
  BY ReadFacts
<1>2. PICK h \in Pairs : \A i \in Pairs : h <= i
  BY <1>1, LeastNat
<1>3. ~ \E i \in Pairs : i < h
  BY <1>1, <1>2
<1>. QED
  BY <1>2, <1>3 DEF Heads, Follows

LEMMA PairOfFacts ==
    ASSUME ReadType, NEW i, i \in DOMAIN lines, Assigns(i)
    PROVE  /\ PairOf(i) = {h \in Heads : h <= i}
           /\ Max(PairOf(i)) \in Heads /\ Max(PairOf(i)) <= i
           /\ \A h \in Heads : h <= i => h <= Max(PairOf(i))
<1>1. Len(lines) \in Nat /\ DOMAIN lines = 1..Len(lines) /\ i \in 1..Len(lines)
  BY ReadFacts
<1>2. PairOf(i) = {h \in Heads : h <= i} /\ Heads \subseteq Pairs /\ Pairs \subseteq 1..Len(lines)
  BY <1>1 DEF PairOf, Heads, Pairs
<1>3. \E h \in Heads : h <= i
  <2>1. PICK j \in Pairs : j <= i
    BY <1>1, <1>2 DEF Assigns, Follows
  <2>2. PICK h \in Heads : h <= j
    BY <2>1, HeadExists
  <2>. QED
    BY <1>1, <1>2, <2>1, <2>2
<1>4. PairOf(i) \subseteq 1..Len(lines) /\ PairOf(i) # {}
  BY <1>2, <1>3
<1>5. Max(PairOf(i)) \in PairOf(i) /\ \A y \in PairOf(i) : y <= Max(PairOf(i))
  BY <1>1, <1>4, MaxExists
<1>. QED
  BY <1>2, <1>5


\* What has been read so far is not changed by one more line, at place m.
Grown(m, line) ==
    ReadType /\ ReadType' /\ m = lineno /\ line \in Line /\ lines' = Append(lines, line)

LEMMA OldLines ==
    ASSUME NEW m, NEW line, Grown(m, line)
    PROVE  /\ m \in Nat \ {0} /\ Len(lines) = m - 1 /\ lineno = m /\ lineno' = m + 1
           /\ DOMAIN lines = 1..m - 1 /\ DOMAIN lines' = 1..m
           /\ \A i \in 1..m - 1 : lines'[i] = lines[i]
           /\ lines'[m] = line
<1>1. lines \in Seq(Line) /\ line \in Line /\ lines' = Append(lines, line) /\ m = Len(lines) + 1
  BY DEF Grown, ReadType, lineno
<1>. QED
  BY <1>1 DEF lineno

LEMMA OldPairs ==
    ASSUME NEW m, NEW line, Grown(m, line)
    PROVE  /\ Pairs' = Pairs \cup (IF line.kind = "pair" THEN {m} ELSE {})
           /\ Pairs \subseteq 1..m - 1
           /\ \A i \in 1..m : Open(i)' <=> Open(i)
<1>1. /\ Pairs' = Pairs \cup (IF line.kind = "pair" THEN {m} ELSE {})
      /\ Pairs \subseteq 1..m - 1
  BY OldLines DEF Pairs
<1>2. ASSUME NEW i \in 1..m
      PROVE  Open(i)' <=> Open(i)
  <2>1. m \in Nat \ {0} /\ \A j \in Pairs' : j < i => j \in Pairs
    BY <1>1, OldLines
  <2>2. /\ \A j \in Pairs : \A k \in j + 1..i - 1 : k \in 1..m - 1
        /\ \A k \in 1..m - 1 : lines'[k] = lines[k]
    BY <1>1, OldLines
  <2>. QED
    BY <1>1, <2>1, <2>2 DEF Open
<1>. QED
  BY <1>1, <1>2

LEMMA OldHeads ==
    ASSUME NEW m, NEW line, Grown(m, line)
    PROVE  /\ \A i \in 1..m - 1 : (Follows(i)' <=> Follows(i)) /\ (Assigns(i)' <=> Assigns(i))
           /\ Follows(m)' <=> line.indented /\ line.kind # "comment" /\ Open(m)
           /\ Heads' = Heads \cup (IF line.kind = "pair" /\ ~Follows(m)' THEN {m} ELSE {})
           /\ Heads \subseteq 1..m - 1
<1>1. ASSUME NEW i \in 1..m
      PROVE  Follows(i)' <=> Indented(i)' /\ Open(i)
  <2>1. Follows(i)' <=> Indented(i)' /\ Open(i)'
    BY DEF Follows, Open
  <2>. QED
    BY <2>1, OldPairs
<1>2. ASSUME NEW i \in 1..m - 1
      PROVE  (Follows(i)' <=> Follows(i)) /\ (Assigns(i)' <=> Assigns(i))
  <2>1. i \in 1..m /\ i # m /\ (Indented(i)' <=> Indented(i))
    BY OldLines DEF Indented
  <2>2. Follows(i) <=> Indented(i) /\ Open(i)
    BY DEF Follows, Open
  <2>3. Follows(i)' <=> Follows(i)
    BY <1>1, <2>1, <2>2
  <2>4. i \in Pairs' <=> i \in Pairs
    BY <2>1, OldPairs
  <2>. QED
    BY <2>3, <2>4 DEF Assigns
<1>3. Follows(m)' <=> line.indented /\ line.kind # "comment" /\ Open(m)
  <2>1. m \in 1..m
    BY OldLines
  <2>. QED
    BY <1>1, <2>1, OldLines DEF Indented
<1>4. Heads' = {j \in Pairs' : ~Follows(j)'}
  BY DEF Heads
<1>5. \A j \in Pairs : j \in 1..m - 1 /\ (Follows(j)' <=> Follows(j))
  BY <1>2, OldPairs
<1>6. Heads' = Heads \cup (IF line.kind = "pair" /\ ~Follows(m)' THEN {m} ELSE {})
  BY <1>4, <1>5, OldPairs DEF Heads
<1>7. Heads \subseteq 1..m - 1
  BY OldPairs DEF Heads
<1>. QED
  BY <1>2, <1>3, <1>6, <1>7

LEMMA OldNames ==
    ASSUME NEW m, NEW line, Grown(m, line), NEW i \in 1..m - 1, Assigns(i)
    PROVE  NameOf(i)' = NameOf(i) /\ ValueOf(i)' = ValueOf(i)
<1>1. Assigns(i)' /\ (Follows(i)' <=> Follows(i))
  BY OldHeads
<1>2. m \in Nat /\ i \in DOMAIN lines /\ i \in DOMAIN lines' /\ lines'[i] = lines[i]
  BY OldLines
<1>3. ReadType /\ ReadType'
  BY DEF Grown
<1>4. /\ PairOf(i) = {h \in Heads : h <= i}
      /\ Max(PairOf(i)) \in Heads
  BY <1>2, <1>3, PairOfFacts
<1>5. PairOf(i)' = {h \in Heads' : h <= i}
  <2>1. ReadType' /\ i \in DOMAIN lines' /\ Assigns(i)' => PairOf(i)' = {h \in Heads' : h <= i}
    BY DEF PairOf, Heads
  <2>. QED
    BY <1>1, <1>2, <1>3, <2>1
<1>6. PairOf(i)' = PairOf(i)
  BY <1>2, <1>4, <1>5, OldHeads
<1>7. Max(PairOf(i)) \in 1..m - 1
  BY <1>4, OldHeads
<1>8. NameOf(i)' = lines'[Max(PairOf(i)')].name
  BY DEF NameOf
<1>9. lines'[Max(PairOf(i)')] = lines[Max(PairOf(i))]
  BY <1>6, <1>7, OldLines
<1>10. NameOf(i)' = NameOf(i)
  BY <1>8, <1>9 DEF NameOf
<1>11. ValueOf(i)' = ValueOf(i)
  BY <1>1, <1>2 DEF ValueOf, LeadingNumber
<1>. QED
  BY <1>10, <1>11

-----------------------------------------------------------------------------
(* What the reader does with a line *)

\* Either the line assigns and its name and value are handled, or it is skipped.
Handled(m, name, value) ==
    /\ Handle(name, value)
    /\ Assigns(m)' /\ NameOf(m)' = name /\ ValueOf(m)' = value

Skipped(m, line) ==
    /\ \E is_bad \in BOOLEAN :
         (is_bad <=> line.kind \in {"open section", "bare"}) /\ Skip(is_bad)
    /\ ~Assigns(m)'

LEMMA ReadLineGrows ==
    ASSUME ReadType, NEW line \in Line, ReadLine(line)
    PROVE  Grown(lineno, line)
<1>1. lines \in Seq(Line) /\ options \in Seq(Option) /\ options = <<>>
  BY DEF ReadType, ReadLine
<1>2. lines' = Append(lines, line) /\ options' = options /\ phase' = "file"
  BY DEF ReadLine, optVars
<1>3. lines' \in Seq(Line) /\ options' \in Seq(Option) /\ options' = <<>>
  BY <1>1, <1>2
<1>4. ReadType'
  BY <1>2, <1>3 DEF ReadType
<1>. QED
  BY <1>2, <1>4 DEF Grown

\* A name is carried over exactly as long as its pair is open.
LEMMA PrevName ==
    ASSUME SettingAssumption, ReadType, PrevInv
    PROVE  /\ Open(lineno) <=> prev_name # NoName
           /\ Open(lineno) => prev_name \in Names
<1>. SUFFICES ASSUME Open(lineno) PROVE prev_name \in Names
  BY NamesDistinct DEF PrevInv
<1>1. Heads # {} /\ prev_name = lines[Max(Heads)].name
  BY DEF PrevInv
<1>2. Len(lines) \in Nat /\ Heads \subseteq 1..Len(lines) /\ Heads \subseteq Pairs
  BY ReadFacts DEF Heads
<1>3. Max(Heads) \in Heads
  BY <1>1, <1>2, MaxExists
<1>4. lines \in Seq(Line) /\ Max(Heads) \in DOMAIN lines /\ lines[Max(Heads)].kind = "pair"
  BY <1>2, <1>3, ReadFacts DEF ReadType, Pairs
<1>5. lines[Max(Heads)] \in Line
  BY <1>4
<1>. QED
  BY <1>1, <1>4, <1>5, LineFacts

LEMMA ContinuationStep ==
    ASSUME SettingAssumption, NEW m, NEW line, Grown(m, line), PrevInv, Continuation(line)
    PROVE  /\ Follows(m)'
           /\ Handled(m, prev_name, LeadingNumber(line))
           /\ prev_name' = prev_name /\ Open(m) /\ prev_name \in Names
<1>1. /\ line.indented /\ prev_name # NoName /\ line.kind # "comment"
      /\ Handle(prev_name, LeadingNumber(line)) /\ prev_name' = prev_name
  BY DEF Continuation, Continues
<1>2. Open(m) /\ Heads # {} /\ prev_name = lines[Max(Heads)].name
  BY <1>1, OldLines DEF PrevInv
<1>3. Follows(m)'
  BY <1>1, <1>2, OldHeads
<1>4. m \in Nat /\ Heads' = Heads /\ Heads \subseteq 1..m - 1
  <2>1. Heads' = Heads \cup {}
    BY <1>3, OldHeads
  <2>. QED
    BY <2>1, OldHeads, OldLines
<1>5. PairOf(m)' = Heads
  BY <1>4 DEF PairOf, Heads
<1>6. Max(Heads) \in Heads
  <2>1. m - 1 \in Nat
    BY OldLines
  <2>. QED
    BY <1>2, <1>4, <2>1, MaxExists
<1>7. lines'[Max(Heads)] = lines[Max(Heads)]
  BY <1>4, <1>6, OldLines
<1>8. NameOf(m)' = lines'[Max(PairOf(m)')].name
  BY DEF NameOf
<1>9. NameOf(m)' = prev_name
  BY <1>2, <1>5, <1>7, <1>8
<1>10. ValueOf(m)' = LeadingNumber(line)
  BY <1>3, OldLines DEF ValueOf, LeadingNumber
<1>11. prev_name \in Names
  BY <1>2, PrevName, OldLines DEF Grown
<1>. QED
  BY <1>1, <1>2, <1>3, <1>9, <1>10, <1>11 DEF Handled, Assigns

LEMMA PairStep ==
    ASSUME SettingAssumption, NEW m, NEW line, Grown(m, line), PrevInv, Pair(line)
    PROVE  /\ ~Follows(m)' /\ line.kind = "pair" /\ m \in Heads'
           /\ Handled(m, line.name, line.value)
           /\ prev_name' = line.name
<1>1. /\ ~Continues(line) /\ line.kind = "pair"
      /\ Handle(line.name, line.value) /\ prev_name' = line.name
  BY DEF Pair
<1>2. ~(line.indented /\ Open(m))
  BY <1>1, PrevName, OldLines DEF Grown, Continues
<1>3. ~Follows(m)'
  BY <1>2, OldHeads
<1>4. m \in Heads' /\ Heads' \subseteq 1..m /\ m \in Nat
  BY <1>1, <1>3, OldHeads, OldLines
<1>5. Max(PairOf(m)') = m
  <2>1. PairOf(m)' = Heads'
    BY <1>4, OldLines DEF PairOf, Heads
  <2>2. Heads' \subseteq Int /\ \A y \in Heads' : y <= m
    BY <1>4
  <2>. QED
    BY <1>4, <2>1, <2>2, MaxIs
<1>6. NameOf(m)' = lines'[Max(PairOf(m)')].name
  BY DEF NameOf
<1>7. NameOf(m)' = line.name /\ ValueOf(m)' = line.value
  BY <1>3, <1>5, <1>6, OldLines DEF ValueOf
<1>8. Assigns(m)'
  BY <1>4 DEF Assigns, Heads
<1>. QED
  BY <1>1, <1>3, <1>4, <1>7, <1>8 DEF Handled

LEMMA SkipStep ==
    ASSUME SettingAssumption, NEW m, NEW line, Grown(m, line), PrevInv,
           Section(line) \/ Unusable(line)
    PROVE  /\ ~Follows(m)' /\ Skipped(m, line) /\ Heads' = Heads
           /\ prev_name' = IF line.kind = "section" THEN NoName ELSE prev_name
<1>1. /\ ~Continues(line) /\ line.kind # "pair"
      /\ prev_name' = IF line.kind = "section" THEN NoName ELSE prev_name
      /\ \E is_bad \in BOOLEAN :
           (is_bad <=> line.kind \in {"open section", "bare"}) /\ Skip(is_bad)
  <2>1. CASE Section(line)
    BY <2>1 DEF Section
  <2>2. CASE Unusable(line)
    BY <2>2 DEF Unusable
  <2>. QED
    BY <2>1, <2>2
<1>2. ~(line.indented /\ line.kind # "comment" /\ Open(m))
  BY <1>1, PrevName, OldLines DEF Grown, Continues
<1>3. ~Follows(m)'
  BY <1>2, OldHeads
<1>4. m \notin Pairs'
  <2>1. Pairs' = Pairs \cup {}
    BY <1>1, OldPairs
  <2>. QED
    BY <2>1, OldPairs, OldLines
<1>5. Heads' = Heads \cup {}
  BY <1>1, OldHeads
<1>. QED
  BY <1>1, <1>3, <1>4, <1>5 DEF Skipped, Assigns

\* The pair the next line would belong to.
LEMMA OpenStep ==
    ASSUME NEW m, NEW line, Grown(m, line), line \in Line
    PROVE  Open(m + 1)' <=> \/ line.kind = "pair"
                            \/ Open(m) /\ ~(line.kind = "section" /\ ~line.indented)
<1>1. /\ m \in Nat \ {0} /\ Pairs \subseteq 1..m - 1
      /\ Pairs' = Pairs \cup (IF line.kind = "pair" THEN {m} ELSE {})
      /\ lines'[m] = line /\ \A i \in 1..m - 1 : lines'[i] = lines[i]
  BY OldLines, OldPairs
<1>2. Open(m + 1)' <=>
        \E j \in Pairs' : \A k \in j + 1..m : ~(lines'[k].kind = "section" /\ ~lines'[k].indented)
  <2>1. \A j \in Pairs' : j < m + 1
    BY <1>1
  <2>2. (m + 1) - 1 = m
    BY <1>1
  <2>. QED
    BY <2>1, <2>2 DEF Open
<1>3. Open(m) <=>
        \E j \in Pairs : \A k \in j + 1..m - 1 : ~(lines'[k].kind = "section" /\ ~lines'[k].indented)
  BY <1>1 DEF Open
<1>4. CASE line.kind = "pair"
  BY <1>1, <1>2, <1>4
<1>5. CASE line.kind # "pair"
  <2>1. Pairs' = Pairs
    BY <1>1, <1>5
  <2>2. \A j \in Pairs : j + 1..m = (j + 1..m - 1) \cup {m}
    BY <1>1
  <2>. QED
    BY <1>1, <1>2, <1>3, <1>5, <2>1, <2>2
<1>. QED
  BY <1>4, <1>5

LEMMA ReadLineStep ==
    ASSUME SettingAssumption, ReadType, PrevInv, NEW line \in Line, ReadLine(line),
           NEW m, m = lineno
    PROVE  /\ Grown(m, line)
           /\ PrevInv'
           /\ \/ \E name \in Names, value \in Nat : Handled(m, name, value)
              \/ Skipped(m, line)
<1>1. Grown(m, line) /\ lineno' = m + 1
  <2>1. Grown(m, line)
    BY ReadLineGrows
  <2>. QED
    BY <2>1, OldLines
<1>2. /\ line.kind = "pair" => line.name \in Names /\ line.value \in Nat
      /\ LeadingNumber(line) \in Nat
  BY LineFacts
<1>3. PrevInv' <=> /\ Open(m + 1)' => Heads' # {} /\ prev_name' = lines'[Max(Heads')].name
                   /\ ~Open(m + 1)' => prev_name' = NoName
  BY <1>1 DEF PrevInv, Open
<1>4. ASSUME Heads # {}, Heads' = Heads
      PROVE  lines'[Max(Heads')] = lines[Max(Heads)]
  <2>1. Heads \subseteq 1..m - 1 /\ m - 1 \in Nat
    BY <1>1, OldHeads, OldLines
  <2>2. Max(Heads) \in Heads
    BY <1>4, <2>1, MaxExists
  <2>. QED
    BY <1>1, <1>4, <2>1, <2>2, OldLines
<1>5. PrevInv => /\ Open(m) => Heads # {} /\ prev_name = lines[Max(Heads)].name
                 /\ ~Open(m) => prev_name = NoName
  BY DEF PrevInv
<1>6. CASE Continuation(line)
  <2>1. /\ Follows(m)' /\ Handled(m, prev_name, LeadingNumber(line))
        /\ prev_name' = prev_name /\ Open(m) /\ prev_name \in Names
    BY <1>1, <1>6, ContinuationStep
  <2>2. line.indented /\ Heads' = Heads \cup {}
    BY <1>1, <2>1, OldHeads
  <2>3. Heads' = Heads
    BY <2>2
  <2>4. Open(m + 1)' /\ Heads # {} /\ prev_name = lines[Max(Heads)].name
    BY <1>1, <1>5, <2>1, <2>2, OpenStep
  <2>5. PrevInv'
    BY <1>3, <1>4, <2>1, <2>3, <2>4
  <2>. QED
    BY <1>1, <1>2, <2>1, <2>5
<1>7. CASE Pair(line)
  <2>1. /\ line.kind = "pair" /\ m \in Heads'
        /\ Handled(m, line.name, line.value)
        /\ prev_name' = line.name
    BY <1>1, <1>7, PairStep
  <2>2. Heads' \subseteq Int /\ \A y \in Heads' : y <= m
    BY <1>1, OldHeads, OldLines
  <2>3. Max(Heads') = m
    BY <2>1, <2>2, MaxIs
  <2>4. Open(m + 1)' /\ lines'[m] = line
    BY <1>1, <2>1, OpenStep, OldLines
  <2>5. PrevInv'
    BY <1>3, <2>1, <2>3, <2>4
  <2>. QED
    BY <1>1, <1>2, <2>1, <2>5
<1>8. CASE Section(line) \/ Unusable(line)
  <2>1. /\ ~Follows(m)' /\ Skipped(m, line) /\ Heads' = Heads
        /\ prev_name' = IF line.kind = "section" THEN NoName ELSE prev_name
    BY <1>1, <1>8, SkipStep
  <2>2. line.kind # "pair"
    BY <1>8 DEF Section, Unusable
  <2>3. line.kind = "section" => ~Open(m + 1)'
    BY <1>1, <2>1, <2>2, OpenStep, OldHeads
  <2>4. line.kind # "section" => (Open(m + 1)' <=> Open(m))
    BY <1>1, <2>2, OpenStep
  <2>5. PrevInv'
    BY <1>3, <1>4, <1>5, <2>1, <2>3, <2>4
  <2>. QED
    BY <1>1, <2>1, <2>5
<1>. QED
  BY <1>6, <1>7, <1>8 DEF ReadLine

-----------------------------------------------------------------------------
(* What the settings, the name and the error are after a line *)

\* The lines of a name: those before, and the new one if it is handled for that name.
LEMMA AssignedGrows ==
    ASSUME NEW m, NEW line, Grown(m, line), NEW name
    PROVE  /\ AssignedIn(name) \subseteq 1..m - 1
           /\ AssignedIn(name)' = AssignedIn(name)
                \cup (IF Assigns(m)' /\ NameOf(m)' = name THEN {m} ELSE {})
<1>1. AssignedIn(name) \subseteq 1..m - 1
  BY OldLines DEF AssignedIn
<1>2. AssignedIn(name)' = {i \in 1..m : Assigns(i)' /\ NameOf(i)' = name}
  BY OldLines DEF AssignedIn
<1>3. AssignedIn(name) = {i \in 1..m - 1 : Assigns(i) /\ NameOf(i) = name}
  BY OldLines DEF AssignedIn
<1>4. \A i \in 1..m - 1 : /\ Assigns(i)' <=> Assigns(i)
                          /\ Assigns(i) => NameOf(i)' = NameOf(i)
  BY OldHeads, OldNames
<1>5. m \in Nat \ {0} /\ 1..m = (1..m - 1) \cup {m}
  BY OldLines
<1>. QED
  BY <1>1, <1>2, <1>3, <1>4, <1>5

LEMMA BadLinesGrow ==
    ASSUME NEW m, NEW line, Grown(m, line)
    PROVE  /\ BadLines \subseteq 1..m - 1
           /\ BadLines' = BadLines
                \cup (IF (IF Assigns(m)' THEN NameOf(m)' = "unknown"
                          ELSE line.kind \in {"open section", "bare"})
                      THEN {m} ELSE {})
<1>. DEFINE Bad(i) == IF Assigns(i) THEN NameOf(i) = "unknown"
                      ELSE lines[i].kind \in {"open section", "bare"}
<1>1. BadLines' = {i \in 1..m : Bad(i)'} /\ BadLines = {i \in 1..m - 1 : Bad(i)}
  BY OldLines DEF BadLines
<1>2. \A i \in 1..m - 1 : Bad(i)' <=> Bad(i)
  BY OldHeads, OldNames, OldLines
<1>3. m \in Nat \ {0} /\ 1..m = (1..m - 1) \cup {m}
  BY OldLines
<1>4. Bad(m)' <=> IF Assigns(m)' THEN NameOf(m)' = "unknown"
                  ELSE line.kind \in {"open section", "bare"}
  BY OldLines
<1>. HIDE DEF Bad
<1>. QED
  BY <1>1, <1>2, <1>3, <1>4

LEMMA FileValueGrows ==
    ASSUME NEW m, NEW line, Grown(m, line), NEW name
    PROVE  FileValue(name)' =
             IF Assigns(m)' /\ NameOf(m)' = name /\ ValueOf(m)' < Limit(name)
             THEN ValueOf(m)' ELSE FileValue(name)
<1>. DEFINE accepted == {i \in AssignedIn(name) : ValueOf(i) < Limit(name)}
            new == Assigns(m)' /\ NameOf(m)' = name /\ ValueOf(m)' < Limit(name)
<1>1. /\ FileValue(name) = IF accepted = {} THEN Default[name] ELSE ValueOf(Max(accepted))
      /\ \A i : i = Max(accepted') =>
           FileValue(name)' = IF accepted' = {} THEN Default[name] ELSE ValueOf(i)'
  <2>1. FileValue(name) = IF accepted = {} THEN Default[name] ELSE ValueOf(Max(accepted))
    BY DEF FileValue
  <2>2. ASSUME NEW i, i = Max(accepted')
        PROVE  FileValue(name)' = IF accepted' = {} THEN Default[name] ELSE ValueOf(i)'
    BY <2>2 DEF FileValue, ValueOf, Follows, Indented, Pairs, LeadingNumber
  <2>. QED
    BY <2>1, <2>2
<1>2. m - 1 \in Nat /\ (m - 1) + 1 = m /\ accepted \subseteq 1..m - 1
  BY AssignedGrows, OldLines
<1>3. \A i \in AssignedIn(name) : i \in 1..m - 1 /\ ValueOf(i)' = ValueOf(i)
  <2>1. \A i \in AssignedIn(name) : i \in 1..m - 1 /\ Assigns(i)
    BY AssignedGrows DEF AssignedIn
  <2>. QED
    BY <2>1, OldNames
<1>4. accepted' = {i \in AssignedIn(name)' : ValueOf(i)' < Limit(name)}
  BY DEF Limit
<1>5. accepted' = accepted \cup (IF new THEN {m} ELSE {})
  <2>1. AssignedIn(name)' = AssignedIn(name)
                \cup (IF Assigns(m)' /\ NameOf(m)' = name THEN {m} ELSE {})
    BY AssignedGrows
  <2>. QED
    BY <1>3, <1>4, <2>1
<1>. HIDE DEF accepted
<1>6. CASE new
  <2>1. Max(accepted \cup {m}) = m
    BY <1>2, MaxAdded
  <2>2. accepted' = accepted \cup {m} /\ accepted' # {}
    BY <1>5, <1>6
  <2>. QED
    BY <1>1, <1>6, <2>1, <2>2
<1>7. CASE ~new
  <2>1. accepted' = accepted
    BY <1>5, <1>7
  <2>2. CASE accepted = {}
    BY <1>1, <1>7, <2>1, <2>2
  <2>3. CASE accepted # {}
    <3>1. Max(accepted) \in accepted
      BY <1>2, <2>3, MaxExists
    <3>2. PICK i : i = Max(accepted)
      OBVIOUS
    <3>3. ValueOf(i)' = ValueOf(i) /\ ValueOf(i) = ValueOf(Max(accepted))
      BY <1>3, <3>1, <3>2 DEF accepted
    <3>. QED
      BY <1>1, <1>7, <2>1, <2>3, <3>2, <3>3
  <2>. QED
    BY <2>2, <2>3
<1>. QED
  BY <1>6, <1>7

\* A line as the reader takes it, whatever its kind.
Taken(m, line) ==
    /\ Grown(m, line)
    /\ \/ \E name \in Names, value \in Nat : Handled(m, name, value)
       \/ Skipped(m, line)

LEMMA ErrorStep ==
    ASSUME SettingAssumption, ErrorInv, NEW m, NEW line, Taken(m, line)
    PROVE  ErrorInv'
<1>. DEFINE bad == IF Assigns(m)' THEN NameOf(m)' = "unknown"
                   ELSE line.kind \in {"open section", "bare"}
<1>1. Grown(m, line) /\ lineno = m /\ m - 1 \in Nat /\ (m - 1) + 1 = m
  BY OldLines DEF Taken
<1>2. error' = IF bad /\ error = 0 THEN m ELSE error
  <2>1. ASSUME NEW name \in Names, NEW value \in Nat, Handled(m, name, value)
        PROVE  error' = IF bad /\ error = 0 THEN m ELSE error
    BY <1>1, <2>1, NamesDistinct DEF Handled, Handle, FirstError
  <2>2. CASE Skipped(m, line)
    BY <1>1, <2>2 DEF Skipped, Skip, FirstError
  <2>. QED
    BY <2>1, <2>2 DEF Taken
<1>3. BadLines \subseteq 1..m - 1 /\ BadLines' = BadLines \cup (IF bad THEN {m} ELSE {})
  BY <1>1, BadLinesGrow
<1>4. ErrorInv' <=> error' = IF BadLines' = {} THEN 0 ELSE Min(BadLines')
  BY DEF ErrorInv
<1>5. error = IF BadLines = {} THEN 0 ELSE Min(BadLines)
  BY DEF ErrorInv
<1>. HIDE DEF bad
<1>6. BadLines # {} => Min(BadLines) \in BadLines
  <2>1. BadLines \subseteq Nat
    BY <1>1, <1>3
  <2>. QED
    BY <2>1, MinExists
<1>7. error = 0 <=> BadLines = {}
  BY <1>1, <1>3, <1>5, <1>6
<1>8. CASE bad
  <2>1. Min(BadLines \cup {m}) = IF BadLines = {} THEN m ELSE Min(BadLines)
    BY <1>1, <1>3, MinAdded
  <2>2. BadLines' = BadLines \cup {m} /\ BadLines' # {}
    BY <1>3, <1>8
  <2>. QED
    BY <1>2, <1>4, <1>5, <1>7, <1>8, <2>1, <2>2
<1>9. CASE ~bad
  <2>1. BadLines' = BadLines
    BY <1>3, <1>9
  <2>. QED
    BY <1>2, <1>4, <1>5, <1>9, <2>1
<1>. QED
  BY <1>8, <1>9

\* While the file is read there are no options, and what is given is what the file gives.
LEMMA NoOptionsYet ==
    ASSUME options = <<>>, NEW name
    PROVE  OptionsFor(name) = {} /\ ValueGiven(name) = FileValue(name)
<1>1. OptionsFor(name) = {}
  BY DEF OptionsFor
<1>. QED
  BY <1>1 DEF ValueGiven

LEMMA SettingsStep ==
    ASSUME SettingAssumption, SettingsInv, NEW m, NEW line, Taken(m, line),
           options = <<>>, options' = <<>>
    PROVE  SettingsInv'
<1>1. Grown(m, line)
  BY DEF Taken
<1>2. settings \in [Setting -> Nat] /\ \A name \in Setting : settings[name] = FileValue(name)
  BY NoOptionsYet DEF SettingsInv
<1>3. ASSUME NEW name \in Setting
      PROVE  /\ FileValue(name)' =
                  IF Assigns(m)' /\ NameOf(m)' = name /\ ValueOf(m)' < Limit(name)
                  THEN ValueOf(m)' ELSE FileValue(name)
             /\ ValueGiven(name)' = FileValue(name)'
  <2>1. options' = <<>> => OptionsFor(name)' = {}
    BY DEF OptionsFor
  <2>. QED
    BY <1>1, <2>1, FileValueGrows DEF ValueGiven
<1>4. /\ settings' \in [Setting -> Nat]
      /\ \A name \in Setting :
           settings'[name] =
             IF Assigns(m)' /\ NameOf(m)' = name /\ ValueOf(m)' < Limit(name)
             THEN ValueOf(m)' ELSE settings[name]
  <2>1. ASSUME NEW given \in Names, NEW value \in Nat, Handled(m, given, value)
        PROVE  /\ settings' \in [Setting -> Nat]
               /\ \A name \in Setting :
                    settings'[name] = IF given = name /\ value < Limit(name)
                                      THEN value ELSE settings[name]
    <3>1. CASE given \in Setting
      <4>1. settings' = IF value < Limit(given) THEN [settings EXCEPT ![given] = value]
                        ELSE settings
        BY <2>1, <3>1, NamesDistinct DEF Handled, Handle, Assign
      <4>. QED
        BY <1>2, <3>1, <4>1
    <3>2. CASE given \notin Setting
      <4>1. settings' = settings
        BY <2>1, <3>2 DEF Handled, Handle
      <4>. QED
        BY <1>2, <3>2, <4>1
    <3>. QED
      BY <3>1, <3>2
  <2>2. CASE Skipped(m, line)
    BY <1>2, <2>2 DEF Skipped, Skip
  <2>. QED
    BY <2>1, <2>2 DEF Taken, Handled
<1>. QED
  BY <1>2, <1>3, <1>4 DEF SettingsInv

LEMMA NameStep ==
    ASSUME SettingAssumption, NameInv, NEW m, NEW line, Taken(m, line),
           options = <<>>, options' = <<>>, phase' = "file"
    PROVE  NameInv'
<1>1. Grown(m, line) /\ lineno = m /\ m - 1 \in Nat /\ (m - 1) + 1 = m
  BY OldLines DEF Taken
<1>2. /\ allocated = {Heap(i) : i \in AssignedIn(Filename)}
      /\ debug_output_filename =
           IF AssignedIn(Filename) # {} THEN Heap(Max(AssignedIn(Filename))) ELSE Literal
  BY NoOptionsYet DEF NameInv
<1>. DEFINE new == Assigns(m)' /\ NameOf(m)' = Filename
<1>3. /\ AssignedIn(Filename) \subseteq 1..m - 1
      /\ AssignedIn(Filename)' = AssignedIn(Filename) \cup (IF new THEN {m} ELSE {})
  BY <1>1, AssignedGrows
<1>4. /\ debug_output_filename' = IF new THEN Heap(m) ELSE debug_output_filename
      /\ allocated' = allocated \cup (IF new THEN {Heap(m)} ELSE {})
  <2>1. ASSUME NEW given \in Names, NEW value \in Nat, Handled(m, given, value)
        PROVE  /\ debug_output_filename' = IF given = Filename THEN Heap(m) ELSE debug_output_filename
               /\ allocated' = allocated \cup (IF given = Filename THEN {Heap(m)} ELSE {})
    BY <1>1, <2>1, NamesDistinct DEF Handled, Handle
  <2>2. CASE Skipped(m, line)
    BY <2>2 DEF Skipped, Skip
  <2>. QED
    BY <2>1, <2>2 DEF Taken, Handled
<1>5. OptionsFor(Filename)' = {}
  BY DEF OptionsFor
<1>6. NameInv' <=>
        /\ allocated' = {Heap(i) : i \in AssignedIn(Filename)'}
        /\ debug_output_filename' =
             IF AssignedIn(Filename)' # {} THEN Heap(Max(AssignedIn(Filename)')) ELSE Literal
  BY <1>5 DEF NameInv, Heap
<1>. HIDE DEF new
<1>7. CASE new
  <2>1. Max(AssignedIn(Filename) \cup {m}) = m
    BY <1>1, <1>3, MaxAdded
  <2>2. AssignedIn(Filename)' = AssignedIn(Filename) \cup {m}
    BY <1>3, <1>7
  <2>3. Max(AssignedIn(Filename)') = m
    BY <2>1, <2>2
  <2>. QED
    BY <1>2, <1>4, <1>6, <1>7, <2>2, <2>3
<1>8. CASE ~new
  <2>1. AssignedIn(Filename)' = AssignedIn(Filename) /\ allocated' = allocated
    BY <1>3, <1>4, <1>8
  <2>. QED
    BY <1>2, <1>4, <1>6, <1>8, <2>1
<1>. QED
  BY <1>7, <1>8

-----------------------------------------------------------------------------
(* Options *)

LEMMA ReadOptionGrows ==
    ASSUME ReadType, NEW option \in Option, ReadOption(option), NEW m, m = Len(options) + 1
    PROVE  /\ ReadType' /\ lines' = lines /\ m - 1 \in Nat /\ (m - 1) + 1 = m
           /\ options'[m] = option /\ \A i \in 1..m - 1 : options'[i] = options[i]
           /\ \A name : /\ OptionsFor(name) \subseteq 1..m - 1
                        /\ OptionsFor(name)' = OptionsFor(name)
                             \cup (IF option.to = name THEN {m} ELSE {})
<1>1. /\ lines' = lines /\ options' = Append(options, option)
      /\ phase = "command line" /\ phase' = "command line"
  BY DEF ReadOption, iniVars
<1>2. options \in Seq(Option) /\ lines \in Seq(Line)
  BY DEF ReadType
<1>3. /\ options' \in Seq(Option) /\ m - 1 \in Nat /\ (m - 1) + 1 = m
      /\ DOMAIN options = 1..m - 1 /\ DOMAIN options' = (1..m - 1) \cup {m}
      /\ options'[m] = option /\ \A i \in 1..m - 1 : options'[i] = options[i] /\ i # m
  <2>1. /\ options \in Seq(Option) /\ options' = Append(options, option)
        /\ m = Len(options) + 1 /\ Len(options) \in Nat
    <3>1. Len(options) \in Nat
      BY <1>2, LenProperties
    <3>. QED
      BY <1>1, <1>2, <3>1
  <2>2. m \in Nat \ {0} /\ Len(options) = m - 1
    BY <2>1
  <2>3. options' \in Seq(Option) /\ DOMAIN options = 1..m - 1 /\ DOMAIN options' = 1..m
    BY <2>1, <2>2
  <2>4. options'[m] = option /\ \A i \in 1..m - 1 : options'[i] = options[i]
    BY <2>1, <2>2
  <2>5. 1..m = (1..m - 1) \cup {m} /\ m - 1 \in Nat /\ (m - 1) + 1 = m
    BY <2>2
  <2>. QED
    BY <2>2, <2>3, <2>4, <2>5
<1>4. ASSUME NEW name
      PROVE  /\ OptionsFor(name) \subseteq 1..m - 1
             /\ OptionsFor(name)' = OptionsFor(name) \cup (IF option.to = name THEN {m} ELSE {})
  BY <1>3 DEF OptionsFor
<1>5. ReadType'
  BY <1>1, <1>2, <1>3 DEF ReadType
<1>. QED
  BY <1>1, <1>3, <1>4, <1>5

\* A number an option gives, or 1 for a flag.
LEMMA OptionFacts ==
    ASSUME SettingAssumption, NEW option \in Option
    PROVE  /\ option.to \in Setting \ Flags => option.value \in Nat
           /\ "max_udp_packet_size" \notin Flags /\ Filename \notin Setting
<1>1. \A v \in Number : v \in Nat
  BY DEF SettingAssumption, Number
<1>2. CASE option \in [to : Setting \ Flags, value : Number]
  BY <1>1, <1>2 DEF SettingAssumption, Flags, Filename
<1>3. CASE option \in [to : (Setting \cap Flags)
                              \cup {Filename, "username", "tcp-address", "unknown"}]
  BY <1>3 DEF SettingAssumption, Flags, Filename
<1>. QED
  BY <1>2, <1>3 DEF Option

\* The value given for a name, by the options that are not refused.
Accepts(name, i) == name = "max_udp_packet_size" \/ NumberOf(name, i) < Limit(name)

LEMMA ValueGivenGrows ==
    ASSUME ReadType, NEW option \in Option, ReadOption(option), NEW m, m = Len(options) + 1,
           NEW name
    PROVE  ValueGiven(name)' =
             IF option.to = name /\ Accepts(name, m)'
             THEN NumberOf(name, m)' ELSE ValueGiven(name)
<1>. DEFINE accepted == {i \in OptionsFor(name) : Accepts(name, i)}
            new == option.to = name /\ Accepts(name, m)'
<1>1. /\ ValueGiven(name) = IF accepted = {} THEN FileValue(name)
                            ELSE NumberOf(name, Max(accepted))
      /\ \A i : i = Max(accepted') =>
           ValueGiven(name)' = IF accepted' = {} THEN FileValue(name)' ELSE NumberOf(name, i)'
  <2>1. ValueGiven(name) = IF accepted = {} THEN FileValue(name)
                           ELSE NumberOf(name, Max(accepted))
    BY DEF ValueGiven, Accepts
  <2>2. ASSUME NEW i, i = Max(accepted')
        PROVE  ValueGiven(name)' = IF accepted' = {} THEN FileValue(name)'
                                   ELSE NumberOf(name, i)'
    BY <2>2 DEF ValueGiven, NumberOf, Accepts
  <2>. QED
    BY <2>1, <2>2
<1>2. FileValue(name)' = FileValue(name)
  <2>1. lines' = lines
    BY ReadOptionGrows
  <2>. QED
    BY <2>1 DEF FileValue, AssignedIn, Assigns, NameOf, ValueOf, Follows, Indented, Pairs,
       PairOf, LeadingNumber
<1>3. m - 1 \in Nat /\ (m - 1) + 1 = m /\ accepted \subseteq 1..m - 1
  BY ReadOptionGrows
<1>4. \A i \in OptionsFor(name) : /\ i \in 1..m - 1 /\ NumberOf(name, i)' = NumberOf(name, i)
                                  /\ Accepts(name, i)' <=> Accepts(name, i)
  BY ReadOptionGrows DEF NumberOf, Accepts
<1>5. accepted' = accepted \cup (IF new THEN {m} ELSE {})
  <2>1. accepted' = {i \in OptionsFor(name)' : Accepts(name, i)'}
    OBVIOUS
  <2>2. OptionsFor(name)' = OptionsFor(name) \cup (IF option.to = name THEN {m} ELSE {})
    BY ReadOptionGrows
  <2>. QED
    BY <1>4, <2>1, <2>2
<1>. HIDE DEF accepted
<1>6. CASE new
  <2>1. Max(accepted \cup {m}) = m
    BY <1>3, MaxAdded
  <2>2. accepted' = accepted \cup {m} /\ accepted' # {}
    BY <1>5, <1>6
  <2>. QED
    BY <1>1, <1>6, <2>1, <2>2
<1>7. CASE ~new
  <2>1. accepted' = accepted
    BY <1>5, <1>7
  <2>2. CASE accepted = {}
    BY <1>1, <1>2, <1>7, <2>1, <2>2
  <2>3. CASE accepted # {}
    <3>1. Max(accepted) \in accepted
      BY <1>3, <2>3, MaxExists
    <3>2. PICK i : i = Max(accepted)
      OBVIOUS
    <3>3. NumberOf(name, i)' = NumberOf(name, i) /\ NumberOf(name, i) = NumberOf(name, Max(accepted))
      BY <1>4, <3>1, <3>2 DEF accepted
    <3>. QED
      BY <1>1, <1>7, <2>1, <2>3, <3>2, <3>3
  <2>. QED
    BY <2>2, <2>3
<1>. QED
  BY <1>6, <1>7

LEMMA OptionSettings ==
    ASSUME SettingAssumption, ReadType, SettingsInv, NEW option \in Option, ReadOption(option)
    PROVE  SettingsInv'
<1>. DEFINE m == Len(options) + 1
<1>1. settings \in [Setting -> Nat] /\ \A name \in Setting : settings[name] = ValueGiven(name)
  BY DEF SettingsInv
<1>2. \A n : n = m =>
        /\ options'[n] = option
        /\ \A name : ValueGiven(name)' = IF option.to = name /\ Accepts(name, n)'
                                         THEN NumberOf(name, n)' ELSE ValueGiven(name)
  BY ReadOptionGrows, ValueGivenGrows
<1>3. PICK n : n = m
  OBVIOUS
<1>4. /\ options'[n] = option
      /\ \A name : ValueGiven(name)' = IF option.to = name /\ Accepts(name, n)'
                                       THEN NumberOf(name, n)' ELSE ValueGiven(name)
  BY <1>2, <1>3
<1>5. \A name : /\ NumberOf(name, n)' = IF name \in Flags THEN 1 ELSE option.value
                /\ Accepts(name, n)' <=> \/ name = "max_udp_packet_size"
                                         \/ NumberOf(name, n)' < Limit(name)
  BY <1>4 DEF NumberOf, Accepts, Limit
<1>6. CASE option.to \in Setting \ Flags /\ NumberOption(option)
  <2>1. option.value \in Nat /\ "max_udp_packet_size" \notin Flags
    BY <1>6, OptionFacts
  <2>2. settings' = IF Accepts(option.to, n)' THEN [settings EXCEPT ![option.to] = option.value]
                    ELSE settings
    BY <1>5, <1>6 DEF NumberOption, Assign
  <2>. QED
    BY <1>1, <1>4, <1>5, <1>6, <2>1, <2>2 DEF SettingsInv
<1>7. CASE FlagOption(option)
  <2>1. option.to \in Setting \cap Flags /\ settings' = [settings EXCEPT ![option.to] = 1]
    BY <1>7 DEF FlagOption
  <2>2. NumberOf(option.to, n)' = 1 /\ option.to # "port"
    BY <1>5, <2>1 DEF Flags
  <2>3. 1 < Limit(option.to)
    BY <2>2 DEF SettingAssumption, Limit
  <2>4. Accepts(option.to, n)'
    BY <1>5, <2>2, <2>3
  <2>. QED
    BY <1>1, <1>4, <2>1, <2>2, <2>4 DEF SettingsInv
<1>8. CASE FilenameOption(option) \/ OtherOption(option)
  <2>1. settings' = settings /\ option.to \in {Filename, "username", "tcp-address", "unknown"}
    BY <1>8 DEF FilenameOption, OtherOption
  <2>2. \A name \in Setting : name # option.to
    BY <2>1 DEF SettingAssumption, Flags, Filename
  <2>. QED
    BY <1>1, <1>4, <2>1, <2>2 DEF SettingsInv
<1>. QED
  BY <1>6, <1>7, <1>8 DEF ReadOption, NumberOption

LEMMA OptionName ==
    ASSUME SettingAssumption, ReadType, NameInv, NEW option \in Option, ReadOption(option)
    PROVE  NameInv'
<1>1. PICK m : m = Len(options) + 1
  OBVIOUS
<1>2. /\ lines' = lines /\ m - 1 \in Nat /\ (m - 1) + 1 = m
      /\ OptionsFor(Filename) \subseteq 1..m - 1
      /\ OptionsFor(Filename)' = OptionsFor(Filename)
           \cup (IF option.to = Filename THEN {m} ELSE {})
  BY <1>1, ReadOptionGrows
<1>3. AssignedIn(Filename)' = AssignedIn(Filename)
  <2>1. lines' = lines
    BY <1>2
  <2>. QED
    BY <2>1 DEF AssignedIn, Assigns, NameOf, Follows, Indented, Pairs, PairOf
<1>4. /\ allocated' = allocated /\ phase' # "released"
      /\ debug_output_filename' = IF option.to = Filename THEN Argv(m) ELSE debug_output_filename
  <2>1. allocated' = allocated /\ phase' = "command line"
    BY DEF ReadOption, iniVars
  <2>2. option.to # Filename => debug_output_filename' = debug_output_filename
    BY DEF ReadOption, NumberOption, FlagOption, FilenameOption, OtherOption
  <2>3. option.to = Filename => debug_output_filename' = Argv(m)
    BY <1>1, OptionFacts DEF ReadOption, NumberOption, FlagOption, FilenameOption, OtherOption,
       Filename
  <2>. QED
    BY <2>1, <2>2, <2>3
<1>5. NameInv' <=>
        /\ allocated' = {Heap(i) : i \in AssignedIn(Filename)'}
        /\ debug_output_filename' =
             IF OptionsFor(Filename)' # {} THEN Argv(Max(OptionsFor(Filename)'))
             ELSE IF AssignedIn(Filename)' # {} THEN Heap(Max(AssignedIn(Filename)'))
             ELSE Literal
  BY <1>4 DEF NameInv, Heap, Argv, Literal
<1>6. CASE option.to = Filename
  <2>1. Max(OptionsFor(Filename) \cup {m}) = m
    BY <1>2, MaxAdded
  <2>2. OptionsFor(Filename)' = OptionsFor(Filename) \cup {m}
    BY <1>2, <1>6
  <2>3. Max(OptionsFor(Filename)') = m /\ OptionsFor(Filename)' # {}
    BY <2>1, <2>2
  <2>. QED
    BY <1>3, <1>4, <1>5, <1>6, <2>3 DEF NameInv
<1>7. CASE option.to # Filename
  <2>1. OptionsFor(Filename)' = OptionsFor(Filename)
    BY <1>2, <1>7
  <2>. QED
    BY <1>3, <1>4, <1>5, <1>7, <2>1 DEF NameInv
<1>. QED
  BY <1>6, <1>7

-----------------------------------------------------------------------------
(* Theorems *)

ConfigInv == ReadType /\ PrevInv /\ ErrorInv /\ SettingsInv /\ NameInv

\* What says something of the file only does not move with anything else.
LEMMA FileKept ==
    ASSUME UNCHANGED lines
    PROVE  /\ Open(lineno)' <=> Open(lineno)
           /\ Heads' = Heads /\ BadLines' = BadLines
           /\ AssignedIn(Filename)' = AssignedIn(Filename)
           /\ prev_name' = prev_name => (PrevInv' <=> PrevInv)
BY DEF Open, Heads, BadLines, AssignedIn, Assigns, NameOf, Follows, Indented, Pairs, PairOf,
   lineno, PrevInv

LEMMA ConfigInvariant == Spec => []ConfigInv
<1>1. Init => ConfigInv
  <2>. SUFFICES ASSUME Init PROVE ConfigInv
    OBVIOUS
  <2>1. lines = <<>> /\ options = <<>> /\ phase = "file"
    BY DEF Init
  <2>2. Pairs = {} /\ BadLines = {} /\ \A name : AssignedIn(name) = {}
    BY <2>1 DEF Pairs, BadLines, AssignedIn
  <2>3. ReadType
    BY <2>1 DEF ReadType
  <2>4. PrevInv /\ ErrorInv
    BY <2>2 DEF Init, PrevInv, ErrorInv, Open
  <2>5. SettingsInv
    <3>1. \A name \in Setting : ValueGiven(name) = Default[name]
      BY <2>1, <2>2, NoOptionsYet DEF FileValue
    <3>. QED
      BY <3>1, SettingAssumption DEF SettingAssumption, Init, SettingsInv
  <2>6. NameInv
    BY <2>1, <2>2, NoOptionsYet DEF Init, NameInv
  <2>. QED
    BY <2>3, <2>4, <2>5, <2>6 DEF ConfigInv
<1>2. ConfigInv /\ [Next]_vars => ConfigInv'
  <2>. SUFFICES ASSUME ConfigInv, [Next]_vars PROVE ConfigInv'
    OBVIOUS
  <2>. USE DEF ConfigInv
  <2>1. ASSUME NEW line \in Line, ReadLine(line) PROVE ConfigInv'
    <3>1. PICK m : m = lineno
      OBVIOUS
    <3>2. Taken(m, line) /\ PrevInv'
      BY <2>1, <3>1, SettingAssumption, ReadLineStep DEF Taken
    <3>3. options = <<>> /\ options' = <<>> /\ phase' = "file"
      BY <2>1 DEF ReadLine, ReadType, optVars
    <3>4. ReadType'
      BY <3>2 DEF Taken, Grown
    <3>. QED
      BY <3>2, <3>3, <3>4, SettingAssumption, ErrorStep, SettingsStep, NameStep
  <2>2. ASSUME NEW option \in Option, ReadOption(option) PROVE ConfigInv'
    <3>1. ReadType' /\ lines' = lines
      BY <2>2, ReadOptionGrows
    <3>2. prev_name' = prev_name /\ error' = error
      BY <2>2 DEF ReadOption, iniVars
    <3>3. PrevInv' /\ ErrorInv'
      BY <3>1, <3>2, FileKept DEF ErrorInv
    <3>. QED
      BY <2>2, <3>1, <3>3, SettingAssumption, OptionSettings, OptionName
  <2>3. ASSUME UNCHANGED <<settings, debug_output_filename, iniVars, options>>,
               phase' \in {"file", "died", "command line", "usage", "configured", "released"},
               phase' = "file" => phase = "file",
               phase' = "released" => freed' = {debug_output_filename'}
        PROVE  ConfigInv'
    <3>1. UNCHANGED <<settings, debug_output_filename, prev_name, error, allocated, lines, options>>
      BY <2>3 DEF iniVars
    <3>2. ReadType'
      BY <2>3, <3>1 DEF ReadType
    <3>3. PrevInv' /\ ErrorInv'
      BY <3>1, FileKept DEF ErrorInv
    <3>4. \A name : ValueGiven(name)' = ValueGiven(name) /\ OptionsFor(name)' = OptionsFor(name)
      <4>1. lines' = lines /\ options' = options
        BY <3>1
      <4>. QED
        BY <4>1 DEF ValueGiven, NumberOf, OptionsFor, FileValue, AssignedIn, Assigns, NameOf,
           ValueOf, Follows, Indented, Pairs, PairOf, LeadingNumber
    <3>5. SettingsInv' /\ NameInv'
      BY <2>3, <3>1, <3>4, FileKept DEF SettingsInv, NameInv
    <3>. QED
      BY <3>2, <3>3, <3>5
  <2>4. CASE NoFile \/ EndOfFile
    BY <2>3, <2>4 DEF NoFile, EndOfFile, optVars
  <2>5. CASE EndOfOptions
    BY <2>3, <2>5 DEF EndOfOptions
  <2>6. CASE FreeFilename
    BY <2>3, <2>6 DEF FreeFilename, optVars
  <2>7. CASE UNCHANGED vars
    BY <2>3, <2>7 DEF vars, iniVars, ReadType, NameInv
  <2>. QED
    BY <2>1, <2>2, <2>4, <2>5, <2>6, <2>7 DEF Next
<1>. QED
  BY <1>1, <1>2, PTL DEF Spec

\* For every file and every command line: the agent runs with the last value each
\* setting was given that is not refused, the command line before the file before the
\* default, however sections, indented lines and bad lines are mixed.
THEOREM SettingsCorrect == Spec => []SettingsAsGiven
<1>1. ConfigInv => SettingsAsGiven
  BY DEF ConfigInv, SettingsInv, SettingsAsGiven
<1>. QED
  BY <1>1, ConfigInvariant, PTL

\* The line ini_parse reports is the first bad one of the file, wherever in it that is
\* and whatever bad lines follow.
THEOREM FirstBadCorrect == Spec => []FirstBadLine
<1>1. ConfigInv => FirstBadLine
  BY DEF ConfigInv, ErrorInv, FirstBadLine
<1>. QED
  BY <1>1, ConfigInvariant, PTL

\* What is freed for the name of the debug output is memory of the agent's own exactly
\* when a line names it and no option does, and every other name a line gave is kept.
THEOREM FilenameCorrect == Spec => []FilenameReleased
<1>1. ASSUME ConfigInv, phase = "released"
      PROVE  LET named == AssignedIn(Filename)
                 given == OptionsFor(Filename)
             IN  /\ freed \subseteq allocated <=> named # {} /\ given = {}
                 /\ allocated \ freed
                      = {Heap(i) : i \in IF given = {} THEN {j \in named : j # Max(named)} ELSE named}
  <2>. DEFINE named == AssignedIn(Filename)
              given == OptionsFor(Filename)
  <2>1. /\ allocated = {Heap(i) : i \in named}
        /\ freed = {IF given # {} THEN Argv(Max(given))
                    ELSE IF named # {} THEN Heap(Max(named)) ELSE Literal}
    BY <1>1 DEF ConfigInv, NameInv
  <2>2. named # {} => Max(named) \in named
    <3>1. Len(lines) \in Nat /\ named \subseteq 1..Len(lines)
      BY <1>1, ReadFacts DEF ConfigInv, AssignedIn
    <3>. QED
      BY <3>1, MaxExists
  <2>3. \A i, j : /\ Heap(i) = Heap(j) <=> i = j
                  /\ Heap(i) # Argv(j) /\ Heap(i) # Literal
    BY DEF Heap, Argv, Literal
  <2>. HIDE DEF named, given
  <2>4. freed \subseteq allocated <=> named # {} /\ given = {}
    BY <2>1, <2>2, <2>3
  <2>5. allocated \ freed
          = {Heap(i) : i \in IF given = {} THEN {j \in named : j # Max(named)} ELSE named}
    BY <2>1, <2>2, <2>3
  <2>. QED
    BY <2>4, <2>5 DEF named, given
<1>2. ConfigInv => FilenameReleased
  BY <1>1 DEF FilenameReleased
<1>. QED
  BY <1>2, ConfigInvariant, PTL
==============================================================================
