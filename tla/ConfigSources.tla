---------------------------- MODULE ConfigSources ----------------------------
(***************************************************************************)
(* Where the settings come from: the defaults, the lines of                *)
(* pmdastatsd.ini (ini.c and ini_line_handler), the options of the command *)
(* line, and what becomes of the name of the debug output at the end       *)
(* (config-reader.c, free_shared_data).                                    *)
(***************************************************************************)
EXTENDS Integers, Sequences, FiniteSetsExt

CONSTANTS
    Setting,    \* the numeric settings considered
    Default,    \* their defaults
    PortLimit,  \* numbers a port is below (65535)
    UintLimit,  \* numbers the other settings are below (UINT32_MAX)
    MaxLines, MaxOptions, MaxInputs,    \* bounds of the runs
    NoName      \* no name before a line

Filename == "debug_output_filename"

Number == 0..UintLimit

Flags == {"verbose", "debug", "version"}

ASSUME SettingAssumption ==
    /\ Setting \subseteq Flags \cup {"port", "max_udp_packet_size", "max_unprocessed_packets",
                                     "parser_type", "duration_aggregation_type"}
    /\ Default \in [Setting -> Nat]
    /\ PortLimit \in Nat \ {0} /\ UintLimit \in Nat /\ PortLimit < UintLimit
    /\ NoName \notin Setting \cup {Filename, "unknown"}

\* A line of the file.  "bare" is a line without a separator; text that is no number
\* is 0 for strtoul.  Blank lines are comments, which may be indented like others.
Line ==
    [kind : {"comment"}, indented : {FALSE}]
    \cup [kind : {"section", "open section"}, indented : BOOLEAN]
    \cup [kind : {"pair"}, indented : BOOLEAN, name : Setting \cup {Filename, "unknown"}, value : Number]
    \cup [kind : {"bare"}, indented : BOOLEAN, value : Number]

Option ==
    [to : Setting \ Flags, value : Number]
    \cup [to : (Setting \cap Flags) \cup {Filename, "username", "tcp-address", "unknown"}]

VARIABLES
    settings, debug_output_filename, username,
    prev_name, error,   \* of ini_parse_stream
    opts,               \* options refused, and the username among them
    allocated,          \* file names that ini_line_handler allocated
    freed,              \* what free_shared_data frees for the file name
    phase,
    lines, options      \* what has been read so far

iniVars == <<prev_name, error, allocated, lines>>

optVars == <<opts, username, options>>

vars == <<settings, debug_output_filename, username, prev_name, error, opts, allocated,
          freed, phase, lines, options>>

\* Memory a file name is in: the literal of the default, a line's, an option's.
Literal == <<"literal">>

Heap(lineno) == <<"heap", lineno>>

Argv(i) == <<"argv", i>>

Limit(name) == IF name = "port" THEN PortLimit ELSE UintLimit

\* set_default_config.
Init ==
    /\ settings = Default
    /\ debug_output_filename = Literal
    /\ username = "own"
    /\ prev_name = NoName
    /\ error = 0
    /\ opts = [errors |-> FALSE, username |-> FALSE]
    /\ allocated = {}
    /\ freed = {}
    /\ phase = "file"
    /\ lines = <<>>
    /\ options = <<>>

\* Numbers at their limit or above leave a setting as it was.
Assign(name, number) ==
    settings' = IF number < Limit(name) THEN [settings EXCEPT ![name] = number] ELSE settings

-----------------------------------------------------------------------------
(* ini_parse_stream *)

lineno == Len(lines) + 1

\* Mutant: the error returned is that of the last bad line.
LastError(is_bad) == error' = IF is_bad THEN lineno ELSE error

FirstError(is_bad) == error' = IF is_bad /\ error = 0 THEN lineno ELSE error

\* ini_line_handler, and what the reader makes of its result.
Handle(name, value) ==
    \/ /\ name \in Setting
       /\ Assign(name, value)
       /\ FirstError(FALSE)
       /\ UNCHANGED <<debug_output_filename, allocated>>
    \/ /\ name = Filename
       /\ debug_output_filename' = Heap(lineno)
       /\ allocated' = allocated \cup {Heap(lineno)}
       /\ FirstError(FALSE)
       /\ UNCHANGED settings
    \/ /\ name = "unknown"
       /\ FirstError(TRUE)
       /\ UNCHANGED <<settings, debug_output_filename, allocated>>

\* Nothing for the handler.
Skip(is_bad) ==
    /\ FirstError(is_bad)
    /\ UNCHANGED <<settings, debug_output_filename, allocated>>

\* The number at the start of a line.
LeadingNumber(line) == IF line.kind = "bare" THEN line.value ELSE 0

\* Non-blank and indented behind a pair: one more value for its name.
Continues(line) == line.indented /\ prev_name # NoName /\ line.kind # "comment"

Continuation(line) ==
    /\ Continues(line)
    /\ Handle(prev_name, LeadingNumber(line))
    /\ UNCHANGED prev_name

\* Mutant: the name of the pair before a section stays.
SectionKeepsName(line) == ~Continues(line) /\ line.kind = "section" /\ Skip(FALSE) /\ UNCHANGED prev_name

Section(line) ==
    /\ ~Continues(line)
    /\ line.kind = "section"
    /\ Skip(FALSE)
    /\ prev_name' = NoName

Pair(line) ==
    /\ ~Continues(line)
    /\ line.kind = "pair"
    /\ Handle(line.name, line.value)
    /\ prev_name' = line.name

Unusable(line) ==
    /\ ~Continues(line)
    /\ line.kind \in {"comment", "open section", "bare"}
    /\ Skip(line.kind # "comment")
    /\ UNCHANGED prev_name

\* Reading goes on after a bad line.
ReadLine(line) ==
    /\ phase = "file"
    /\ Len(lines) < MaxLines
    /\ Continuation(line) \/ Section(line) \/ Pair(line) \/ Unusable(line)
    /\ lines' = Append(lines, line)
    /\ UNCHANGED <<optVars, freed, phase>>

\* read_agent_config_file: only a file that cannot be read ends the agent.
NoFile ==
    /\ phase = "file"
    /\ lines = <<>>
    /\ phase' = "died"
    /\ UNCHANGED <<settings, debug_output_filename, iniVars, optVars, freed>>

EndOfFile ==
    /\ phase = "file"
    /\ phase' = "command line"
    /\ UNCHANGED <<settings, debug_output_filename, iniVars, optVars, freed>>

-----------------------------------------------------------------------------
(* read_agent_config_cmd *)

\* The size of datagrams is the one number taken as it is.
NumberOption(option) ==
    /\ option.to \in Setting \ Flags
    /\ \/ /\ option.to = "max_udp_packet_size"
          /\ settings' = [settings EXCEPT ![option.to] = option.value]
       \/ /\ option.to # "max_udp_packet_size"
          /\ Assign(option.to, option.value)
    /\ UNCHANGED <<debug_output_filename, opts>>

FlagOption(option) ==
    /\ option.to \in Setting \cap Flags
    /\ settings' = [settings EXCEPT ![option.to] = 1]
    /\ UNCHANGED <<debug_output_filename, opts>>

\* Mutant: a name from the file is kept.
FilenameOptionLate(option) ==
    /\ option.to = Filename
    /\ debug_output_filename' = IF allocated = {} THEN Argv(Len(options) + 1) ELSE debug_output_filename
    /\ UNCHANGED <<settings, opts>>

FilenameOption(option) ==
    /\ option.to = Filename
    /\ debug_output_filename' = Argv(Len(options) + 1)
    /\ UNCHANGED <<settings, opts>>

\* Those that only pmdaGetOptions looks at.
OtherOption(option) ==
    /\ option.to \in {"username", "tcp-address", "unknown"}
    /\ opts' = [errors |-> opts.errors \/ option.to = "unknown",
                username |-> opts.username \/ option.to = "username"]
    /\ UNCHANGED <<settings, debug_output_filename>>

ReadOption(option) ==
    /\ phase = "command line"
    /\ Len(options) < MaxOptions
    /\ Len(lines) + Len(options) < MaxInputs
    /\ NumberOption(option) \/ FlagOption(option) \/ FilenameOption(option) \/ OtherOption(option)
    /\ options' = Append(options, option)
    /\ UNCHANGED <<iniVars, username, freed, phase>>

EndOfOptions ==
    /\ phase = "command line"
    /\ \/ opts.errors /\ phase' = "usage" /\ UNCHANGED username
       \/ /\ ~opts.errors
          /\ phase' = "configured"
          /\ username' = IF opts.username THEN "given" ELSE username
    /\ UNCHANGED <<settings, debug_output_filename, iniVars, opts, options, freed>>

\* free_shared_data at shutdown.
FreeFilename ==
    /\ phase = "configured"
    /\ freed' = {debug_output_filename}
    /\ phase' = "released"
    /\ UNCHANGED <<settings, debug_output_filename, iniVars, optVars>>

Next ==
    \/ \E line \in Line : ReadLine(line)
    \/ NoFile
    \/ EndOfFile
    \/ \E option \in Option : ReadOption(option)
    \/ EndOfOptions
    \/ FreeFilename

Spec == Init /\ [][Next]_vars
-----------------------------------------------------------------------------
(* What file and command line say, read as a whole *)

Pairs == {i \in DOMAIN lines : lines[i].kind = "pair"}

Indented(i) == lines[i].indented /\ lines[i].kind # "comment"

\* An indented line belongs to a pair unless a section begins between the two.
Follows(i) ==
    /\ Indented(i)
    /\ \E j \in Pairs :
         /\ j < i
         /\ \A k \in j + 1..i - 1 : ~(lines[k].kind = "section" /\ ~lines[k].indented)

\* The pair a line assigns to, if it does.
PairOf(i) == {j \in Pairs : j <= i /\ ~Follows(j)}

Assigns(i) == Follows(i) \/ i \in Pairs

NameOf(i) == lines[Max(PairOf(i))].name

ValueOf(i) == IF Follows(i) THEN LeadingNumber(lines[i]) ELSE lines[i].value

BadLines ==
    {i \in DOMAIN lines :
        IF Assigns(i) THEN NameOf(i) = "unknown" ELSE lines[i].kind \in {"open section", "bare"}}

AssignedIn(name) ==
    {i \in DOMAIN lines : Assigns(i) /\ NameOf(i) = name}

FileValue(name) ==
    LET accepted == {i \in AssignedIn(name) : ValueOf(i) < Limit(name)}
    IN  IF accepted = {} THEN Default[name] ELSE ValueOf(Max(accepted))

OptionsFor(name) == {i \in DOMAIN options : options[i].to = name}

NumberOf(name, i) == IF name \in Flags THEN 1 ELSE options[i].value

\* The last option that is not refused, or else what the file gives.
ValueGiven(name) ==
    LET accepted == {i \in OptionsFor(name) :
                        name = "max_udp_packet_size" \/ NumberOf(name, i) < Limit(name)}
    IN  IF accepted = {} THEN FileValue(name) ELSE NumberOf(name, Max(accepted))
-----------------------------------------------------------------------------
(* Properties *)

Configured == phase \in {"configured", "released"}

\* The agent runs with the last value each setting was given, the command line before
\* the file and the file before the default, whatever bad lines, sections and indented
\* lines there are between; values at a limit count as not given, those of the size
\* of datagrams on the command line excepted.
SettingsAsGiven ==
    Configured => \A name \in Setting : settings[name] = ValueGiven(name)

\* The line ini_parse reports is the first bad one, although all that follow are read.
FirstBadLine ==
    phase # "file" /\ phase # "died"
      => error = IF BadLines = {} THEN 0 ELSE Min(BadLines)

\* The agent frees the name of the debug output only once and only as given last;
\* that is memory of its own exactly when the file names it and no option does, and
\* the other names that the file gave are never freed.
FilenameReleased ==
    phase = "released"
      => LET named == AssignedIn(Filename)
             given == OptionsFor(Filename)
         IN  /\ freed \subseteq allocated <=> named # {} /\ given = {}
             /\ allocated \ freed
                  = {Heap(i) : i \in IF given = {} THEN {j \in named : j # Max(named)} ELSE named}
=============================================================================
