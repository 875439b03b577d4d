------------------------------- MODULE Config -------------------------------
(***************************************************************************)
(* How the daemon starts: main() takes the options, Config's constructor   *)
(* reads the configuration file line by line, the options override fields, *)
(* verify() accepts or rejects them, and Syncer's constructor makes its    *)
(* list of destinations.  A missing file is created from a template.       *)
(*                                                                         *)
(* A line is a key with the words of its value.  A line has a value only   *)
(* if it has a "=": that is what the reader's variables, which live from   *)
(* one line to the next, make a difference of.  Comments and blank lines   *)
(* have the key "none", entries that nobody reads the key "other".         *)
(***************************************************************************)
EXTENDS Integers, Sequences, FiniteSetsExt, Functions

CONSTANTS
  UserFiles,      \* what the user may write into the configuration file
  CommandLines,   \* the lists of options that the daemon may be started with
  Words,          \* the words of a value
  Stoi,           \* the number at the beginning of those words that have one,
  TooLong,        \*   and those whose number is no int
  Directories     \* the directories that exist

TextKeys   == {"Source Directory", "Remote User", "Remote Host", "Remote Directory",
               "Exec", "Flags"}
SwitchKeys == {"Ignore Hidden", "Ignore Windows Lock", "Ignore Vim Swap"}
NumberKeys == {"Sync Period", "Propagation Delay", "Log Level", "Processes", "Threads"}
Keys == TextKeys \cup SwitchKeys \cup NumberKeys \cup {"Destination", "Metadata Directory"}

\* A value: its words, and how often LAST_RCTIME_NAME has been appended to it.
Value(words) == [words |-> words, names |-> 0]
Empty == Value(<<>>)

Line(key, words) == [key |-> key, assigned |-> TRUE, words |-> words]
Bare(key) == [key |-> key, assigned |-> FALSE, words |-> <<>>]

\* What init_config_file writes.
Template == [ended |-> TRUE, lines |->
  << Line("Source Directory", <<>>), Line("Ignore Hidden", <<"false">>),
     Line("Ignore Windows Lock", <<"true">>), Line("Ignore Vim Swap", <<"true">>),
     Line("Destination", <<>>), Line("Exec", <<"rsync">>), Line("Flags", <<"-a">>),
     Line("Metadata Directory", <<"/var">>), Line("Sync Period", <<"10">>),
     Line("Propagation Delay", <<"10">>), Line("Processes", <<"4">>),
     Line("Threads", <<"4">>), Line("Log Level", <<"1">>) >>]

EmptyFile == [ended |-> TRUE, lines |-> <<>>]
NoFile    == [ended |-> FALSE, lines |-> <<>>]

LineType == [key : Keys \cup {"none", "other"}, assigned : BOOLEAN, words : Seq(Words)]

ASSUME ConfigAssumption ==
  /\ {"false", "true", "rsync", "-a", "/var", "10", "4", "1"} \subseteq Words
  /\ Stoi \in [DOMAIN Stoi -> Int] /\ DOMAIN Stoi \subseteq Words
  /\ TooLong \subseteq Words \ DOMAIN Stoi
  /\ Directories \subseteq Words
  /\ \A file \in UserFiles :
       /\ file.lines \in Seq(LineType) /\ file.ended \in BOOLEAN
       /\ file.lines = <<>> => file.ended
  /\ CommandLines \subseteq
       Seq([opt : {"n", "t", "v", "q", "h", "V", "other"}, arg : Words])

VARIABLES
  phase,       \* how far the start has come; "off" and "up"; "failed" or "died"
  disk,        \* the configuration file
  started,     \* argv
  optind,      \* how many options of it have been taken
  override,    \* ConfigOverrides, by key
  version,     \* print_vers_and_exit
  text,        \* the file's contents as the constructor reads them
  pos,         \* the lines of it that have been read
  value,       \* the local variable of that name
  conf,        \* the fields of Config
  targets      \* destinations_ of Syncer

vars == <<phase, disk, started, optind, override, version, text, pos, value, conf, targets>>

Down == {"off", "failed", "died"}

Defaults ==
  [key \in Keys |-> CASE key \in SwitchKeys -> FALSE
                      [] key \in NumberKeys -> -1
                      [] key = "Destination" -> <<>>
                      [] OTHER -> Empty]

\* The key that an option overrides.
Overrides == [n |-> "Processes", t |-> "Threads", v |-> "Log Level", q |-> "Log Level"]

\* ConfigOverride: whether there is one, and its value.
NotGiven == [given |-> FALSE, to |-> 0]
Given(n) == [given |-> TRUE, to |-> n]

NoOverrides == [key \in Range(Overrides) |-> NotGiven]

Init ==
  /\ phase = "off"
  /\ disk \in {NoFile} \cup UserFiles
  /\ started = <<>> /\ optind = 0 /\ override = NoOverrides /\ version = FALSE
  /\ text = NoFile /\ pos = 0 /\ value = Empty
  /\ conf = Defaults
  /\ targets = <<>>

-----------------------------------------------------------------------------
(* main(): the options.                                                    *)

\* The program starts; how it was started before is of no account.
Launch(line) ==
  /\ phase \in Down
  /\ phase' = "options"
  /\ started' = line /\ optind' = 0
  /\ override' = NoOverrides /\ version' = FALSE
  /\ text' = NoFile /\ pos' = 0 /\ value' = Empty
  /\ conf' = Defaults
  /\ targets' = <<>>
  /\ UNCHANGED disk

configVars == <<text, pos, value, conf, targets>>
optionVars == <<started, optind, override, version>>

\* The next option, if it is one of these.
NextOption == started[optind + 1]
Opt(names) ==
  /\ phase = "options" /\ optind < Len(started)
  /\ NextOption.opt \in names
  /\ optind' = optind + 1
  /\ UNCHANGED <<disk, started, configVars>>

\* -n and -t: abort() if there is no number, and nobody catches out_of_range.
NumberOption ==
  /\ Opt({"n", "t"})
  /\ IF NextOption.arg \in DOMAIN Stoi
     THEN /\ override' = [override EXCEPT ![Overrides[NextOption.opt]] = Given(Stoi[NextOption.arg])]
          /\ UNCHANGED phase
     ELSE phase' = "died" /\ UNCHANGED override
  /\ UNCHANGED version

\* -v and -q.
LevelOption ==
  /\ Opt({"v", "q"})
  /\ override' = [override EXCEPT !["Log Level"] = Given(IF NextOption.opt = "v" THEN 2 ELSE 0)]
  /\ UNCHANGED <<phase, version>>

\* -h ends the program at once, -V when all the options have been read.
HelpOption == Opt({"h"}) /\ phase' = "off" /\ UNCHANGED <<override, version>>
VersionOption == Opt({"V"}) /\ version' = TRUE /\ UNCHANGED <<phase, override>>

\* The others do not concern the configuration.
OtherOption == Opt({"other"}) /\ UNCHANGED <<phase, override, version>>

EndOfOptions ==
  /\ phase = "options" /\ optind = Len(started)
  /\ phase' = IF version THEN "off" ELSE "open"
  /\ UNCHANGED <<disk, optionVars, configVars>>

-----------------------------------------------------------------------------
(* The constructor of Config.                                              *)

Open ==
  /\ phase = "open" /\ disk # NoFile
  /\ phase' = "read"
  /\ text' = disk
  /\ UNCHANGED <<disk, optionVars, pos, value, conf, targets>>

\* The file cannot be opened to be read and written, nor be created; std::fstream turns
\* down a file that may only be read.  (What was created and cannot be opened again is
\* read as an empty file, which verify() turns down.)
OpenFails ==
  /\ phase = "open"
  /\ phase' = "failed"
  /\ UNCHANGED <<disk, optionVars, configVars>>

\* init_config_file: the file is created ...
CreateFile ==
  /\ phase = "open" /\ disk = NoFile
  /\ phase' = "template"
  /\ disk' = EmptyFile
  /\ UNCHANGED <<optionVars, configVars>>

\* ... and written, and then it is read.
WriteTemplate ==
  /\ phase = "template"
  /\ phase' = "open"
  /\ disk' = Template
  /\ UNCHANGED <<optionVars, configVars>>

\* What getline() yields: when the last line does not end with a newline the stream
\* is still good after it, the next getline() leaves "line" as it is, and the line is
\* processed again.
LinesRead ==
  IF text.ended THEN text.lines ELSE Append(text.lines, text.lines[Len(text.lines)])

\* Fault: a line with an error keeps the field's last value.
NumberIfAny(key, v) ==
  IF v.words[1] \in DOMAIN Stoi THEN Stoi[v.words[1]] ELSE conf[key]

\* stoi(), with -1 for what is no number.
Number(key, v) == IF v.words[1] \in DOMAIN Stoi THEN Stoi[v.words[1]] ELSE -1

\* The words of the list of destinations, which is split at commas and spaces.
Split(v) == [i \in DOMAIN v.words |->
  [words |-> <<v.words[i]>>, names |-> IF i = Len(v.words) THEN v.names ELSE 0]]

\* Fault: a second line replaces the list.
ReplaceList(v) == Split(v)

ExtendList(v) == conf["Destination"] \o Split(v)

\* A key and a value that are not empty.  append() changes the variable, too.
Assign(key, v) ==
  /\ value' = IF key = "Metadata Directory" THEN [v EXCEPT !.names = @ + 1] ELSE v
  /\ \/ /\ key \in TextKeys \cup {"Metadata Directory"}
        /\ conf' = [conf EXCEPT ![key] = value']
     \/ /\ key = "Destination"
        /\ conf' = [conf EXCEPT ![key] = ExtendList(v)]
     \/ /\ key \in SwitchKeys
        /\ conf' = [conf EXCEPT ![key] = (v.words[1] = "true")]
     \/ /\ key \in NumberKeys
        /\ conf' = [conf EXCEPT ![key] = Number(key, v)]
     \/ key = "other" /\ UNCHANGED conf

\* The value of a line; without a "=" getline() leaves the one of a line before.
ValueOf(line) == IF line.assigned THEN Value(line.words) ELSE value

ReadLine ==
  /\ phase = "read" /\ pos < Len(LinesRead)
  /\ pos' = pos + 1
  /\ LET line == LinesRead[pos + 1]
         v == ValueOf(line)
     IN
     IF line.key = "none" THEN UNCHANGED <<phase, value, conf>>
     ELSE IF v.words = <<>> THEN value' = v /\ UNCHANGED <<phase, conf>>
     \* Nobody catches out_of_range.
     ELSE IF line.key \in NumberKeys /\ v.words[1] \in TooLong
     THEN phase' = "died" /\ value' = v /\ UNCHANGED conf
     ELSE Assign(line.key, v) /\ UNCHANGED phase
  /\ UNCHANGED <<disk, optionVars, text, targets>>

\* Fault: the fields are verified before they are overridden.
OverrideLate ==
  /\ phase = "read" /\ pos = Len(LinesRead)
  /\ phase' = "verify"
  /\ UNCHANGED <<disk, optionVars, text, pos, value, conf, targets>>

\* override_fields().
Override ==
  /\ phase = "read" /\ pos = Len(LinesRead)
  /\ phase' = "verify"
  /\ conf' = [key \in Keys |->
                IF key \in DOMAIN override /\ override[key].given
                THEN override[key].to ELSE conf[key]]
  /\ UNCHANGED <<disk, optionVars, text, pos, value, targets>>

Exists(v) == v.names = 0 /\ Len(v.words) = 1 /\ v.words[1] \in Directories

Deprecated == {"Remote User", "Remote Host", "Remote Directory"}

\* Fault: the directory is not looked for.
SourceNamed(c) == TRUE

SourceFound(c) == Exists(c["Source Directory"])

\* What verify() asks for.
Verified(c) ==
  /\ SourceFound(c)
  /\ (\E key \in Deprecated : c[key] # Empty) => c["Destination"] = <<>>
  /\ c["Metadata Directory"] # Empty
  /\ \A key \in NumberKeys : c[key] >= 0
  /\ c["Exec"] # Empty

Verify ==
  /\ phase = "verify"
  /\ phase' = IF Verified(conf) THEN "construct" ELSE "failed"
  /\ UNCHANGED <<disk, optionVars, configVars>>

-----------------------------------------------------------------------------
(* The constructor of Syncer, and the daemon's end.                        *)

Listed(v) == [user |-> Empty, host |-> Empty, path |-> v]

\* construct_destination(): the user counts only if there is a host.
Constructed(c) ==
  [user |-> IF c["Remote Host"] # Empty THEN c["Remote User"] ELSE Empty,
   host |-> c["Remote Host"],
   path |-> c["Remote Directory"]]

\* Fault: nothing is done about an empty list.
ListOnly(c) == [i \in DOMAIN c["Destination"] |-> Listed(c["Destination"][i])]

Targets(c) ==
  IF c["Destination"] = <<>> THEN <<Constructed(c)>>
  ELSE [i \in DOMAIN c["Destination"] |-> Listed(c["Destination"][i])]

Construct ==
  /\ phase = "construct"
  /\ phase' = "up"
  /\ targets' = Targets(conf)
  /\ UNCHANGED <<disk, optionVars, text, pos, value, conf>>

\* The daemon ends or is killed, in the middle of its start or later.
End ==
  /\ phase \notin Down
  /\ phase' = "off"
  /\ UNCHANGED <<disk, optionVars, configVars>>

\* The user writes the file, or edits the one that he has found.  Editing it again is
\* like another beginning, since Launch keeps nothing but the file.
Edit ==
  /\ phase \in Down
  /\ disk \in {NoFile, EmptyFile, Template}
  /\ disk' \in UserFiles
  /\ UNCHANGED <<phase, optionVars, configVars>>

Next ==
  \/ \E line \in CommandLines : Launch(line)
  \/ NumberOption \/ LevelOption \/ HelpOption \/ VersionOption \/ OtherOption
  \/ EndOfOptions
  \/ Open \/ OpenFails \/ CreateFile \/ WriteTemplate
  \/ ReadLine \/ Override \/ Verify \/ Construct
  \/ End
  \/ Edit

Spec == Init /\ [][Next]_vars

-----------------------------------------------------------------------------
(* What a file and a list of options mean, without a reader.               *)

Gives(line, key) == line.key = key /\ line.assigned /\ line.words # <<>>

\* The words that the last line for the key gives it.
WordsOf(lines, key) ==
  LET at == {i \in DOMAIN lines : Gives(lines[i], key)} IN
  IF at = {} THEN <<>> ELSE lines[Max(at)].words

\* What a field is to be, but for the list, with these words for its key.
FieldOf(key, words) ==
  CASE key \in SwitchKeys -> words # <<>> /\ words[1] = "true"
    [] key \in NumberKeys ->
         IF words # <<>> /\ words[1] \in DOMAIN Stoi THEN Stoi[words[1]] ELSE -1
    [] key = "Metadata Directory" ->
         [words |-> words, names |-> IF words = <<>> THEN 0 ELSE 1]
    [] OTHER -> Value(words)

\* The list: what every line for it gives, one after the other.
Written(lines) ==
  LET first[n \in 0..Len(lines)] ==
        IF n = 0 THEN <<>>
        ELSE first[n - 1] \o
               IF Gives(lines[n], "Destination") THEN Split(Value(lines[n].words)) ELSE <<>>
  IN first[Len(lines)]

\* The options of a command line that set the key, and what such an option sets it to.
Setting(line, key) ==
  {i \in DOMAIN line : line[i].opt \in DOMAIN Overrides /\ Overrides[line[i].opt] = key}
SetTo(option) ==
  CASE option.opt = "v" -> 2 [] option.opt = "q" -> 0 [] OTHER -> Stoi[option.arg]

Meant(file, line) == [key \in Keys |->
  IF key = "Destination" THEN Written(file.lines)
  ELSE IF Setting(line, key) # {} THEN SetTo(line[Max(Setting(line, key))])
  ELSE FieldOf(key, WordsOf(file.lines, key))]

\* The command line is one to start with, and every number can be read.
Readable(file, line) ==
  /\ \A i \in DOMAIN line :
       /\ line[i].opt \notin {"h", "V"}
       /\ line[i].opt \in {"n", "t"} => line[i].arg \in DOMAIN Stoi
  /\ \A i \in DOMAIN file.lines : \A key \in NumberKeys :
       Gives(file.lines[i], key) => file.lines[i].words[1] \notin TooLong

\* Two lists name the same targets, first in the same order.
Before(list, x, y) == \E i \in DOMAIN list : list[i] = x /\ \A j \in 1..i : list[j] # y
SameOrder(a, b) ==
  /\ Range(a) = Range(b)
  /\ \A x, y \in Range(a) : Before(a, x, y) <=> Before(b, x, y)

-----------------------------------------------------------------------------
(* Properties.                                                             *)

\* Every variable has its type.  Syncer has a destination when the daemon is up: its
\* iterator destination_ is dereferenced without a look at the list.
TypeOK ==
  /\ phase \in {"options", "open", "template", "read", "verify", "construct", "up"} \cup Down
  /\ \A file \in {disk, text} : file.ended \in BOOLEAN /\ file.lines \in Seq(LineType)
  /\ optind \in 0..Len(started)
  /\ override \in [Range(Overrides) -> [given : BOOLEAN, to : Int]]
  /\ version \in BOOLEAN
  /\ pos \in Nat
  /\ \A key \in NumberKeys : conf[key] \in Int
  /\ \A key \in SwitchKeys : conf[key] \in BOOLEAN
  /\ phase = "up" => targets # <<>>

\* A daemon that is up has the settings that its file and its options mean, the last
\* one of each counting, and its list of failover targets in the order in which they
\* are written ("Destination can be defined multiple times to append more failover
\* targets", README.md:52), whatever the reader keeps from one line to the next and
\* although it may process the last line twice.  A key without a value means nothing
\* ("ignore unassigned fields", config.cpp:75).
MeansWhatItSays ==
  phase = "up" =>
    LET meant == Meant(text, started) IN
    /\ \A key \in DOMAIN conf \ {"Destination"} : conf[key] = meant[key]
    /\ SameOrder(targets, Targets(meant))

\* A file that can be opened and options whose meaning passes the checks are never
\* turned down: an option repairs what is wrong in the file, a later line an earlier one.
SoundStarts ==
  phase \in {"failed", "died"} /\ text # NoFile =>
    ~(Readable(text, started) /\ Verified(Meant(text, started)))

\* No daemon runs on a file that it has written itself, whole or cut short by its
\* end: it would take the defaults for what the user wants.
NotOnTemplate ==
  phase = "up" => text \notin {Template, EmptyFile}
=============================================================================
