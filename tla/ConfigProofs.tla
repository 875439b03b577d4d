---------------------------- MODULE ConfigProofs ----------------------------
(***************************************************************************)
(* What the start of the daemon makes of any file and any options.         *)
(***************************************************************************)
EXTENDS Config, Extrema, SequenceTheorems

-----------------------------------------------------------------------------
(* Types.                                                                  *)

Files == {EmptyFile, Template} \cup UserFiles

FileOK(file) ==
  /\ file.lines \in Seq(LineType) /\ file.ended \in BOOLEAN
  /\ file.lines = <<>> => file.ended

LEMMA TemplateIs ==
  /\ Len(Template.lines) = 13 /\ Template.ended = TRUE
  /\ Template.lines = [i \in 1..13 |-> Template.lines[i]]
BY DEF Template

LEMMA FilesOK == \A file \in Files : FileOK(file) /\ file # NoFile
<1>1. FileOK(EmptyFile)
  BY DEF FileOK, EmptyFile
<1>2. FileOK(Template)
  <2> DEFINE W == Seq(Words)
  <2>1. /\ <<>> \in W /\ <<"false">> \in W /\ <<"true">> \in W /\ <<"rsync">> \in W
        /\ <<"-a">> \in W /\ <<"/var">> \in W /\ <<"10">> \in W /\ <<"4">> \in W
        /\ <<"1">> \in W
    BY ConfigAssumption
  <2> HIDE DEF W
  <2>2. ASSUME NEW key \in Keys, NEW words \in W
        PROVE  Line(key, words) \in LineType
    BY <2>2 DEF Line, LineType, W
  <2>3. /\ "Source Directory" \in Keys /\ "Ignore Hidden" \in Keys
        /\ "Ignore Windows Lock" \in Keys /\ "Ignore Vim Swap" \in Keys
        /\ "Destination" \in Keys /\ "Exec" \in Keys /\ "Flags" \in Keys
        /\ "Metadata Directory" \in Keys /\ "Sync Period" \in Keys
        /\ "Propagation Delay" \in Keys /\ "Processes" \in Keys /\ "Threads" \in Keys
        /\ "Log Level" \in Keys
    BY DEF Keys, TextKeys, SwitchKeys, NumberKeys
  <2>4. /\ Line("Source Directory", <<>>) \in LineType
        /\ Line("Ignore Hidden", <<"false">>) \in LineType
        /\ Line("Ignore Windows Lock", <<"true">>) \in LineType
        /\ Line("Ignore Vim Swap", <<"true">>) \in LineType
        /\ Line("Destination", <<>>) \in LineType
        /\ Line("Exec", <<"rsync">>) \in LineType
        /\ Line("Flags", <<"-a">>) \in LineType
        /\ Line("Metadata Directory", <<"/var">>) \in LineType
        /\ Line("Sync Period", <<"10">>) \in LineType
        /\ Line("Propagation Delay", <<"10">>) \in LineType
        /\ Line("Processes", <<"4">>) \in LineType
        /\ Line("Threads", <<"4">>) \in LineType
        /\ Line("Log Level", <<"1">>) \in LineType
    BY <2>1, <2>2, <2>3
  <2>5. Template.lines \in Seq(LineType) /\ Template.lines # <<>> /\ Template.ended = TRUE
    <3>1. /\ Len(Template.lines) = 13 /\ Template.ended = TRUE
          /\ Template.lines = [i \in 1..13 |-> Template.lines[i]]
      BY TemplateIs
    <3>2. \A i \in 1..13 : Template.lines[i] \in LineType
      <4>1. \A i \in 1..13 : i = 1 \/ i = 2 \/ i = 3 \/ i = 4 \/ i = 5 \/ i = 6 \/ i = 7
              \/ i = 8 \/ i = 9 \/ i = 10 \/ i = 11 \/ i = 12 \/ i = 13
        OBVIOUS
      <4>2. /\ Template.lines[1] \in LineType /\ Template.lines[2] \in LineType
            /\ Template.lines[3] \in LineType /\ Template.lines[4] \in LineType
            /\ Template.lines[5] \in LineType /\ Template.lines[6] \in LineType
            /\ Template.lines[7] \in LineType /\ Template.lines[8] \in LineType
            /\ Template.lines[9] \in LineType /\ Template.lines[10] \in LineType
            /\ Template.lines[11] \in LineType /\ Template.lines[12] \in LineType
            /\ Template.lines[13] \in LineType
        BY <2>4 DEF Template
      <4> QED BY <4>1, <4>2
    <3>3. Template.lines \in Seq(LineType)
      <4> DEFINE t == Template.lines
      <4>1. t = [i \in 1..13 |-> t[i]] /\ \A i \in 1..13 : t[i] \in LineType BY <3>1, <3>2
      <4> HIDE DEF t
      <4>2. t \in [1..13 -> LineType] BY <4>1
      <4>3. [1..13 -> LineType] \in {[1..n -> LineType] : n \in Nat} OBVIOUS
      <4>4. t \in UNION {[1..n -> LineType] : n \in Nat} BY <4>2, <4>3, Zenon
      <4> QED BY <4>4, SeqDef, Zenon DEF t
    <3> QED BY <3>1, <3>3
  <2> QED BY <2>5 DEF FileOK
<1>3. \A file \in UserFiles : FileOK(file)
  BY ConfigAssumption DEF FileOK
<1>4. \A file : FileOK(file) => file # NoFile
  BY DEF FileOK, NoFile
<1> QED BY <1>1, <1>2, <1>3, <1>4 DEF Files

ValueType == [words : Seq(Words), names : Nat]
OptionType == [opt : {"n", "t", "v", "q", "h", "V", "other"}, arg : Words]

ConfOK(c) ==
  /\ c = [key \in Keys |-> c[key]]
  /\ \A key \in TextKeys \cup {"Metadata Directory"} : c[key] \in ValueType
  /\ \A key \in NumberKeys : c[key] \in Int
  /\ \A key \in SwitchKeys : c[key] \in BOOLEAN
  /\ c["Destination"] \in Seq(ValueType)

\* No key belongs to two kinds.
LEMMA KindsOfKeys ==
  /\ TextKeys \cap SwitchKeys = {} /\ TextKeys \cap NumberKeys = {}
  /\ SwitchKeys \cap NumberKeys = {}
  /\ "Destination" \notin TextKeys \cup SwitchKeys \cup NumberKeys
  /\ "Metadata Directory" \notin TextKeys \cup SwitchKeys \cup NumberKeys
  /\ {"none", "other"} \cap Keys = {}
BY DEF TextKeys, SwitchKeys, NumberKeys, Keys

LEMMA OverridesAre ==
  /\ DOMAIN Overrides = {"n", "t", "v", "q"}
  /\ Overrides["n"] = "Processes" /\ Overrides["t"] = "Threads"
  /\ Overrides["v"] = "Log Level" /\ Overrides["q"] = "Log Level"
  /\ Range(Overrides) = {"Processes", "Threads", "Log Level"}
  /\ Range(Overrides) \subseteq NumberKeys
<1>1. /\ DOMAIN Overrides = {"n", "t", "v", "q"}
      /\ Overrides["n"] = "Processes" /\ Overrides["t"] = "Threads"
      /\ Overrides["v"] = "Log Level" /\ Overrides["q"] = "Log Level"
  BY DEF Overrides
<1>2. Range(Overrides) = {Overrides[x] : x \in {"n", "t", "v", "q"}}
  BY <1>1 DEF Range
<1>3. Range(Overrides) = {"Processes", "Threads", "Log Level"}
  BY <1>1, <1>2
<1> QED BY <1>1, <1>3 DEF NumberKeys

LEMMA ConfSet ==
  ASSUME NEW c, ConfOK(c), NEW key \in Keys, NEW v,
         key \in TextKeys \cup {"Metadata Directory"} => v \in ValueType,
         key \in NumberKeys => v \in Int,
         key \in SwitchKeys => v \in BOOLEAN,
         key = "Destination" => v \in Seq(ValueType)
  PROVE  ConfOK([c EXCEPT ![key] = v])
<1> DEFINE d == [c EXCEPT ![key] = v]
<1>1. DOMAIN c = Keys BY DEF ConfOK
<1>2. d = [k \in Keys |-> IF k = key THEN v ELSE c[k]] BY <1>1
<1>3. \A k \in Keys : d[k] = IF k = key THEN v ELSE c[k] BY <1>2
<1>4. d = [k \in Keys |-> d[k]] BY <1>2
<1> HIDE DEF d
<1>5. TextKeys \cup {"Metadata Directory"} \cup NumberKeys \cup SwitchKeys \cup {"Destination"}
      \subseteq Keys
  BY DEF Keys
<1> QED BY <1>3, <1>4, <1>5 DEF ConfOK, d

LEMMA DefaultsOK == ConfOK(Defaults)
<1>1. Empty \in ValueType BY DEF Empty, Value, ValueType
<1>2. \A key \in Keys : Defaults[key] = CASE key \in SwitchKeys -> FALSE
                                          [] key \in NumberKeys -> -1
                                          [] key = "Destination" -> <<>>
                                          [] OTHER -> Empty
  BY DEF Defaults
<1>3. Defaults = [key \in Keys |-> Defaults[key]] BY DEF Defaults
<1>4. TextKeys \cup {"Metadata Directory"} \cup NumberKeys \cup SwitchKeys \cup {"Destination"}
      \subseteq Keys
  BY DEF Keys
<1>5. \A key \in TextKeys \cup {"Metadata Directory"} : Defaults[key] = Empty
  BY <1>2, <1>4, KindsOfKeys
<1>6. \A key \in NumberKeys : Defaults[key] = -1 BY <1>2, <1>4, KindsOfKeys
<1>7. \A key \in SwitchKeys : Defaults[key] = FALSE BY <1>2, <1>4, KindsOfKeys
<1>8. Defaults["Destination"] = <<>> BY <1>2, <1>4, KindsOfKeys
<1>9. -1 \in Int /\ FALSE \in BOOLEAN /\ <<>> \in Seq(ValueType) OBVIOUS
<1> QED BY <1>1, <1>3, <1>5, <1>6, <1>7, <1>8, <1>9, Zenon DEF ConfOK

Phases == {"options", "open", "template", "read", "verify", "construct", "up"} \cup Down
OverrideType == [Range(Overrides) -> [given : BOOLEAN, to : Int]]

LinesIn(file) ==
  IF file.ended THEN file.lines ELSE Append(file.lines, file.lines[Len(file.lines)])

LEMMA LinesInOK ==
  ASSUME NEW file, FileOK(file)
  PROVE  LinesIn(file) \in Seq(LineType)
<1>1. CASE file.ended BY <1>1 DEF LinesIn, FileOK
<1>2. CASE ~file.ended
  <2>1. file.lines \in Seq(LineType) /\ file.lines # <<>> BY <1>2 DEF FileOK
  <2>2. file.lines[Len(file.lines)] \in LineType BY <2>1
  <2> QED BY <1>2, <2>1, <2>2 DEF LinesIn
<1> QED BY <1>1, <1>2

LEMMA LinesReadOK ==
  ASSUME FileOK(text)
  PROVE  LinesRead \in Seq(LineType)
<1>1. LinesRead = LinesIn(text) BY DEF LinesRead, LinesIn
<1> QED BY <1>1, LinesInOK

\* What the next line of the file yields.
LEMMA ReadLineOK ==
  ASSUME FileOK(text), value \in ValueType, pos \in Nat, pos < Len(LinesRead)
  PROVE  /\ LinesRead[pos + 1] \in LineType
         /\ ValueOf(LinesRead[pos + 1]) \in ValueType
<1>1. LinesRead \in Seq(LineType) BY LinesReadOK
<1>2. LinesRead[pos + 1] \in LineType BY <1>1
<1>3. \A line \in LineType : ValueOf(line) \in ValueType
  BY DEF ValueOf, Value, LineType, ValueType
<1> QED BY <1>2, <1>3

LEMMA SplitOK ==
  ASSUME NEW v \in ValueType
  PROVE  /\ Split(v) \in Seq(ValueType) /\ Len(Split(v)) = Len(v.words)
         /\ Split(v) = [i \in 1..Len(v.words) |-> Split(v)[i]]
<1>1. v.words \in Seq(Words) /\ Len(v.words) \in Nat /\ DOMAIN v.words = 1..Len(v.words)
  BY DEF ValueType
<1>2. Split(v) = [i \in 1..Len(v.words) |->
         [words |-> <<v.words[i]>>, names |-> IF i = Len(v.words) THEN v.names ELSE 0]]
  BY <1>1 DEF Split
<1>3. \A i \in 1..Len(v.words) :
         [words |-> <<v.words[i]>>, names |-> IF i = Len(v.words) THEN v.names ELSE 0]
           \in ValueType
  <2>1. ASSUME NEW i \in 1..Len(v.words)
        PROVE <<v.words[i]>> \in Seq(Words) /\ v.names \in Nat
    <3>1. v.words[i] \in Words BY <1>1
    <3> QED BY <3>1 DEF ValueType
  <2> QED BY <2>1 DEF ValueType
<1>4. Split(v) \in [1..Len(v.words) -> ValueType] BY <1>2, <1>3
<1>5. Split(v) \in Seq(ValueType)
  <2>1. [1..Len(v.words) -> ValueType] \in {[1..n -> ValueType] : n \in Nat} BY <1>1
  <2>2. Split(v) \in UNION {[1..n -> ValueType] : n \in Nat} BY <1>4, <2>1, Zenon
  <2> QED BY <2>2, SeqDef, Zenon
<1>6. Len(Split(v)) = Len(v.words) BY <1>1, <1>2
<1> QED BY <1>2, <1>5, <1>6

-----------------------------------------------------------------------------
(* The types of the variables.                                             *)

TypeInv ==
  /\ phase \in Phases
  /\ disk \in Files \cup {NoFile} /\ text \in Files \cup {NoFile}
  /\ started \in Seq(OptionType) /\ optind \in 0..Len(started)
  /\ override \in OverrideType
  /\ version \in BOOLEAN
  /\ pos \in Nat /\ value \in ValueType /\ ConfOK(conf)
  /\ phase = "up" => targets # <<>>
  /\ phase \in {"read", "verify", "construct", "up"} => text \in Files
  /\ phase \in {"options", "open", "template"} => text = NoFile /\ pos = 0 /\ conf = Defaults

LEMMA NoOverridesOK == NoOverrides \in OverrideType
BY DEF NoOverrides, OverrideType, NotGiven

LEMMA EmptyOK == Empty \in ValueType
BY DEF Empty, Value, ValueType

LEMMA TypeInit == Init => TypeInv
<1> SUFFICES ASSUME Init PROVE TypeInv OBVIOUS
<1>1. disk \in Files \cup {NoFile} BY DEF Init, Files
<1>2. started \in Seq(OptionType) /\ optind \in 0..Len(started) BY DEF Init
<1> QED BY <1>1, <1>2, DefaultsOK, NoOverridesOK, EmptyOK DEF Init, TypeInv, Phases, Down

LEMMA TypeStep == ASSUME TypeInv, [Next]_vars PROVE TypeInv'
<1> USE DEF TypeInv
<1> DEFINE Same == UNCHANGED <<text, pos, value, conf, targets>>
<1>1. ASSUME NEW line \in CommandLines, Launch(line) PROVE TypeInv'
  <2>1. line \in Seq(OptionType) BY ConfigAssumption DEF OptionType
  <2>2. started' \in Seq(OptionType) /\ optind' \in 0..Len(started')
    BY <1>1, <2>1 DEF Launch
  <2> QED BY <1>1, <2>2, DefaultsOK, NoOverridesOK, EmptyOK DEF Launch, Phases
<1>2. ASSUME NEW names, Opt(names), override' \in OverrideType, version' \in BOOLEAN,
             phase' \in {phase, "died", "off"}
      PROVE  TypeInv'
  <2>1. optind' \in 0..Len(started') /\ started' = started BY <1>2 DEF Opt
  <2> QED BY <1>2, <2>1 DEF Opt, configVars, Phases, Down
<1>3. ASSUME NEW names, Opt(names)
      PROVE  NextOption \in OptionType /\ NextOption.opt \in names
  <2>1. optind + 1 \in 1..Len(started) BY <1>3 DEF Opt
  <2> QED BY <1>3, <2>1 DEF NextOption, Opt
<1>4. ASSUME NEW key \in Range(Overrides), NEW n \in Int
      PROVE  [override EXCEPT ![key] = Given(n)] \in OverrideType
  BY DEF OverrideType, Given
<1>5. CASE NumberOption
  <2>1. Opt({"n", "t"}) BY <1>5 DEF NumberOption
  <2>2. NextOption.opt \in {"n", "t"} BY <1>3, <2>1
  <2>3. Overrides[NextOption.opt] \in Range(Overrides) BY <2>2, OverridesAre
  <2>4. NextOption.arg \in DOMAIN Stoi => Stoi[NextOption.arg] \in Int BY ConfigAssumption
  <2>5. override' \in OverrideType BY <1>4, <1>5, <2>3, <2>4 DEF NumberOption
  <2> QED BY <1>2, <1>5, <2>1, <2>5 DEF NumberOption
<1>6. CASE LevelOption
  <2>1. "Log Level" \in Range(Overrides) BY OverridesAre
  <2> DEFINE n == IF NextOption.opt = "v" THEN 2 ELSE 0
  <2>3. n \in Int OBVIOUS
  <2>4. override' = [override EXCEPT !["Log Level"] = Given(n)]
    BY <1>6, Zenon DEF LevelOption
  <2> HIDE DEF n
  <2>2. override' \in OverrideType BY <1>4, <2>1, <2>3, <2>4
  <2> QED BY <1>2, <1>6, <2>2 DEF LevelOption
<1>7. CASE HelpOption BY <1>2, <1>7 DEF HelpOption
<1>8. CASE VersionOption BY <1>2, <1>8 DEF VersionOption
<1>9. CASE OtherOption BY <1>2, <1>9 DEF OtherOption
<1>10. CASE EndOfOptions BY <1>10 DEF EndOfOptions, optionVars, configVars, Phases, Down
<1>11. CASE Open
  BY <1>11, FilesOK DEF Open, optionVars, Phases
<1>12. CASE OpenFails \/ CreateFile
  BY <1>12 DEF OpenFails, CreateFile, optionVars, configVars, Phases, Down, Files
<1>13. CASE WriteTemplate
  BY <1>13 DEF WriteTemplate, optionVars, configVars, Phases, Files
<1>14. CASE ReadLine
  <2> DEFINE line == LinesRead[pos + 1]
             v == ValueOf(line)
  <2>1. FileOK(text) /\ pos < Len(LinesRead) /\ phase = "read"
    BY <1>14, FilesOK DEF ReadLine
  <2>2. line \in LineType /\ v \in ValueType BY <2>1, ReadLineOK
  <2>3. /\ text' = text /\ disk' = disk /\ UNCHANGED optionVars /\ pos' = pos + 1
        /\ targets' = targets /\ phase' \in {"read", "died"}
    BY <1>14, <2>1 DEF ReadLine
  <2> HIDE DEF line, v
  <2>4. \/ UNCHANGED <<value, conf>>
        \/ value' = v /\ UNCHANGED conf
        \/ Assign(line.key, v) /\ v.words # <<>>
    BY <1>14 DEF ReadLine, line, v
  <2>5. value' \in ValueType /\ ConfOK(conf')
    <3>1. CASE UNCHANGED <<value, conf>> BY <3>1
    <3>2. CASE value' = v /\ UNCHANGED conf BY <2>2, <3>2
    <3>3. CASE Assign(line.key, v) /\ v.words # <<>>
      <4> DEFINE key == line.key
      <4>1. value' \in ValueType
        <5>1. [v EXCEPT !.names = @ + 1] \in ValueType BY <2>2 DEF ValueType
        <5> QED BY <2>2, <3>3, <5>1 DEF Assign
      <4>2. CASE /\ key \in TextKeys \cup {"Metadata Directory"}
                 /\ conf' = [conf EXCEPT ![key] = value']
        <5>1. key \in Keys BY <4>2 DEF Keys
        <5>2. key \notin NumberKeys /\ key \notin SwitchKeys /\ key # "Destination"
          BY <4>2, KindsOfKeys
        <5> HIDE DEF key
        <5> QED BY <4>1, <4>2, <5>1, <5>2, ConfSet
      <4>3. CASE key = "Destination" /\ conf' = [conf EXCEPT ![key] = ExtendList(v)]
        <5>1. ExtendList(v) \in Seq(ValueType)
          <6>1. Split(v) \in Seq(ValueType) BY <2>2, SplitOK
          <6>2. conf["Destination"] \in Seq(ValueType) BY DEF ConfOK
          <6> QED BY <6>1, <6>2, ConcatProperties DEF ExtendList
        <5>2. /\ key \in Keys /\ key \notin TextKeys \cup {"Metadata Directory"}
              /\ key \notin NumberKeys /\ key \notin SwitchKeys
          BY <4>3, KindsOfKeys DEF Keys
        <5> HIDE DEF key
        <5> QED BY <4>1, <4>3, <5>1, <5>2, ConfSet
      <4>4. CASE key \in SwitchKeys /\ conf' = [conf EXCEPT ![key] = (v.words[1] = "true")]
        <5>1. (v.words[1] = "true") \in BOOLEAN OBVIOUS
        <5>2. /\ key \in Keys /\ key \notin TextKeys \cup {"Metadata Directory"}
              /\ key \notin NumberKeys /\ key # "Destination"
          BY <4>4, KindsOfKeys DEF Keys
        <5> DEFINE b == (v.words[1] = "true")
        <5>3. conf' = [conf EXCEPT ![key] = b] BY <4>4
        <5> HIDE DEF key, b
        <5>4. ConfOK([conf EXCEPT ![key] = b]) BY <5>1, <5>2, ConfSet DEF b
        <5> QED BY <4>1, <5>3, <5>4
      <4>5. CASE key \in NumberKeys /\ conf' = [conf EXCEPT ![key] = Number(key, v)]
        <5>1. Number(key, v) \in Int BY ConfigAssumption DEF Number
        <5>2. /\ key \in Keys /\ key \notin TextKeys \cup {"Metadata Directory"}
              /\ key \notin SwitchKeys /\ key # "Destination"
          BY <4>5, KindsOfKeys DEF Keys
        <5> HIDE DEF key
        <5> QED BY <4>1, <4>5, <5>1, <5>2, ConfSet
      <4>6. CASE UNCHANGED conf BY <4>1, <4>6
      <4> QED BY <3>3, <4>2, <4>3, <4>4, <4>5, <4>6 DEF Assign
    <3> QED BY <2>4, <3>1, <3>2, <3>3
  <2> QED BY <2>1, <2>3, <2>5 DEF optionVars, Phases, Down
<1>15. CASE Override
  <2>1. ConfOK(conf')
    <3> DEFINE d == [key \in Keys |->
                IF key \in DOMAIN override /\ override[key].given
                THEN override[key].to ELSE conf[key]]
    <3>1. \A key \in Keys : d[key] = IF key \in DOMAIN override /\ override[key].given
                                     THEN override[key].to ELSE conf[key]
      OBVIOUS
    <3>2. conf' = d /\ d = [key \in Keys |-> d[key]] BY <1>15 DEF Override
    <3> HIDE DEF d
    <3>3. DOMAIN override = Range(Overrides)
          /\ \A key \in DOMAIN override : override[key].to \in Int
      BY DEF OverrideType
    <3>4. TextKeys \cup {"Metadata Directory"} \cup NumberKeys \cup SwitchKeys
            \cup {"Destination"} \subseteq Keys
      BY DEF Keys
    <3>5. \A key \in Keys \ NumberKeys : d[key] = conf[key]
      BY <3>1, <3>3, OverridesAre
    <3>6. \A key \in NumberKeys : d[key] \in Int BY <3>1, <3>3, <3>4 DEF ConfOK
    <3>7. ConfOK(d) BY <3>2, <3>4, <3>5, <3>6, KindsOfKeys DEF ConfOK
    <3> QED BY <3>2, <3>7
  <2> QED BY <1>15, <2>1 DEF Override, optionVars, Phases
<1>16. CASE Verify
  BY <1>16 DEF Verify, optionVars, configVars, Phases, Down
<1>17. CASE Construct
  <2>1. targets' # <<>>
    <3>1. conf["Destination"] \in Seq(ValueType) BY DEF ConfOK
    <3>2. CASE conf["Destination"] = <<>> BY <1>17, <3>2 DEF Construct, Targets
    <3>3. CASE conf["Destination"] # <<>>
      <4>1. DOMAIN conf["Destination"] = 1..Len(conf["Destination"])
            /\ Len(conf["Destination"]) \in Nat \ {0}
        BY <3>1, <3>3
      <4>2. targets' = [i \in 1..Len(conf["Destination"]) |-> Listed(conf["Destination"][i])]
        BY <1>17, <3>3, <4>1 DEF Construct, Targets
      <4>3. DOMAIN targets' # {} BY <4>1, <4>2
      <4> QED BY <4>3
    <3> QED BY <3>2, <3>3
  <2> QED BY <1>17, <2>1 DEF Construct, optionVars, Phases
<1>18. CASE End
  BY <1>18 DEF End, optionVars, configVars, Phases, Down
<1>19. CASE Edit
  BY <1>19 DEF Edit, optionVars, configVars, Phases, Down, Files
<1>20. CASE UNCHANGED vars
  BY <1>20 DEF vars
<1> QED BY <1>1, <1>5, <1>6, <1>7, <1>8, <1>9, <1>10, <1>11, <1>12, <1>13, <1>14, <1>15,
           <1>16, <1>17, <1>18, <1>19, <1>20 DEF Next

LEMMA TypeInvCorrect == Spec => []TypeInv
BY TypeInit, TypeStep, PTL DEF Spec

\* Every variable of a start has its type, whatever is in the file and on the command
\* line, and Syncer never begins with an empty list of destinations (syncer.cpp:77).
THEOREM TypeCorrect == Spec => []TypeOK
<1>1. ASSUME TypeInv PROVE TypeOK
  <2>1. \A file \in Files \cup {NoFile} : file.ended \in BOOLEAN /\ file.lines \in Seq(LineType)
    <3>1. NoFile.ended \in BOOLEAN /\ NoFile.lines \in Seq(LineType) BY DEF NoFile
    <3> QED BY <3>1, FilesOK DEF FileOK
  <2> QED BY <1>1, <2>1 DEF TypeInv, TypeOK, Phases, OverrideType, ConfOK
<1> QED BY <1>1, TypeInvCorrect, PTL

-----------------------------------------------------------------------------
(* The lines of a file, one by one.                                        *)

AllAssigned(file) ==
  \A i \in DOMAIN file.lines : file.lines[i].key = "none" \/ file.lines[i].assigned

LEMMA MaxGrows ==
  ASSUME NEW n \in Nat, NEW S, S \subseteq 1..n
  PROVE  S \cup {n + 1} # {} /\ Max(S \cup {n + 1}) = n + 1
<1> DEFINE T == S \cup {n + 1}
<1>1. T # {} /\ T \subseteq Int /\ n + 1 \in Int /\ n + 1 \in T /\ \A x \in T : x <= n + 1
  OBVIOUS
<1> HIDE DEF T
<1>2. Max(T) \in T /\ \A x \in T : x <= Max(T) BY <1>1, MaxIs
<1>3. Max(T) = n + 1
  <2>1. Max(T) \in Int /\ Max(T) <= n + 1 /\ n + 1 <= Max(T) BY <1>1, <1>2
  <2> QED BY <2>1
<1> QED BY <1>1, <1>3 DEF T

\* The words that the first n lines give a key.
WordsAfter(lines, n, key) ==
  LET at == {i \in 1..n : Gives(lines[i], key)} IN
  IF at = {} THEN <<>> ELSE lines[Max(at)].words

LEMMA WordsStep ==
  ASSUME NEW lines, NEW n \in Nat, NEW key
  PROVE  WordsAfter(lines, n + 1, key) =
           IF Gives(lines[n + 1], key) THEN lines[n + 1].words ELSE WordsAfter(lines, n, key)
<1> DEFINE at(k) == {i \in 1..k : Gives(lines[i], key)}
<1>1. CASE Gives(lines[n + 1], key)
  <2>1. at(n + 1) = at(n) \cup {n + 1} /\ at(n) \subseteq 1..n BY <1>1
  <2>2. at(n + 1) # {} /\ Max(at(n + 1)) = n + 1 BY <2>1, MaxGrows
  <2> QED BY <1>1, <2>2 DEF WordsAfter
<1>2. CASE ~Gives(lines[n + 1], key)
  <2>1. at(n + 1) = at(n) BY <1>2
  <2> QED BY <1>2, <2>1 DEF WordsAfter
<1> QED BY <1>1, <1>2

LEMMA WordsNone == ASSUME NEW lines, NEW key PROVE WordsAfter(lines, 0, key) = <<>>
<1>1. {i \in 1..0 : Gives(lines[i], key)} = {} OBVIOUS
<1> QED BY <1>1 DEF WordsAfter

LEMMA WordsSame ==
  ASSUME NEW a, NEW b, NEW n \in Nat, NEW key, \A i \in 1..n : a[i] = b[i]
  PROVE  WordsAfter(a, n, key) = WordsAfter(b, n, key)
<1> DEFINE at(lines) == {i \in 1..n : Gives(lines[i], key)}
<1>1. at(a) = at(b) OBVIOUS
<1>2. CASE at(a) = {} BY <1>1, <1>2 DEF WordsAfter
<1>3. CASE at(a) # {}
  <2>1. at(a) \subseteq Int /\ n \in Int /\ \A x \in at(a) : x <= n OBVIOUS
  <2> DEFINE T == at(a)
  <2>2. T # {} /\ T \subseteq Int /\ n \in Int /\ (\A x \in T : x <= n) BY <1>3, <2>1
  <2> HIDE DEF T
  <2>3. Max(T) \in T BY <2>2, MaxIs
  <2>4. Max(at(a)) \in 1..n BY <2>3 DEF T
  <2> QED BY <1>1, <1>3, <2>4 DEF WordsAfter
<1> QED BY <1>2, <1>3

LEMMA WordsTyped ==
  ASSUME NEW lines \in Seq(LineType), NEW n \in 0..Len(lines), NEW key
  PROVE  WordsAfter(lines, n, key) \in Seq(Words)
<1> DEFINE T == {i \in 1..n : Gives(lines[i], key)}
<1>1. CASE T = {} BY <1>1 DEF WordsAfter
<1>2. CASE T # {}
  <2>1. T \subseteq Int /\ n \in Int /\ (\A x \in T : x <= n) OBVIOUS
  <2>2. Max(T) \in T
    <3> HIDE DEF T
    <3> QED BY <1>2, <2>1, MaxIs
  <2>3. Max(T) \in 1..Len(lines) BY <2>2
  <2>4. lines[Max(T)].words \in Seq(Words)
    <3> DEFINE m == Max(T)
    <3>1. m \in 1..Len(lines) BY <2>3
    <3> HIDE DEF m
    <3>2. lines[m] \in LineType BY <3>1
    <3>3. lines[m].words \in Seq(Words) BY <3>2 DEF LineType
    <3> QED BY <3>3 DEF m
  <2> QED BY <1>2, <2>4 DEF WordsAfter
<1> QED BY <1>1, <1>2

LEMMA WordsAtEnd ==
  ASSUME NEW lines \in Seq(LineType), NEW key
  PROVE  WordsOf(lines, key) = WordsAfter(lines, Len(lines), key)
<1>1. DOMAIN lines = 1..Len(lines) OBVIOUS
<1> QED BY <1>1 DEF WordsOf, WordsAfter

\* What a line adds to the list of destinations, and the list after every line.
Chunk(line) ==
  IF Gives(line, "Destination") THEN Split(Value(line.words)) ELSE <<>>

IsList(d, lines) ==
  /\ d \in [0..Len(lines) -> Seq(ValueType)] /\ d[0] = <<>>
  /\ \A n \in 1..Len(lines) : d[n] = d[n - 1] \o Chunk(lines[n])

LEMMA ChunkOK ==
  ASSUME NEW line \in LineType PROVE Chunk(line) \in Seq(ValueType)
<1>1. Value(line.words) \in ValueType BY DEF Value, ValueType, LineType
<1> QED BY <1>1, SplitOK DEF Chunk

\* There is such a list for every file.
LEMMA ListExists ==
  ASSUME NEW lines \in Seq(LineType)
  PROVE  \E d : IsList(d, lines)
<1> DEFINE Up(k, d) == /\ d \in [0..k -> Seq(ValueType)] /\ d[0] = <<>>
                       /\ \A n \in 1..k : d[n] = d[n - 1] \o Chunk(lines[n])
           Bad == {k \in 0..Len(lines) : ~(\E d : Up(k, d))}
<1>1. Len(lines) \in Nat OBVIOUS
<1> HIDE DEF Up
<1>2. ASSUME Bad # {} PROVE FALSE
  <2>1. Bad \subseteq Nat BY <1>1
  <2>2. PICK k \in Bad : \A j \in Bad : k <= j
    <3> HIDE DEF Bad
    <3> QED BY <1>2, <2>1, LeastElement
  <2>3. k \in 0..Len(lines) /\ ~(\E d : Up(k, d)) OBVIOUS
  <2>4. CASE k = 0
    <3> DEFINE e == [n \in 0..0 |-> <<>>]
    <3>1. e \in [0..0 -> Seq(ValueType)] /\ e[0] = <<>> OBVIOUS
    <3>2. 1..0 = {} OBVIOUS
    <3>3. Up(0, e) BY <3>1, <3>2 DEF Up
    <3> QED BY <2>3, <2>4, <3>3
  <2>5. CASE k # 0
    <3>1. k - 1 \in 0..Len(lines) /\ k - 1 \notin Bad
      <4>1. k - 1 \in 0..Len(lines) /\ ~(k <= k - 1) BY <1>1, <2>3, <2>5
      <4> HIDE DEF Bad
      <4> QED BY <2>2, <4>1
    <3>2. PICK d : Up(k - 1, d) BY <3>1
    <3> DEFINE c == d[k - 1] \o Chunk(lines[k])
               e == [n \in 0..k |-> IF n = k THEN c ELSE d[n]]
    <3>3. k \in 1..Len(lines) /\ k \in Nat BY <1>1, <2>3, <2>5
    <3>4. c \in Seq(ValueType)
      <4>1. lines[k] \in LineType BY <3>3
      <4>2. Chunk(lines[k]) \in Seq(ValueType) BY <4>1, ChunkOK
      <4>3. d[k - 1] \in Seq(ValueType) BY <3>2, <3>3 DEF Up
      <4> QED BY <4>2, <4>3, ConcatProperties
    <3> HIDE DEF c
    <3>5. \A n \in 0..k-1 : e[n] = d[n] /\ d[n] \in Seq(ValueType) BY <3>2, <3>3 DEF Up
    <3>6. e[k] = c BY <3>3
    <3>7. e \in [0..k -> Seq(ValueType)]
      <4>1. \A n \in 0..k : n = k \/ n \in 0..k-1 BY <3>3
      <4> QED BY <3>4, <3>5, <4>1
    <3> HIDE DEF e
    <3>8. e[0] = <<>>
      <4>1. 0 \in 0..k-1 BY <3>3, <2>5
      <4> QED BY <3>2, <3>5, <4>1 DEF Up
    <3>9. \A n \in 1..k : e[n] = e[n - 1] \o Chunk(lines[n])
      <4>1. CASE k - 1 = 0
        <5>1. \A n \in 1..k : n = k /\ n - 1 = k - 1 BY <3>3, <4>1
        <5>2. e[k - 1] = d[k - 1] BY <3>3, <3>5
        <5> QED BY <3>6, <5>1, <5>2 DEF c
      <4>2. ASSUME NEW n \in 1..k-1 PROVE e[n] = e[n - 1] \o Chunk(lines[n])
        <5>1. n \in 0..k-1 /\ n - 1 \in 0..k-1 BY <3>3
        <5>2. d[n] = d[n - 1] \o Chunk(lines[n]) BY <3>2 DEF Up
        <5> QED BY <3>5, <5>1, <5>2
      <4>3. e[k] = e[k - 1] \o Chunk(lines[k])
        <5>1. k - 1 \in 0..k-1 BY <3>3
        <5> QED BY <3>5, <3>6, <5>1 DEF c
      <4>4. \A n \in 1..k : n = k \/ n \in 1..k-1 BY <3>3
      <4> QED BY <4>2, <4>3, <4>4
    <3>10. Up(k, e) BY <3>7, <3>8, <3>9 DEF Up
    <3> QED BY <2>3, <3>10
  <2> QED BY <2>4, <2>5
<1>3. Len(lines) \notin Bad BY <1>2
<1>4. PICK d : Up(Len(lines), d) BY <1>1, <1>3
<1> QED BY <1>4 DEF IsList, Up

\* Two lists agree as long as the lines do.
LEMMA ListsAgree ==
  ASSUME NEW a \in Seq(LineType), NEW b \in Seq(LineType), NEW d, NEW e,
         IsList(d, a), IsList(e, b), Len(b) <= Len(a), \A i \in 1..Len(b) : a[i] = b[i]
  PROVE  \A n \in 0..Len(b) : d[n] = e[n]
<1> DEFINE Bad == {n \in 0..Len(b) : d[n] # e[n]}
<1>1. Len(b) \in Nat /\ Len(a) \in Nat OBVIOUS
<1>2. ASSUME Bad # {} PROVE FALSE
  <2>1. Bad \subseteq Nat BY <1>1
  <2>2. PICK k \in Bad : \A j \in Bad : k <= j
    <3> HIDE DEF Bad
    <3> QED BY <1>2, <2>1, LeastElement
  <2>3. k \in 0..Len(b) /\ d[k] # e[k] OBVIOUS
  <2>4. k # 0 BY <2>3 DEF IsList
  <2>5. /\ k \in 1..Len(b) /\ k \in 1..Len(a) /\ k - 1 \in 0..Len(b) /\ ~(k <= k - 1)
    BY <1>1, <2>3, <2>4
  <2>6. d[k - 1] = e[k - 1] BY <2>2, <2>5
  <2>7. d[k] = d[k - 1] \o Chunk(a[k]) /\ e[k] = e[k - 1] \o Chunk(b[k])
    BY <2>5 DEF IsList
  <2>8. a[k] = b[k] BY <2>5
  <2> QED BY <2>3, <2>6, <2>7, <2>8
<1> QED BY <1>2

ListOf(lines) == CHOOSE d : IsList(d, lines)

LEMMA ListOfIs ==
  ASSUME NEW lines \in Seq(LineType)
  PROVE  IsList(ListOf(lines), lines) /\ Written(lines) = ListOf(lines)[Len(lines)]
<1> DEFINE N == Len(lines)
           F(f) == [n \in 0..N |-> IF n = 0 THEN <<>>
                     ELSE f[n - 1] \o
                            IF Gives(lines[n], "Destination") THEN Split(Value(lines[n].words))
                            ELSE <<>>]
           first == CHOOSE f : f = F(f)
<1>1. N \in Nat OBVIOUS
<1>2. IsList(ListOf(lines), lines) BY ListExists, Zenon DEF ListOf
<1>3. Written(lines) = first[N] BY DEF Written
<1>4. ASSUME NEW d, IsList(d, lines) PROVE d = F(d)
  <2>1. \A n \in 0..N : d[n] = F(d)[n]
    <3>1. d[0] = F(d)[0] BY <1>1, <1>4 DEF IsList
    <3>2. ASSUME NEW n \in 1..N PROVE d[n] = F(d)[n]
      <4>1. n \in 0..N /\ n # 0 BY <1>1
      <4>2. F(d)[n] = d[n - 1] \o Chunk(lines[n]) BY <4>1 DEF Chunk
      <4> QED BY <1>4, <4>2 DEF IsList
    <3>3. \A n \in 0..N : n = 0 \/ n \in 1..N BY <1>1
    <3> QED BY <3>1, <3>2, <3>3
  <2>2. d = [n \in 0..N |-> d[n]] BY <1>4 DEF IsList
  <2> QED BY <2>1, <2>2
<1>5. first = F(first)
  <2>1. \E f : f = F(f) BY <1>2, <1>4
  <2> HIDE DEF F
  <2> QED BY <2>1
<1> HIDE DEF first
<1>6. ASSUME Written(lines) # ListOf(lines)[N] PROVE FALSE
  <2> DEFINE d == ListOf(lines)
             Bad == {n \in 0..N : first[n] # d[n]}
  <2>1. N \in Bad BY <1>1, <1>3, <1>6
  <2>2. PICK k \in Bad : \A j \in Bad : k <= j
    <3>1. Bad \subseteq Nat /\ Bad # {} BY <1>1, <2>1
    <3> HIDE DEF Bad
    <3> QED BY <3>1, LeastElement
  <2>3. k \in 0..N /\ first[k] # d[k] OBVIOUS
  <2>4. first[k] = F(first)[k] BY <1>5
  <2>5. d[k] = F(d)[k]
    <3>1. d = F(d) BY <1>2, <1>4
    <3> HIDE DEF d, F
    <3> QED BY <3>1
  <2> HIDE DEF d
  <2>6. CASE k = 0 BY <2>3, <2>4, <2>5, <2>6
  <2>7. CASE k # 0
    <3>1. k - 1 \in 0..N /\ ~(k <= k - 1) BY <1>1, <2>3, <2>7
    <3>2. first[k - 1] = d[k - 1] BY <2>2, <3>1
    <3> QED BY <2>3, <2>4, <2>5, <2>7, <3>2
  <2> QED BY <2>6, <2>7
<1> QED BY <1>2, <1>6

\* b, and after it only what is in b already.
Repeats(d, b) ==
  /\ d \in Seq(ValueType) /\ b \in Seq(ValueType) /\ Len(b) <= Len(d)
  /\ \A i \in 1..Len(b) : d[i] = b[i]
  /\ \A i \in 1..Len(d) : \E j \in 1..Len(b) : d[i] = b[j]

LEMMA RepeatsItself == ASSUME NEW d \in Seq(ValueType) PROVE Repeats(d, d)
BY DEF Repeats

LEMMA RepeatsEnd ==
  ASSUME NEW d \in Seq(ValueType), NEW c \in Seq(ValueType)
  PROVE  Repeats((d \o c) \o c, d \o c)
<1> DEFINE b == d \o c
           r == b \o c
<1>1. /\ b \in Seq(ValueType) /\ Len(b) = Len(d) + Len(c)
      /\ \A i \in 1..Len(d)+Len(c) : b[i] = IF i <= Len(d) THEN d[i] ELSE c[i - Len(d)]
  BY ConcatProperties
<1> HIDE DEF b
<1>2. /\ r \in Seq(ValueType) /\ Len(r) = Len(b) + Len(c)
      /\ \A i \in 1..Len(b)+Len(c) : r[i] = IF i <= Len(b) THEN b[i] ELSE c[i - Len(b)]
  <2>1. b \in Seq(ValueType) BY <1>1
  <2> QED BY <2>1, ConcatProperties
<1> HIDE DEF r
<1>3. Len(b) \in Nat /\ Len(c) \in Nat /\ Len(d) \in Nat BY <1>1
<1>4. \A i \in 1..Len(b) : r[i] = b[i]
  <2>1. \A i \in 1..Len(b) : i \in 1..Len(b)+Len(c) /\ i <= Len(b) BY <1>3
  <2> QED BY <1>2, <2>1
<1>5. ASSUME NEW i \in 1..Len(r) PROVE \E j \in 1..Len(b) : r[i] = b[j]
  <2>1. i \in 1..Len(b)+Len(c) BY <1>2
  <2>2. CASE i <= Len(b)
    <3>1. i \in 1..Len(b) BY <1>3, <2>1, <2>2
    <3> QED BY <1>4, <3>1
  <2>3. CASE ~(i <= Len(b))
    <3>1. r[i] = c[i - Len(b)] BY <1>2, <2>1, <2>3
    <3>2. PICK j \in 1..Len(b) : j = Len(d) + (i - Len(b))
      BY <1>1, <1>3, <2>1, <2>3
    <3>3. j \in 1..Len(d)+Len(c) /\ ~(j <= Len(d)) /\ j - Len(d) = i - Len(b)
      BY <1>1, <1>3, <2>1, <2>3, <3>2
    <3>4. b[j] = c[j - Len(d)] BY <1>1, <3>3
    <3> QED BY <3>1, <3>2, <3>3, <3>4
  <2> QED BY <2>2, <2>3
<1>6. Len(b) <= Len(r) BY <1>2, <1>3
<1>7. Repeats(r, b) BY <1>1, <1>2, <1>4, <1>5, <1>6 DEF Repeats
<1> QED BY <1>7 DEF r, b

\* What the end of the file comes to: the last line again changes no field, and adds
\* to the list only what it ends with already.
LEMMA AtEnd ==
  ASSUME FileOK(text)
  PROVE  /\ \A key : WordsAfter(LinesRead, Len(LinesRead), key) = WordsOf(text.lines, key)
         /\ Repeats(ListOf(LinesRead)[Len(LinesRead)], Written(text.lines))
         /\ \A i \in 1..Len(LinesRead) : \E j \in 1..Len(text.lines) :
              LinesRead[i] = text.lines[j]
<1> DEFINE lines == text.lines
           L == LinesRead
           N == Len(lines)
<1>1. lines \in Seq(LineType) /\ N \in Nat /\ L \in Seq(LineType) /\ Len(L) \in Nat
  BY LinesReadOK DEF FileOK
<1>2. /\ IsList(ListOf(lines), lines) /\ Written(lines) = ListOf(lines)[N]
      /\ IsList(ListOf(L), L)
  BY <1>1, ListOfIs
<1>3. CASE text.ended
  <2>1. L = lines BY <1>3 DEF LinesRead
  <2>2. Written(lines) \in Seq(ValueType)
    <3>1. N \in 0..N BY <1>1
    <3> QED BY <1>2, <3>1 DEF IsList
  <2>3. Repeats(ListOf(L)[Len(L)], Written(lines)) BY <1>2, <2>1, <2>2, RepeatsItself
  <2> HIDE DEF L, lines
  <2>4. \A key : WordsAfter(L, Len(L), key) = WordsOf(lines, key)
    BY <1>1, <2>1, WordsAtEnd
  <2> QED BY <2>1, <2>3, <2>4 DEF L, lines
<1>4. CASE ~text.ended
  <2>1. lines # <<>> /\ L = Append(lines, lines[N]) BY <1>4 DEF FileOK, LinesRead
  <2> HIDE DEF L, lines
  <2>2. N \in Nat \ {0} BY <1>1, <2>1
  <2>3. /\ Len(L) = N + 1 /\ L[N + 1] = lines[N] /\ \A i \in 1..N : L[i] = lines[i]
    <3>1. lines[N] \in LineType BY <1>1, <2>2
    <3> QED BY <1>1, <2>1, <3>1, AppendProperties
  <2>4. PICK M \in Nat : N = M + 1
    <3>1. N - 1 \in Nat /\ N = (N - 1) + 1 BY <2>2
    <3> QED BY <3>1
  <2>5. ASSUME NEW key PROVE WordsAfter(L, Len(L), key) = WordsOf(lines, key)
    <3>1. WordsOf(lines, key) = WordsAfter(lines, N, key) BY <1>1, WordsAtEnd
    <3>2. WordsAfter(L, N, key) = WordsAfter(lines, N, key) BY <1>1, <2>3, WordsSame
    <3>3. WordsAfter(L, N + 1, key) =
            IF Gives(L[N + 1], key) THEN L[N + 1].words ELSE WordsAfter(L, N, key)
      BY <1>1, WordsStep
    <3>4. WordsAfter(lines, M + 1, key) =
            IF Gives(lines[M + 1], key) THEN lines[M + 1].words
            ELSE WordsAfter(lines, M, key)
      BY <2>4, WordsStep
    <3> HIDE DEF N
    <3> QED BY <2>3, <2>4, <3>1, <3>2, <3>3, <3>4
  <2>6. Repeats(ListOf(L)[Len(L)], Written(lines))
    <3> DEFINE d == ListOf(L)
               e == ListOf(lines)
               c == Chunk(lines[N])
    <3>1. d[N] = e[N]
      <4>1. N \in 0..N /\ N <= Len(L) /\ \A i \in 1..N : L[i] = lines[i] BY <1>1, <2>3
      <4> QED BY <1>1, <1>2, <4>1, ListsAgree
    <3> HIDE DEF d, e
    <3>2. d[N + 1] = d[N] \o c
      <4>1. N + 1 \in 1..Len(L) /\ (N + 1) - 1 = N BY <1>1, <2>3
      <4>2. d[N + 1] = d[(N + 1) - 1] \o Chunk(L[N + 1]) BY <1>2, <4>1 DEF IsList, d
      <4> QED BY <2>3, <4>1, <4>2
    <3>3. e[N] = e[N - 1] \o c
      <4>1. N \in 1..Len(lines) BY <2>2
      <4> QED BY <1>2, <4>1 DEF IsList, e
    <3>4. e[N - 1] \in Seq(ValueType)
      <4>1. N - 1 \in 0..Len(lines) BY <2>2
      <4> QED BY <1>2, <4>1 DEF IsList, e
    <3>5. c \in Seq(ValueType)
      <4>1. lines[N] \in LineType BY <1>1, <2>2
      <4> QED BY <4>1, ChunkOK
    <3> HIDE DEF c
    <3>6. Repeats((e[N - 1] \o c) \o c, e[N - 1] \o c) BY <3>4, <3>5, RepeatsEnd
    <3>7. Repeats(d[N + 1], e[N]) BY <3>1, <3>2, <3>3, <3>6
    <3> QED BY <1>2, <2>3, <3>7 DEF d, e
  <2>7. ASSUME NEW i \in 1..Len(L) PROVE \E j \in 1..Len(lines) : L[i] = lines[j]
    <3>1. CASE i = N + 1
      <4>1. N \in 1..Len(lines) BY <2>2
      <4> QED BY <2>3, <3>1, <4>1
    <3>2. CASE i # N + 1
      <4>1. i \in 1..N BY <1>1, <2>3, <3>2
      <4> QED BY <2>3, <4>1
    <3> QED BY <3>1, <3>2
  <2> QED BY <2>5, <2>6, <2>7 DEF L, lines
<1> QED BY <1>3, <1>4

-----------------------------------------------------------------------------
(* The options, one by one.                                                *)

SetBefore(line, n, key) ==
  {i \in 1..n : line[i].opt \in DOMAIN Overrides /\ Overrides[line[i].opt] = key}

Overriding ==
  \A key \in Range(Overrides) :
    LET S == SetBefore(started, optind, key) IN
    IF S = {} THEN ~override[key].given
    ELSE override[key].given /\ override[key].to = SetTo(started[Max(S)])

OptInv ==
  phase \notin {"off", "died"} =>
    Overriding /\ (phase # "options" => optind = Len(started))

\* An option that sets a key is the last one to do so, another changes nothing.
LEMMA OptionStep ==
  ASSUME TypeInv, Overriding, NEW names, Opt(names),
         override' = IF NextOption.opt \in DOMAIN Overrides
                     THEN [override EXCEPT ![Overrides[NextOption.opt]] =
                             Given(SetTo(NextOption))]
                     ELSE override
  PROVE  Overriding'
<1> DEFINE n == optind
           o == NextOption
<1>1. /\ started' = started /\ optind' = n + 1 /\ n \in Nat
      /\ DOMAIN override = Range(Overrides)
  BY DEF Opt, TypeInv, OverrideType
<1>2. o = started[n + 1] BY DEF NextOption
<1>3. SUFFICES ASSUME NEW key \in Range(Overrides)
               PROVE  LET S == SetBefore(started, n + 1, key) IN
                      IF S = {} THEN ~override'[key].given
                      ELSE override'[key].given /\ override'[key].to = SetTo(started[Max(S)])
  BY <1>1 DEF Overriding
<1> DEFINE S == SetBefore(started, n, key)
           T == SetBefore(started, n + 1, key)
<1>4. IF S = {} THEN ~override[key].given
      ELSE override[key].given /\ override[key].to = SetTo(started[Max(S)])
  BY DEF Overriding
<1> HIDE DEF o, n
<1>5. CASE o.opt \in DOMAIN Overrides /\ Overrides[o.opt] = key
  <2>1. T = S \cup {n + 1} /\ S \subseteq 1..n BY <1>1, <1>2, <1>5 DEF SetBefore
  <2>2. T # {} /\ Max(T) = n + 1 BY <1>1, <2>1, MaxGrows
  <2>3. override'[key] = Given(SetTo(o)) BY <1>1, <1>5 DEF o
  <2>4. override'[key].given /\ override'[key].to = SetTo(started[Max(T)])
    BY <1>2, <2>2, <2>3 DEF Given
  <2> QED BY <2>2, <2>4
<1>6. CASE ~(o.opt \in DOMAIN Overrides /\ Overrides[o.opt] = key)
  <2>1. T = S BY <1>1, <1>2, <1>6 DEF SetBefore
  <2>2. override'[key] = override[key] BY <1>1, <1>6 DEF o
  <2> QED BY <1>4, <2>1, <2>2
<1> QED BY <1>5, <1>6

LEMMA OptStep == ASSUME TypeInv, OptInv, [Next]_vars PROVE OptInv'
<1>1. ASSUME NEW line \in CommandLines, Launch(line) PROVE OptInv'
  <2>1. /\ phase' = "options" /\ started' = line /\ optind' = 0
        /\ override' = NoOverrides
    BY <1>1 DEF Launch
  <2>2. \A key : SetBefore(line, 0, key) = {} BY DEF SetBefore
  <2>3. \A key \in Range(Overrides) : ~NoOverrides[key].given BY DEF NoOverrides, NotGiven
  <2> QED BY <2>1, <2>2, <2>3 DEF OptInv, Overriding
<1>2. ASSUME phase = "options", phase' = "options", Overriding'
      PROVE  OptInv'
  BY <1>2 DEF OptInv
<1>3. CASE NumberOption
  <2>1. Opt({"n", "t"}) /\ phase = "options" BY <1>3 DEF NumberOption, Opt
  <2>2. CASE NextOption.arg \in DOMAIN Stoi
    <3>1. NextOption.opt \in {"n", "t"} BY <2>1 DEF Opt
    <3>2. SetTo(NextOption) = Stoi[NextOption.arg] BY <3>1 DEF SetTo
    <3>3. NextOption.opt \in DOMAIN Overrides BY <3>1, OverridesAre
    <3>4. override' = [override EXCEPT ![Overrides[NextOption.opt]] =
                         Given(SetTo(NextOption))]
      BY <1>3, <2>2, <3>2 DEF NumberOption
    <3>5. Overriding' BY <2>1, <3>3, <3>4, OptionStep DEF OptInv
    <3>6. phase' = phase BY <1>3, <2>2 DEF NumberOption
    <3> QED BY <1>2, <2>1, <3>5, <3>6
  <2>3. CASE NextOption.arg \notin DOMAIN Stoi
    BY <1>3, <2>3 DEF NumberOption, OptInv
  <2> QED BY <2>2, <2>3
<1>4. CASE LevelOption
  <2>1. Opt({"v", "q"}) /\ phase = "options" /\ phase' = phase
    BY <1>4 DEF LevelOption, Opt
  <2>2. NextOption.opt \in {"v", "q"} BY <2>1 DEF Opt
  <2>3. SetTo(NextOption) = IF NextOption.opt = "v" THEN 2 ELSE 0 BY <2>2 DEF SetTo
  <2>4. NextOption.opt \in DOMAIN Overrides /\ Overrides[NextOption.opt] = "Log Level"
    BY <2>2, OverridesAre
  <2>5. override' = [override EXCEPT !["Log Level"] =
                       Given(IF NextOption.opt = "v" THEN 2 ELSE 0)]
    BY <1>4, Zenon DEF LevelOption
  <2>6. override' = [override EXCEPT ![Overrides[NextOption.opt]] = Given(SetTo(NextOption))]
    BY <2>3, <2>4, <2>5
  <2>7. Overriding' BY <2>1, <2>4, <2>6, OptionStep DEF OptInv
  <2> QED BY <1>2, <2>1, <2>7
<1>5. ASSUME NEW names, names \cap {"n", "t", "v", "q"} = {}, Opt(names),
             override' = override, phase' = phase
      PROVE  OptInv'
  <2>1. NextOption.opt \notin DOMAIN Overrides /\ phase = "options"
    BY <1>5, OverridesAre DEF Opt
  <2>2. Overriding' BY <1>5, <2>1, OptionStep DEF OptInv
  <2> QED BY <1>2, <1>5, <2>1, <2>2
<1>6. CASE HelpOption BY <1>6 DEF HelpOption, OptInv
<1>7. CASE VersionOption BY <1>5, <1>7 DEF VersionOption
<1>8. CASE OtherOption BY <1>5, <1>8 DEF OtherOption
<1>9. ASSUME UNCHANGED optionVars, phase \notin {"off", "died"},
             phase' # "options", optind = Len(started)
      PROVE  OptInv'
  BY <1>9 DEF OptInv, Overriding, optionVars
<1>10. CASE EndOfOptions
  <2>1. UNCHANGED optionVars /\ phase = "options" /\ optind = Len(started)
        /\ phase' \in {"open", "off"}
    BY <1>10 DEF EndOfOptions
  <2> QED BY <1>9, <2>1
<1>11. ASSUME phase \in {"open", "template", "read", "verify", "construct"},
              UNCHANGED optionVars,
              phase' \in {"open", "template", "read", "verify", "construct", "up", "failed", "died"}
       PROVE  OptInv'
  <2>1. optind = Len(started) BY <1>11 DEF OptInv
  <2> QED BY <1>9, <1>11, <2>1
<1>12. CASE Open BY <1>11, <1>12 DEF Open
<1>13. CASE OpenFails \/ CreateFile BY <1>11, <1>13 DEF OpenFails, CreateFile
<1>14. CASE WriteTemplate BY <1>11, <1>14 DEF WriteTemplate
<1>15. CASE ReadLine
  <2>1. phase = "read" /\ UNCHANGED optionVars BY <1>15 DEF ReadLine
  <2>2. phase' \in {"read", "died"}
    BY <1>15, <2>1 DEF ReadLine
  <2> QED BY <1>11, <2>1, <2>2
<1>16. CASE Override BY <1>11, <1>16 DEF Override
<1>17. CASE Verify BY <1>11, <1>17 DEF Verify
<1>18. CASE Construct BY <1>11, <1>18 DEF Construct
<1>19. CASE End BY <1>19 DEF End, OptInv
<1>20. CASE Edit BY <1>20 DEF Edit, OptInv, Overriding, optionVars
<1>21. CASE UNCHANGED vars BY <1>21 DEF vars, OptInv, Overriding
<1> QED BY <1>1, <1>3, <1>4, <1>6, <1>7, <1>8, <1>10, <1>12, <1>13, <1>14, <1>15, <1>16,
           <1>17, <1>18, <1>19, <1>20, <1>21 DEF Next

-----------------------------------------------------------------------------
(* The fields, line by line.                                               *)

\* The fields after n lines.
ConfAfter(c, lines, n) ==
  /\ \A key \in Keys \ {"Destination"} : c[key] = FieldOf(key, WordsAfter(lines, n, key))
  /\ c["Destination"] = ListOf(lines)[n]

LEMMA FieldKinds ==
  ASSUME NEW words
  PROVE  /\ \A key \in TextKeys : FieldOf(key, words) = Value(words)
         /\ FieldOf("Metadata Directory", words)
              = [words |-> words, names |-> IF words = <<>> THEN 0 ELSE 1]
         /\ \A key \in SwitchKeys : FieldOf(key, words) = (words # <<>> /\ words[1] = "true")
         /\ \A key \in NumberKeys : FieldOf(key, words) =
              IF words # <<>> /\ words[1] \in DOMAIN Stoi THEN Stoi[words[1]] ELSE -1
<1>1. \A key \in TextKeys : key \notin SwitchKeys /\ key \notin NumberKeys
                            /\ key # "Metadata Directory"
  BY KindsOfKeys
<1>2. "Metadata Directory" \notin SwitchKeys /\ "Metadata Directory" \notin NumberKeys
  BY KindsOfKeys
<1>3. \A key \in SwitchKeys : key \notin NumberKeys /\ key # "Metadata Directory"
  BY KindsOfKeys
<1>4. \A key \in NumberKeys : key \notin SwitchKeys /\ key # "Metadata Directory"
  BY KindsOfKeys
<1>5. ASSUME NEW key \in TextKeys PROVE FieldOf(key, words) = Value(words)
  BY <1>1 DEF FieldOf
<1>6. FieldOf("Metadata Directory", words)
        = [words |-> words, names |-> IF words = <<>> THEN 0 ELSE 1]
  BY <1>2 DEF FieldOf
<1>7. ASSUME NEW key \in SwitchKeys
      PROVE  FieldOf(key, words) = (words # <<>> /\ words[1] = "true")
  BY <1>3 DEF FieldOf
<1>8. ASSUME NEW key \in NumberKeys
      PROVE  FieldOf(key, words) =
               IF words # <<>> /\ words[1] \in DOMAIN Stoi THEN Stoi[words[1]] ELSE -1
  BY <1>4 DEF FieldOf
<1> QED BY <1>5, <1>6, <1>7, <1>8

\* The defaults are what no line at all means.
LEMMA ConfAtStart ==
  ASSUME NEW lines \in Seq(LineType)
  PROVE  ConfAfter(Defaults, lines, 0)
<1>1. \A key \in Keys : Defaults[key] = CASE key \in SwitchKeys -> FALSE
                                          [] key \in NumberKeys -> -1
                                          [] key = "Destination" -> <<>>
                                          [] OTHER -> Empty
  BY DEF Defaults
<1>2. ASSUME NEW key \in Keys \ {"Destination"}
      PROVE  Defaults[key] = FieldOf(key, <<>>)
  <2>1. CASE key \in TextKeys
    <3>1. Defaults[key] = Empty BY <1>1, <2>1, KindsOfKeys
    <3> QED BY <2>1, <3>1, FieldKinds DEF Empty
  <2>2. CASE key = "Metadata Directory"
    <3>1. Defaults[key] = Empty BY <1>1, <2>2, KindsOfKeys
    <3> QED BY <2>2, <3>1, FieldKinds DEF Empty, Value
  <2>3. CASE key \in SwitchKeys
    <3>1. Defaults[key] = FALSE BY <1>1, <2>3, KindsOfKeys
    <3>2. FieldOf(key, <<>>) = (<<>> # <<>> /\ <<>>[1] = "true") BY <2>3, FieldKinds
    <3> QED BY <3>1, <3>2
  <2>4. CASE key \in NumberKeys
    <3>1. Defaults[key] = -1 BY <1>1, <2>4, KindsOfKeys
    <3> QED BY <2>4, <3>1, FieldKinds
  <2> QED BY <2>1, <2>2, <2>3, <2>4 DEF Keys
<1>3. Defaults["Destination"] = <<>> /\ ListOf(lines)[0] = <<>>
  BY <1>1, KindsOfKeys, ListOfIs DEF Keys, IsList
<1> QED BY <1>2, <1>3, WordsNone DEF ConfAfter

\* A line that gives its key a value.
LEMMA LineGives ==
  ASSUME NEW lines \in Seq(LineType), NEW n \in Nat, n < Len(lines), NEW c, ConfOK(c),
         ConfAfter(c, lines, n), NEW key \in Keys, Gives(lines[n + 1], key), NEW d,
         d = [c EXCEPT ![key] = IF key = "Destination"
                                THEN c[key] \o Split(Value(lines[n + 1].words))
                                ELSE FieldOf(key, lines[n + 1].words)]
  PROVE  ConfAfter(d, lines, n + 1)
<1>1. DOMAIN c = Keys BY DEF ConfOK
<1>2. n + 1 \in 1..Len(lines) /\ (n + 1) - 1 = n OBVIOUS
<1>3. \A k : WordsAfter(lines, n + 1, k) =
               IF Gives(lines[n + 1], k) THEN lines[n + 1].words ELSE WordsAfter(lines, n, k)
  BY WordsStep
<1>4. \A k : Gives(lines[n + 1], k) <=> k = key BY DEF Gives
<1>5. ASSUME NEW k \in Keys \ {"Destination"}
      PROVE  d[k] = FieldOf(k, WordsAfter(lines, n + 1, k))
  <2>1. CASE k = key
    <3>1. d[k] = FieldOf(k, lines[n + 1].words) BY <1>1, <2>1
    <3> QED BY <1>3, <1>4, <2>1, <3>1
  <2>2. CASE k # key
    <3>1. d[k] = c[k] BY <1>1, <2>2
    <3> QED BY <1>3, <1>4, <2>2, <3>1 DEF ConfAfter
  <2> QED BY <2>1, <2>2
<1>6. ListOf(lines)[n + 1] = ListOf(lines)[n] \o Chunk(lines[n + 1])
  BY <1>2, ListOfIs DEF IsList
<1>7. d["Destination"] = ListOf(lines)[n + 1]
  <2>1. CASE key = "Destination"
    <3>1. d["Destination"] = c["Destination"] \o Split(Value(lines[n + 1].words))
      BY <1>1, <2>1
    <3> QED BY <1>6, <2>1, <3>1 DEF ConfAfter, Chunk
  <2>2. CASE key # "Destination"
    <3>1. d["Destination"] = c["Destination"] BY <1>1, <2>2 DEF Keys
    <3>2. Chunk(lines[n + 1]) = <<>> BY <1>4, <2>2 DEF Chunk
    <3>3. c["Destination"] \o <<>> = c["Destination"] BY ConcatEmptySeq DEF ConfOK
    <3> QED BY <1>6, <3>1, <3>2, <3>3 DEF ConfAfter
  <2> QED BY <2>1, <2>2
<1> QED BY <1>5, <1>7 DEF ConfAfter

\* A line that gives nothing to any of the keys.
LEMMA LineGivesNothing ==
  ASSUME NEW lines \in Seq(LineType), NEW n \in Nat, n < Len(lines), NEW c, ConfOK(c),
         ConfAfter(c, lines, n), \A key \in Keys : ~Gives(lines[n + 1], key)
  PROVE  ConfAfter(c, lines, n + 1)
<1>1. n + 1 \in 1..Len(lines) /\ (n + 1) - 1 = n OBVIOUS
<1>2. \A k \in Keys : WordsAfter(lines, n + 1, k) = WordsAfter(lines, n, k)
  BY WordsStep
<1>3. ListOf(lines)[n + 1] = ListOf(lines)[n] \o Chunk(lines[n + 1])
  BY <1>1, ListOfIs DEF IsList
<1>4. Chunk(lines[n + 1]) = <<>> BY DEF Chunk, Keys
<1>5. c["Destination"] \o <<>> = c["Destination"] BY ConcatEmptySeq DEF ConfOK
<1> QED BY <1>2, <1>3, <1>4, <1>5 DEF ConfAfter

\* What the chain of comparisons does for a key and the value of its line.
LEMMA AssignIs ==
  ASSUME NEW key \in Keys, NEW words \in Seq(Words), words # <<>>, Assign(key, Value(words))
  PROVE  conf' = [conf EXCEPT ![key] = IF key = "Destination"
                                       THEN conf[key] \o Split(Value(words))
                                       ELSE FieldOf(key, words)]
<1> DEFINE v == Value(words)
<1>1. v.words = words /\ v.names = 0 BY DEF Value
<1>2. CASE key \in TextKeys \cup {"Metadata Directory"} /\ conf' = [conf EXCEPT ![key] = value']
  <2>1. value' = FieldOf(key, words)
    <3>1. CASE key \in TextKeys
      <4>1. key # "Metadata Directory" BY <3>1, KindsOfKeys
      <4>2. value' = v BY <4>1 DEF Assign
      <4> QED BY <3>1, <4>2, FieldKinds
    <3>2. CASE key = "Metadata Directory"
      <4>1. value' = [v EXCEPT !.names = @ + 1] BY <3>2 DEF Assign
      <4>2. value' = [words |-> words, names |-> 1] BY <4>1 DEF Value
      <4> QED BY <3>2, <4>2, FieldKinds
    <3> QED BY <1>2, <3>1, <3>2
  <2>2. key # "Destination" BY <1>2, KindsOfKeys
  <2> QED BY <1>2, <2>1, <2>2
<1>3. CASE key = "Destination" /\ conf' = [conf EXCEPT ![key] = ExtendList(v)]
  BY <1>3 DEF ExtendList
<1>4. CASE key \in SwitchKeys /\ conf' = [conf EXCEPT ![key] = (v.words[1] = "true")]
  <2>1. FieldOf(key, words) = (words # <<>> /\ words[1] = "true") BY <1>4, FieldKinds
  <2>2. FieldOf(key, words) = (words[1] = "true") BY <2>1
  <2>3. key # "Destination" BY <1>4, KindsOfKeys
  <2>4. conf' = [conf EXCEPT ![key] = (words[1] = "true")] BY <1>1, <1>4
  <2> QED BY <2>2, <2>3, <2>4
<1>5. CASE key \in NumberKeys /\ conf' = [conf EXCEPT ![key] = Number(key, v)]
  <2>1. FieldOf(key, words) = Number(key, v) BY <1>1, <1>5, FieldKinds DEF Number
  <2>2. key # "Destination" BY <1>5, KindsOfKeys
  <2> QED BY <1>5, <2>1, <2>2
<1>6. key # "other" BY KindsOfKeys
<1> QED BY <1>2, <1>3, <1>4, <1>5, <1>6 DEF Assign

\* The fields when the options have been applied.
ConfRead(c) ==
  /\ \A key \in Keys \ {"Destination"} :
       c[key] = IF key \in Range(Overrides) /\ override[key].given THEN override[key].to
                ELSE FieldOf(key, WordsOf(text.lines, key))
  /\ Repeats(c["Destination"], Written(text.lines))

\* A number too long to be read.
Unreadable(file) ==
  \E i \in DOMAIN file.lines : \E key \in NumberKeys :
    Gives(file.lines[i], key) /\ file.lines[i].words[1] \in TooLong

ReadInv ==
  /\ phase = "read" =>
       pos <= Len(LinesRead) /\ (AllAssigned(text) => ConfAfter(conf, LinesRead, pos))
  /\ phase \in {"verify", "construct", "up"} \/ (phase = "failed" /\ text # NoFile) =>
       (AllAssigned(text) => ConfRead(conf))
  /\ phase \in {"construct", "up"} => Verified(conf)
  /\ phase = "up" => targets = Targets(conf)
  /\ phase = "failed" /\ text # NoFile => ~Verified(conf)
  /\ phase = "died" /\ text # NoFile /\ AllAssigned(text) => Unreadable(text)

LEMMA ReadLineStep ==
  ASSUME TypeInv, ReadInv, ReadLine PROVE ReadInv'
<1> DEFINE line == LinesRead[pos + 1]
           v == ValueOf(line)
           L == LinesRead
<1>1. /\ FileOK(text) /\ text # NoFile /\ pos \in Nat /\ pos < Len(L) /\ phase = "read"
      /\ text' = text /\ pos' = pos + 1 /\ L' = L /\ ConfOK(conf) /\ value \in ValueType
      /\ phase' \in {"read", "died"}
  BY FilesOK DEF ReadLine, TypeInv, LinesRead
<1>2. L \in Seq(LineType) /\ line \in LineType /\ Len(L) \in Nat
  BY <1>1, LinesReadOK, ReadLineOK
<1>3. PICK j \in 1..Len(text.lines) : line = text.lines[j]
  <2>1. pos + 1 \in 1..Len(L) BY <1>1, <1>2
  <2> QED BY <1>1, <2>1, AtEnd
<1>4. DOMAIN text.lines = 1..Len(text.lines) BY <1>1 DEF FileOK
<1>5. CASE ~AllAssigned(text)
  <2>1. ~AllAssigned(text)' BY <1>1, <1>5 DEF AllAssigned
  <2> QED BY <1>1, <1>2, <2>1 DEF ReadInv
<1>6. CASE AllAssigned(text)
  <2> HIDE DEF line, v, L
  <2>1. line.key = "none" \/ line.assigned BY <1>3, <1>4, <1>6 DEF AllAssigned
  <2>2. ConfAfter(conf, L, pos) BY <1>1, <1>6 DEF ReadInv, L
  <2>3. line.words \in Seq(Words) /\ line.key \in Keys \cup {"none", "other"}
    BY <1>2 DEF LineType
  <2>4. line.key # "none" => v = Value(line.words) /\ v.words = line.words
    BY <2>1 DEF v, ValueOf, Value
  <2>5. \/ line.key = "none" /\ UNCHANGED <<phase, conf>>
        \/ line.key # "none" /\ v.words = <<>> /\ UNCHANGED <<phase, conf>>
        \/ /\ line.key # "none" /\ v.words # <<>> /\ line.key \in NumberKeys
           /\ v.words[1] \in TooLong /\ phase' = "died"
        \/ line.key # "none" /\ v.words # <<>> /\ Assign(line.key, v) /\ UNCHANGED phase
    BY DEF ReadLine, line, v
  <2>6. L[pos + 1] = line BY DEF L, line
  <2>7. ASSUME UNCHANGED conf, \A key \in Keys : ~Gives(line, key)
        PROVE  ConfAfter(conf', L, pos + 1)
    BY <1>1, <1>2, <2>2, <2>6, <2>7, LineGivesNothing
  <2>8. /\ phase' = "read" => ConfAfter(conf', L, pos + 1)
        /\ phase' = "died" => Unreadable(text)
    <3>1. CASE line.key = "none" /\ UNCHANGED <<phase, conf>>
      <4>1. \A key \in Keys : ~Gives(line, key) BY <3>1, KindsOfKeys DEF Gives
      <4> QED BY <1>1, <2>7, <3>1, <4>1
    <3>2. CASE line.key # "none" /\ v.words = <<>> /\ UNCHANGED <<phase, conf>>
      <4>1. \A key \in Keys : ~Gives(line, key) BY <2>4, <3>2 DEF Gives
      <4> QED BY <1>1, <2>7, <3>2, <4>1
    <3>3. CASE /\ line.key # "none" /\ v.words # <<>> /\ line.key \in NumberKeys
               /\ v.words[1] \in TooLong /\ phase' = "died"
      <4>1. Gives(line, line.key) BY <2>1, <2>4, <3>3 DEF Gives
      <4>2. Unreadable(text) BY <1>3, <1>4, <2>4, <3>3, <4>1 DEF Unreadable
      <4> QED BY <3>3, <4>2
    <3>4. CASE /\ line.key # "none" /\ v.words # <<>> /\ Assign(line.key, v)
               /\ UNCHANGED phase
      <4>1. CASE line.key \in Keys
        <5> DEFINE key == line.key
        <5>1. Gives(line, key) BY <2>1, <2>4, <3>4 DEF Gives
        <5>2. conf' = [conf EXCEPT ![key] = IF key = "Destination"
                                            THEN conf[key] \o Split(Value(line.words))
                                            ELSE FieldOf(key, line.words)]
          BY <2>3, <2>4, <3>4, <4>1, AssignIs
        <5> HIDE DEF key
        <5>3. ConfAfter(conf', L, pos + 1)
          <6>1. key \in Keys BY <4>1 DEF key
          <6> QED BY <1>1, <1>2, <2>2, <2>6, <5>1, <5>2, <6>1, LineGives
        <5> QED BY <1>1, <3>4, <5>3
      <4>2. CASE line.key = "other"
        <5>1. UNCHANGED conf BY <3>4, <4>2, KindsOfKeys DEF Assign, Keys
        <5>2. \A key \in Keys : ~Gives(line, key) BY <4>2, KindsOfKeys DEF Gives
        <5> QED BY <1>1, <2>7, <3>4, <5>1, <5>2
      <4> QED BY <2>3, <3>4, <4>1, <4>2
    <3> QED BY <2>5, <3>1, <3>2, <3>3, <3>4
  <2>9. pos + 1 <= Len(L) BY <1>1, <1>2
  <2>10. Unreadable(text) => Unreadable(text)' BY <1>1 DEF Unreadable
  <2> QED BY <1>1, <2>8, <2>9, <2>10 DEF ReadInv, L
<1> QED BY <1>5, <1>6

LEMMA OverrideStep ==
  ASSUME TypeInv, ReadInv, Override PROVE ReadInv'
<1> DEFINE L == LinesRead
<1>1. /\ FileOK(text) /\ text # NoFile /\ phase = "read" /\ pos = Len(L)
      /\ text' = text /\ override' = override /\ phase' = "verify"
      /\ ConfOK(conf) /\ DOMAIN override = Range(Overrides)
  BY FilesOK DEF Override, optionVars, TypeInv, OverrideType
<1>2. conf' = [key \in Keys |-> IF key \in DOMAIN override /\ override[key].given
                               THEN override[key].to ELSE conf[key]]
  BY DEF Override
<1>3. ASSUME AllAssigned(text) PROVE ConfRead(conf')
  <2>1. ConfAfter(conf, L, Len(L)) BY <1>1, <1>3 DEF ReadInv
  <2>2. /\ \A key : WordsAfter(L, Len(L), key) = WordsOf(text.lines, key)
        /\ Repeats(ListOf(L)[Len(L)], Written(text.lines))
    BY <1>1, AtEnd
  <2> HIDE DEF L
  <2>3. "Destination" \in Keys /\ "Destination" \notin DOMAIN override
    <3>1. "Destination" \in Keys BY DEF Keys
    <3>2. DOMAIN override \subseteq NumberKeys BY <1>1, OverridesAre
    <3> QED BY <3>1, <3>2, KindsOfKeys
  <2>4. conf'["Destination"] = conf["Destination"] BY <1>2, <2>3
  <2>5. \A key \in Keys \ {"Destination"} : conf[key] = FieldOf(key, WordsOf(text.lines, key))
    BY <2>1, <2>2 DEF ConfAfter
  <2> QED BY <1>1, <1>2, <2>1, <2>2, <2>4, <2>5 DEF ConfAfter, ConfRead
<1>4. AllAssigned(text)' <=> AllAssigned(text) BY <1>1 DEF AllAssigned
<1>5. AllAssigned(text) => ConfRead(conf)' BY <1>1, <1>3 DEF ConfRead
<1> QED BY <1>1, <1>4, <1>5 DEF ReadInv

LEMMA ReadStep ==
  ASSUME TypeInv, ReadInv, [Next]_vars PROVE ReadInv'
<1>1. ASSUME NEW line \in CommandLines, Launch(line) PROVE ReadInv'
  BY <1>1 DEF Launch, ReadInv
<1>2. ASSUME phase' \in {"options", "open", "template", "off"} PROVE ReadInv'
  BY <1>2 DEF ReadInv
<1>3. ASSUME phase = "options", UNCHANGED configVars PROVE text' = NoFile
  BY <1>3 DEF configVars, TypeInv
<1>4. CASE NumberOption
  <2>1. text' = NoFile /\ phase' \in {"options", "died"}
    BY <1>3, <1>4 DEF NumberOption, Opt
  <2> QED BY <2>1 DEF ReadInv
<1>5. CASE LevelOption BY <1>2, <1>5 DEF LevelOption, Opt
<1>6. CASE HelpOption BY <1>2, <1>6 DEF HelpOption
<1>7. CASE VersionOption BY <1>2, <1>7 DEF VersionOption, Opt
<1>8. CASE OtherOption BY <1>2, <1>8 DEF OtherOption, Opt
<1>9. CASE EndOfOptions BY <1>2, <1>9 DEF EndOfOptions
<1>10. CASE Open
  <2>1. /\ phase' = "read" /\ text' \in Files /\ pos' = 0 /\ conf' = Defaults
    BY <1>10 DEF Open, TypeInv
  <2>2. FileOK(text') BY <2>1, FilesOK
  <2>3. LinesRead' = LinesIn(text') BY DEF LinesRead, LinesIn
  <2>5. LinesRead' \in Seq(LineType) BY <2>2, <2>3, LinesInOK
  <2>6. ConfAfter(Defaults, LinesRead', 0) BY <2>5, ConfAtStart
  <2>7. ConfAfter(conf, LinesRead, pos)' BY <2>1, <2>6 DEF ConfAfter
  <2>8. pos' <= Len(LinesRead') BY <2>1, <2>5
  <2> QED BY <2>1, <2>7, <2>8 DEF ReadInv
<1>11. CASE OpenFails \/ CreateFile
  <2>1. phase' = "template" \/ (phase' = "failed" /\ text' = NoFile)
    BY <1>11 DEF OpenFails, CreateFile, configVars, TypeInv
  <2> QED BY <1>2, <2>1 DEF ReadInv
<1>12. CASE WriteTemplate BY <1>2, <1>12 DEF WriteTemplate
<1>13. CASE ReadLine BY <1>13, ReadLineStep
<1>14. CASE Override BY <1>14, OverrideStep
<1>15. ASSUME UNCHANGED <<text, conf, override>>
       PROVE  /\ AllAssigned(text)' <=> AllAssigned(text)
              /\ ConfRead(conf)' <=> ConfRead(conf)
              /\ Verified(conf)' <=> Verified(conf)
              /\ Unreadable(text)' <=> Unreadable(text)
              /\ LinesRead' = LinesRead
              /\ Targets(conf)' = Targets(conf)
  BY <1>15 DEF AllAssigned, ConfRead, Verified, SourceFound, Exists, Unreadable, LinesRead,
               Targets, Constructed, Listed
<1>16. CASE Verify
  <2>1. /\ UNCHANGED <<text, conf, override>> /\ phase = "verify"
        /\ phase' = IF Verified(conf) THEN "construct" ELSE "failed"
    BY <1>16 DEF Verify, optionVars, configVars
  <2> QED BY <1>15, <2>1 DEF ReadInv
<1>17. CASE Construct
  <2>1. /\ UNCHANGED <<text, conf, override>> /\ phase = "construct" /\ phase' = "up"
        /\ targets' = Targets(conf)
    BY <1>17 DEF Construct, optionVars
  <2> QED BY <1>15, <2>1 DEF ReadInv
<1>18. CASE End BY <1>2, <1>18 DEF End
<1>19. ASSUME UNCHANGED <<phase, pos, targets>>, UNCHANGED <<text, conf, override>>
       PROVE  ReadInv'
  <2>1. ConfAfter(conf, LinesRead, pos)' <=> ConfAfter(conf, LinesRead, pos)
    BY <1>15, <1>19 DEF ConfAfter
  <2> QED BY <1>15, <1>19, <2>1 DEF ReadInv
<1>20. CASE Edit BY <1>19, <1>20 DEF Edit, optionVars, configVars
<1>21. CASE UNCHANGED vars BY <1>19, <1>21 DEF vars
<1> QED BY <1>1, <1>4, <1>5, <1>6, <1>7, <1>8, <1>9, <1>10, <1>11, <1>12, <1>13, <1>14,
           <1>16, <1>17, <1>18, <1>20, <1>21 DEF Next

StartInv == TypeInv /\ OptInv /\ ReadInv

LEMMA StartInvCorrect == Spec => []StartInv
<1>1. Init => StartInv
  <2>1. ASSUME Init PROVE OptInv /\ ReadInv BY <2>1 DEF Init, OptInv, ReadInv
  <2> QED BY <2>1, TypeInit DEF StartInv
<1>2. ASSUME StartInv, [Next]_vars PROVE StartInv'
  BY <1>2, TypeStep, OptStep, ReadStep DEF StartInv
<1> QED BY <1>1, <1>2, PTL DEF Spec

-----------------------------------------------------------------------------
(* The meaning of the whole.                                               *)

\* The fields are those that are meant, the list but for what it repeats at its end.
MeantIs(c, m) ==
  /\ \A key \in Keys \ {"Destination"} : c[key] = m[key]
  /\ Repeats(c["Destination"], m["Destination"])

LEMMA ConfMeant ==
  ASSUME TypeInv, ConfRead(conf), Overriding, optind = Len(started)
  PROVE  MeantIs(conf, Meant(text, started))
<1> DEFINE m == Meant(text, started)
<1>1. \A key \in Keys : m[key] =
        IF key = "Destination" THEN Written(text.lines)
        ELSE IF Setting(started, key) # {} THEN SetTo(started[Max(Setting(started, key))])
        ELSE FieldOf(key, WordsOf(text.lines, key))
  BY DEF Meant
<1>2. \A key : Setting(started, key) = SetBefore(started, optind, key)
  <2>1. DOMAIN started = 1..optind BY DEF TypeInv
  <2> QED BY <2>1 DEF Setting, SetBefore
<1>3. \A key \in Keys : key \notin Range(Overrides) => Setting(started, key) = {}
  BY DEF Setting, Range
<1>4. ASSUME NEW key \in Keys \ {"Destination"} PROVE conf[key] = m[key]
  <2>1. CASE key \in Range(Overrides)
    <3> DEFINE S == Setting(started, key)
    <3>1. IF S = {} THEN ~override[key].given
          ELSE override[key].given /\ override[key].to = SetTo(started[Max(S)])
      BY <1>2, <2>1 DEF Overriding
    <3>2. conf[key] = IF override[key].given THEN override[key].to
                      ELSE FieldOf(key, WordsOf(text.lines, key))
      BY <1>4, <2>1 DEF ConfRead
    <3>3. m[key] = IF S # {} THEN SetTo(started[Max(S)])
                   ELSE FieldOf(key, WordsOf(text.lines, key))
      BY <1>1, <1>4
    <3> HIDE DEF S, m
    <3> QED BY <3>1, <3>2, <3>3
  <2>2. CASE key \notin Range(Overrides)
    BY <1>1, <1>3, <1>4, <2>2 DEF ConfRead
  <2> QED BY <2>1, <2>2
<1>5. m["Destination"] = Written(text.lines) BY <1>1 DEF Keys
<1> QED BY <1>4, <1>5 DEF MeantIs, ConfRead

LEMMA RepeatsEmpty ==
  ASSUME NEW d, NEW b, Repeats(d, b) PROVE d = <<>> <=> b = <<>>
<1>1. Len(d) \in Nat /\ Len(b) \in Nat BY DEF Repeats
<1>2. ASSUME Len(d) # 0 PROVE Len(b) # 0
  <2>1. 1 \in 1..Len(d) BY <1>1, <1>2
  <2>2. PICK j \in 1..Len(b) : d[1] = b[j] BY <2>1 DEF Repeats
  <2> QED BY <1>1, <2>2
<1>3. Len(b) <= Len(d) BY DEF Repeats
<1>4. Len(d) = 0 <=> Len(b) = 0 BY <1>1, <1>2, <1>3
<1>5. d \in Seq(ValueType) /\ b \in Seq(ValueType) BY DEF Repeats
<1> QED BY <1>4, <1>5, EmptySeq

\* What passes verify() does not depend on the repetition.
LEMMA VerifiedMeant ==
  ASSUME NEW c, NEW m, MeantIs(c, m)
  PROVE  Verified(c) <=> Verified(m)
<1>1. c["Destination"] = <<>> <=> m["Destination"] = <<>>
  BY RepeatsEmpty DEF MeantIs
<1>2. {"Source Directory", "Metadata Directory", "Exec"} \cup Deprecated \cup NumberKeys
        \subseteq Keys \ {"Destination"}
  BY DEF Keys, TextKeys, NumberKeys, Deprecated
<1>3. /\ c["Source Directory"] = m["Source Directory"] /\ c["Exec"] = m["Exec"]
      /\ c["Metadata Directory"] = m["Metadata Directory"]
      /\ \A key \in Deprecated : c[key] = m[key]
      /\ \A key \in NumberKeys : c[key] = m[key]
  BY <1>2 DEF MeantIs
<1> QED BY <1>1, <1>3 DEF Verified, SourceFound

\* Repeating what is there already changes neither who is a target nor the order.
LEMMA SameOrderIs ==
  ASSUME NEW M \in Nat, NEW N \in Nat, N <= M, NEW a, NEW b,
         DOMAIN a = 1..M, DOMAIN b = 1..N,
         \A i \in 1..N : a[i] = b[i],
         \A i \in 1..M : \E j \in 1..N : a[i] = b[j]
  PROVE  SameOrder(a, b)
<1>1. Range(a) = Range(b) BY DEF Range
<1>2. ASSUME NEW x \in Range(a), NEW y \in Range(a), Before(b, x, y) PROVE Before(a, x, y)
  <2>1. PICK i \in 1..N : b[i] = x /\ \A j \in 1..i : b[j] # y BY <1>2 DEF Before
  <2>2. i \in 1..M /\ \A j \in 1..i : j \in 1..N OBVIOUS
  <2>3. a[i] = x /\ \A j \in 1..i : a[j] # y BY <2>1, <2>2
  <2> QED BY <2>2, <2>3 DEF Before
<1>3. ASSUME NEW x \in Range(a), NEW y \in Range(a), Before(a, x, y) PROVE Before(b, x, y)
  <2>1. PICK i \in 1..M : a[i] = x /\ \A j \in 1..i : a[j] # y BY <1>3 DEF Before
  <2>2. PICK k \in 1..N : b[k] = x BY <1>1, <1>3 DEF Range
  <2>3. CASE i <= N
    <3>1. i \in 1..N /\ \A j \in 1..i : j \in 1..N BY <2>3
    <3>2. b[i] = x /\ \A j \in 1..i : b[j] # y BY <2>1, <3>1
    <3> QED BY <3>1, <3>2 DEF Before
  <2>4. CASE ~(i <= N)
    <3>1. \A j \in 1..k : j \in 1..i /\ j \in 1..N BY <2>4
    <3>2. \A j \in 1..k : b[j] # y BY <2>1, <3>1
    <3> QED BY <2>2, <3>2 DEF Before
  <2> QED BY <2>3, <2>4
<1> QED BY <1>1, <1>2, <1>3 DEF SameOrder

LEMMA TargetsMeant ==
  ASSUME NEW c, NEW m, MeantIs(c, m)
  PROVE  SameOrder(Targets(c), Targets(m))
<1> DEFINE d == c["Destination"]
           b == m["Destination"]
<1>1. Repeats(d, b) /\ (d = <<>> <=> b = <<>>) BY RepeatsEmpty DEF MeantIs
<1>2. CASE b = <<>>
  <2>1. Targets(c) = <<Constructed(c)>> /\ Targets(m) = <<Constructed(m)>>
    BY <1>1, <1>2 DEF Targets
  <2>2. Constructed(c) = Constructed(m)
    <3>1. Deprecated \subseteq Keys \ {"Destination"} BY DEF Keys, TextKeys, Deprecated
    <3> QED BY <3>1 DEF MeantIs, Constructed, Deprecated
  <2> QED BY <2>1, <2>2 DEF SameOrder
<1>3. CASE b # <<>>
  <2>1. /\ Targets(c) = [i \in DOMAIN d |-> Listed(d[i])]
        /\ Targets(m) = [i \in DOMAIN b |-> Listed(b[i])]
    BY <1>1, <1>3 DEF Targets
  <2> HIDE DEF d, b
  <2>2. /\ DOMAIN d = 1..Len(d) /\ DOMAIN b = 1..Len(b) /\ Len(d) \in Nat /\ Len(b) \in Nat
        /\ Len(b) <= Len(d)
    BY <1>1 DEF Repeats
  <2> DEFINE s == Targets(c)
             t == Targets(m)
  <2>3. DOMAIN s = 1..Len(d) /\ DOMAIN t = 1..Len(b) BY <2>1, <2>2
  <2>4. \A i \in 1..Len(b) : s[i] = t[i]
    <3>1. \A i \in 1..Len(b) : i \in 1..Len(d) BY <2>2
    <3> QED BY <1>1, <2>1, <2>2, <3>1 DEF Repeats
  <2>5. \A i \in 1..Len(d) : \E j \in 1..Len(b) : s[i] = t[j]
    <3>1. ASSUME NEW i \in 1..Len(d) PROVE \E j \in 1..Len(b) : s[i] = t[j]
      <4>1. PICK j \in 1..Len(b) : d[i] = b[j] BY <1>1 DEF Repeats
      <4>2. s[i] = Listed(d[i]) /\ t[j] = Listed(b[j]) BY <2>1, <2>2
      <4> QED BY <4>1, <4>2
    <3> QED BY <3>1
  <2> HIDE DEF s, t
  <2>6. SameOrder(s, t) BY <2>2, <2>3, <2>4, <2>5, SameOrderIs
  <2> QED BY <2>6 DEF s, t
<1> QED BY <1>2, <1>3

-----------------------------------------------------------------------------
(* The properties.                                                         *)

LEMMA StartsMeant ==
  ASSUME StartInv, phase = "up" \/ (phase = "failed" /\ text # NoFile), AllAssigned(text)
  PROVE  MeantIs(conf, Meant(text, started))
<1>1. TypeInv /\ ConfRead(conf) BY DEF StartInv, ReadInv
<1>2. Overriding /\ optind = Len(started) BY DEF StartInv, OptInv
<1> QED BY <1>1, <1>2, ConfMeant

LEMMA GivesAt ==
  ASSUME NEW lines, NEW n \in Nat, DOMAIN lines = 1..n, NEW key,
         \A i \in 1..n : ~Gives(lines[i], key)
  PROVE  WordsOf(lines, key) = <<>>
BY DEF WordsOf

LEMMA TemplateSays ==
  ASSUME NEW file \in {Template, EmptyFile}
  PROVE  AllAssigned(file) /\ WordsOf(file.lines, "Source Directory") = <<>>
<1>1. CASE file = EmptyFile
  <2>1. DOMAIN file.lines = 1..0 /\ 1..0 = {} BY <1>1 DEF EmptyFile
  <2> QED BY <2>1, GivesAt DEF AllAssigned
<1>2. CASE file = Template
  <2> DEFINE lines == file.lines
  <2>1. DOMAIN lines = 1..13
    <3>1. Template.lines = [i \in 1..13 |-> Template.lines[i]] BY TemplateIs
    <3>2. DOMAIN [i \in 1..13 |-> Template.lines[i]] = 1..13 OBVIOUS
    <3> QED BY <1>2, <3>1, <3>2, Zenon
  <2>2. \A i \in 1..13 : i = 1 \/ i = 2 \/ i = 3 \/ i = 4 \/ i = 5 \/ i = 6 \/ i = 7
          \/ i = 8 \/ i = 9 \/ i = 10 \/ i = 11 \/ i = 12 \/ i = 13
    OBVIOUS
  <2> DEFINE Mute(line) == line.assigned /\ (line.key # "Source Directory" \/ line.words = <<>>)
  <2>3. /\ Mute(lines[1]) /\ Mute(lines[2]) /\ Mute(lines[3]) /\ Mute(lines[4])
        /\ Mute(lines[5]) /\ Mute(lines[6]) /\ Mute(lines[7]) /\ Mute(lines[8])
        /\ Mute(lines[9]) /\ Mute(lines[10]) /\ Mute(lines[11]) /\ Mute(lines[12])
        /\ Mute(lines[13])
    BY <1>2 DEF Template, Line
  <2> HIDE DEF Mute
  <2>4. \A i \in 1..13 : Mute(lines[i]) BY <2>2, <2>3
  <2>5. AllAssigned(file) BY <2>1, <2>4 DEF AllAssigned, Mute
  <2>6. \A i \in 1..13 : ~Gives(lines[i], "Source Directory") BY <2>4 DEF Mute, Gives
  <2> QED BY <2>1, <2>5, <2>6, GivesAt
<1> QED BY <1>1, <1>2

\* The user's lines all have their "=": the only thing that is asked of what the user
\* writes.  Without it the next two theorems are false (config.cpp:69).
EveryLineAssigned == \A file \in UserFiles : AllAssigned(file)

LEMMA FilesAssigned ==
  ASSUME EveryLineAssigned, TypeInv, text # NoFile PROVE AllAssigned(text)
BY TemplateSays DEF EveryLineAssigned, TypeInv, Files

\* Whatever the file says and in which order, and whatever the options are, the
\* daemon that comes up has the settings that they mean (Config::Config).
THEOREM MeansWhatItSaysCorrect ==
  ASSUME EveryLineAssigned PROVE Spec => []MeansWhatItSays
<1>1. ASSUME StartInv PROVE MeansWhatItSays
  <2>1. SUFFICES ASSUME phase = "up"
                 PROVE  /\ \A key \in DOMAIN conf \ {"Destination"} :
                             conf[key] = Meant(text, started)[key]
                        /\ SameOrder(targets, Targets(Meant(text, started)))
    BY DEF MeansWhatItSays
  <2>2. /\ TypeInv /\ text # NoFile /\ targets = Targets(conf) /\ DOMAIN conf = Keys
    BY <1>1, <2>1, FilesOK DEF StartInv, TypeInv, ReadInv, ConfOK
  <2>3. MeantIs(conf, Meant(text, started)) BY <1>1, <2>1, <2>2, FilesAssigned, StartsMeant
  <2> QED BY <2>2, <2>3, TargetsMeant DEF MeantIs
<1> QED BY <1>1, StartInvCorrect, PTL

\* A file and options whose meaning passes verify() always come up: no line, option
\* or repetition on the way makes a start fail that should not.
THEOREM SoundStartsCorrect ==
  ASSUME EveryLineAssigned PROVE Spec => []SoundStarts
<1>1. ASSUME StartInv PROVE SoundStarts
  <2>1. SUFFICES ASSUME phase \in {"failed", "died"}, text # NoFile
                 PROVE  ~(Readable(text, started) /\ Verified(Meant(text, started)))
    BY DEF SoundStarts
  <2>2. AllAssigned(text) BY <1>1, <2>1, FilesAssigned DEF StartInv
  <2>3. CASE phase = "failed"
    <3>1. ~Verified(conf) BY <1>1, <2>1, <2>3 DEF StartInv, ReadInv
    <3>2. MeantIs(conf, Meant(text, started)) BY <1>1, <2>1, <2>2, <2>3, StartsMeant
    <3> QED BY <3>1, <3>2, VerifiedMeant
  <2>4. CASE phase = "died"
    <3>1. Unreadable(text) BY <1>1, <2>1, <2>2, <2>4 DEF StartInv, ReadInv
    <3> QED BY <3>1 DEF Unreadable, Readable
  <2> QED BY <2>1, <2>3, <2>4
<1> QED BY <1>1, StartInvCorrect, PTL

\* No daemon ever runs on the file that it has created itself, whether it was killed
\* before the template was written into it or not (Config::init_config_file).
THEOREM NotOnTemplateCorrect == Spec => []NotOnTemplate
<1>1. ASSUME StartInv PROVE NotOnTemplate
  <2>1. SUFFICES ASSUME phase = "up", text \in {Template, EmptyFile} PROVE FALSE
    BY DEF NotOnTemplate
  <2>2. ConfRead(conf) /\ Verified(conf)
    BY <1>1, <2>1, TemplateSays DEF StartInv, ReadInv
  <2>3. "Source Directory" \in Keys \ {"Destination"} /\ "Source Directory" \in TextKeys
    BY DEF Keys, TextKeys
  <2>4. "Source Directory" \notin Range(Overrides) BY <2>3, OverridesAre, KindsOfKeys
  <2>5. conf["Source Directory"] = FieldOf("Source Directory", <<>>)
    BY <2>1, <2>2, <2>3, <2>4, TemplateSays DEF ConfRead
  <2>6. FieldOf("Source Directory", <<>>) = Value(<<>>) BY <2>3, FieldKinds
  <2>7. Value(<<>>).words = <<>> BY DEF Value
  <2>8. ~Exists(Value(<<>>)) BY <2>7 DEF Exists
  <2>9. Exists(conf["Source Directory"]) BY <2>2 DEF Verified, SourceFound
  <2> QED BY <2>5, <2>6, <2>8, <2>9
<1> QED BY <1>1, StartInvCorrect, PTL
=============================================================================
