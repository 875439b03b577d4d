------------------------------ MODULE MCConfig ------------------------------
(***************************************************************************)
(* Instances of Config for TLC: a sound file, with up to two more lines    *)
(* before or after it, and a last line with or without its newline.        *)
(***************************************************************************)
EXTENDS Config

MCWords == {"false", "true", "rsync", "-a", "/var", "/src", "/none", "a", "b", "c",
            "10", "4", "1", "0", "-2", "many", "99999999999"}
MCStoi == [w \in {"10", "4", "1", "0", "-2"} |->
            CASE w = "10" -> 10 [] w = "4" -> 4 [] w = "1" -> 1 [] w = "0" -> 0
              [] w = "-2" -> -2]

SoundLines ==
  << Line("Source Directory", <<"/src">>), Line("Metadata Directory", <<"/var">>),
     Line("Exec", <<"rsync">>), Line("Sync Period", <<"10">>),
     Line("Propagation Delay", <<"10">>), Line("Log Level", <<"1">>),
     Line("Processes", <<"4">>), Line("Threads", <<"4">>) >>

ExtraLines ==
  { Line("none", <<>>), Line("other", <<"many">>),
    Line("Source Directory", <<>>), Line("Source Directory", <<"/none">>),
    Line("Destination", <<"a">>), Line("Destination", <<"b", "c">>),
    Line("Remote Host", <<"a">>), Line("Remote User", <<"b">>),
    Line("Ignore Hidden", <<"true">>), Line("Ignore Hidden", <<"many">>),
    Line("Metadata Directory", <<"/src">>),
    Line("Threads", <<"many">>), Line("Threads", <<"-2">>), Line("Threads", <<"10", "a">>),
    Line("Threads", <<"99999999999">>) }

BareLines ==
  { Bare("Destination"), Bare("Threads"), Bare("Source Directory"), Bare("Ignore Hidden") }

UpTo2(S) == {<<>>} \cup {<<x>> : x \in S} \cup {<<x, y>> : x, y \in S}

File(lines, ended) == [ended |-> ended, lines |-> lines]

MCUserFiles ==
  {File(SoundLines \o tail, ended) : tail \in UpTo2(ExtraLines), ended \in BOOLEAN}
  \cup {File(<<x>> \o SoundLines \o <<y>>, TRUE) : x, y \in ExtraLines}

MCBareFiles ==
  {File(SoundLines \o tail, TRUE) : tail \in UpTo2(ExtraLines \cup BareLines)}

Option(opt, arg) == [opt |-> opt, arg |-> arg]

MCCommandLines ==
  { <<>>,
    <<Option("t", "4"), Option("other", "a"), Option("q", "a")>>,
    <<Option("v", "a"), Option("n", "10"), Option("n", "-2")>>,
    <<Option("n", "many")>>, <<Option("V", "a"), Option("t", "99999999999")>>,
    <<Option("V", "a"), Option("n", "4")>>, <<Option("h", "a")>> }
=============================================================================
