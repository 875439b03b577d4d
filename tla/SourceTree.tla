----------------------------- MODULE SourceTree -----------------------------
(***************************************************************************)
(* The directory tree that a search walks: the snapshot, which does not    *)
(* change while it is read.  A search enters a directory, or lists a file, *)
(* only if ignore_entry() lets it through; the entries that it lets        *)
(* through are the set shown, which differs from search to search.         *)
(***************************************************************************)
EXTENDS Integers

CONSTANTS
  Root,        \* snap_path_
  Dirs, Files, \* the directories, Root among them, and everything else
  Parent       \* the directory that an entry is in

Nodes == Dirs \cup Files

ASSUME TreeAssumption ==
  /\ Root \in Dirs
  /\ Dirs \cap Files = {}
  /\ Parent \in [Nodes \ {Root} -> Dirs]
  /\ \A S \in SUBSET (Nodes \ {Root}) : S # {} => \E e \in S : Parent[e] \notin S

\* What a directory_iterator over d yields.
Entries(d) == {e \in Nodes \ {Root} : Parent[e] = d}

\* An entry and the directories that it is in, up to the root.
Above == [e \in Nodes |-> {n \in Nodes : \A C \in SUBSET Nodes :
            e \in C /\ (\A c \in C \ {Root} : Parent[c] \in C) => n \in C}]

\* The files at or below the nodes of S on the way to which everything is shown.
FilesBelow(shown, S) ==
  {f \in Files : \E s \in S \cap Above[f] : Above[f] \ Above[s] \subseteq shown}

\* The files that a search has to find: those no part of whose path is ignored.
Expected(shown) == FilesBelow(shown, {Root})
=============================================================================
