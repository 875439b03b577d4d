-------------------------- MODULE SourceTreeProofs --------------------------
(***************************************************************************)
(* Facts about the tree, for every tree: what Above is, and how the set of *)
(* the entries that a search has still to look at may change without a     *)
(* file being lost or found twice.                                         *)
(***************************************************************************)
EXTENDS SourceTree, TLAPS

\* A set of nodes that holds the parents of its members.
Closed(C) == C \subseteq Nodes /\ \A c \in C \ {Root} : Parent[c] \in C

-----------------------------------------------------------------------------
(* Paths.                                                                  *)

\* Above[e] is the least closed set with e in it.
LEMMA AboveClosed ==
  ASSUME NEW e \in Nodes
  PROVE  /\ e \in Above[e] /\ Closed(Above[e])
         /\ \A C : Closed(C) /\ e \in C => Above[e] \subseteq C
<1>1. Above[e] = {n \in Nodes : \A C \in SUBSET Nodes :
                    e \in C /\ (\A c \in C \ {Root} : Parent[c] \in C) => n \in C}
  BY DEF Above
<1>2. \A c \in Nodes \ {Root} : Parent[c] \in Nodes
  BY TreeAssumption DEF Nodes
<1>3. e \in Above[e]
  BY <1>1
<1>4. \A c \in Above[e] \ {Root} : Parent[c] \in Above[e]
  BY <1>1, <1>2
<1>5. \A C : Closed(C) /\ e \in C => Above[e] \subseteq C
  BY <1>1 DEF Closed
<1> QED BY <1>1, <1>3, <1>4, <1>5 DEF Closed

\* The path of what lies above an entry is part of the entry's path.
LEMMA AboveTransitive ==
  ASSUME NEW e \in Nodes, NEW n \in Above[e]
  PROVE  n \in Nodes /\ Above[n] \subseteq Above[e]
<1>1. n \in Nodes
  BY AboveClosed DEF Closed
<1> QED BY <1>1, AboveClosed

\* The root is above everything, and nothing else above the root.
LEMMA AboveRoot ==
  /\ Root \in Nodes /\ Above[Root] = {Root}
  /\ \A e \in Nodes : Root \in Above[e]
<1>1. Root \in Nodes
  BY TreeAssumption DEF Nodes
<1>2. Closed({Root})
  BY <1>1 DEF Closed
<1>3. Above[Root] = {Root}
  BY <1>1, <1>2, AboveClosed
<1>4. ASSUME NEW e \in Nodes, Root \notin Above[e] PROVE FALSE
  <2>1. Above[e] \subseteq Nodes \ {Root} /\ Above[e] # {}
    BY <1>4, AboveClosed DEF Closed
  <2>2. PICK c \in Above[e] : Parent[c] \notin Above[e]
    BY <2>1, TreeAssumption
  <2> QED BY <2>1, <2>2, AboveClosed DEF Closed
<1> QED BY <1>1, <1>3, <1>4

\* An entry's path is its directory's path and itself.
LEMMA AboveStep ==
  ASSUME NEW e \in Nodes, e # Root
  PROVE  /\ Parent[e] \in Dirs /\ Parent[e] \in Nodes
         /\ Above[e] = {e} \cup Above[Parent[e]]
<1>1. Parent[e] \in Dirs /\ Parent[e] \in Nodes
  BY TreeAssumption DEF Nodes
<1>2. Parent[e] \in Above[e]
  BY AboveClosed DEF Closed
<1>3. Closed({e} \cup Above[Parent[e]])
  BY <1>1, AboveClosed DEF Closed
<1>4. Above[e] \subseteq {e} \cup Above[Parent[e]]
  BY <1>3, AboveClosed
<1>5. {e} \cup Above[Parent[e]] \subseteq Above[e]
  BY <1>2, AboveTransitive, AboveClosed
<1> QED BY <1>1, <1>4, <1>5

\* No entry is above the directory that it is in.
LEMMA NoCycle ==
  ASSUME NEW e \in Nodes, e # Root
  PROVE  e \notin Above[Parent[e]]
<1> DEFINE S == {n \in Nodes \ {Root} : n \in Above[Parent[n]]}
<1>1. SUFFICES ASSUME S # {} PROVE FALSE
  OBVIOUS
<1>2. PICK n \in S : Parent[n] \notin S
  BY <1>1, TreeAssumption
<1> DEFINE d == Parent[n]
<1>3. n \in Nodes /\ n # Root /\ n \in Above[d] /\ d \in Nodes
  BY AboveStep
<1>4. d # Root
  BY <1>3, AboveRoot
<1>5. d \notin Above[Parent[d]] /\ Parent[d] \in Nodes
  BY <1>2, <1>3, <1>4, AboveStep
<1>6. n \in Above[Parent[d]]
  <2>1. Above[d] = {d} \cup Above[Parent[d]]
    BY <1>3, <1>4, AboveStep
  <2>2. n # d
    BY <1>2, <1>3
  <2> QED BY <1>3, <2>1, <2>2
<1>7. d \in Above[Parent[d]]
  BY <1>3, <1>5, <1>6, AboveClosed DEF Closed
<1> QED BY <1>5, <1>7

\* Two entries are not above each other.
LEMMA AboveAntisymmetric ==
  ASSUME NEW e \in Nodes, NEW n \in Nodes, n \in Above[e], e \in Above[n]
  PROVE  n = e
<1>1. SUFFICES ASSUME n # e PROVE FALSE
  OBVIOUS
<1>2. e # Root
  BY <1>1, AboveRoot
<1>3. n \in Above[Parent[e]] /\ Parent[e] \in Nodes
  BY <1>1, <1>2, AboveStep
<1>4. e \in Above[Parent[e]]
  BY <1>3, AboveTransitive
<1> QED BY <1>2, <1>4, NoCycle

\* What is above a file, but the file, is a directory.
LEMMA AboveAreDirs ==
  ASSUME NEW e \in Nodes
  PROVE  Above[e] \subseteq {e} \cup Dirs
<1>1. Closed({e} \cup Dirs)
  BY TreeAssumption DEF Closed, Nodes
<1> QED BY <1>1, AboveClosed

\* Expected, said with paths: all of a file's path but the root is let through.
LEMMA ExpectedIs ==
  ASSUME NEW shown
  PROVE  Expected(shown) = {f \in Files : Above[f] \ {Root} \subseteq shown}
BY AboveRoot DEF Expected, FilesBelow, Nodes

-----------------------------------------------------------------------------
(* What is left of a search.                                               *)

\* P, the entries that a search has still to look at, cuts every path to a file that
\* has to be found and is not in the list yet, once; and no other path to a file.
Cuts(P, shown, found) ==
  /\ P \subseteq Nodes
  /\ \A a, b \in P : a \in Above[b] => a = b
  /\ \A a \in P : Above[a] \ {a, Root} \subseteq shown
  /\ \A f \in Files : found[f] \in {0, 1}
  /\ \A f \in Files : found[f] = 1 => f \in Expected(shown) /\ P \cap Above[f] = {}
  /\ \A f \in Expected(shown) : found[f] = 0 => P \cap Above[f] # {}

\* At first the root is left.
LEMMA CutsRoot ==
  ASSUME NEW shown, NEW found, \A f \in Files : found[f] = 0
  PROVE  Cuts({Root}, shown, found)
<1>1. Expected(shown) \subseteq Files /\ Files \subseteq Nodes
  BY DEF Expected, FilesBelow, Nodes
<1> QED BY <1>1, AboveRoot DEF Cuts

\* A directory that was let through gives way to its entries.
LEMMA CutsOpen ==
  ASSUME NEW P, NEW shown, NEW found, Cuts(P, shown, found),
         NEW d \in P, d \in Dirs, d \in shown \cup {Root}
  PROVE  Cuts((P \ {d}) \cup Entries(d), shown, found)
<1> DEFINE Q == (P \ {d}) \cup Entries(d)
<1>1. d \in Nodes /\ P \subseteq Nodes
  BY DEF Cuts
<1>2. \A e \in Entries(d) : /\ e \in Nodes /\ e # Root /\ Parent[e] = d
                            /\ Above[e] = {e} \cup Above[d] /\ e \notin Above[d]
  BY AboveStep, NoCycle DEF Entries
<1>3. Q \subseteq Nodes
  BY <1>1, <1>2
<1>4. ASSUME NEW a \in Q, NEW b \in Q, a \in Above[b] PROVE a = b
  <2>1. CASE a \in P \ {d} /\ b \in P \ {d}
    BY <2>1, <1>4 DEF Cuts
  <2>2. CASE a \in P \ {d} /\ b \in Entries(d)
    BY <2>2, <1>4, <1>2 DEF Cuts
  <2>3. CASE a \in Entries(d) /\ b \in P \ {d}
    <3>1. d \in Above[a]
      BY <1>1, <1>2, <2>3, AboveClosed
    <3>2. d \in Above[b]
      BY <3>1, <1>1, <1>4, <2>3, AboveTransitive
    <3> QED BY <3>2, <2>3 DEF Cuts
  <2>4. CASE a \in Entries(d) /\ b \in Entries(d)
    <3>1. CASE a \in Above[d]
      BY <3>1, <2>4, <1>2
    <3> QED BY <3>1, <2>4, <1>4, <1>2
  <2> QED BY <2>1, <2>2, <2>3, <2>4
<1>5. ASSUME NEW a \in Q PROVE Above[a] \ {a, Root} \subseteq shown
  <2>1. CASE a \in P BY <2>1 DEF Cuts
  <2>2. CASE a \in Entries(d)
    <3>1. Above[d] \ {d, Root} \subseteq shown BY DEF Cuts
    <3> QED BY <3>1, <2>2, <1>2
  <2> QED BY <2>1, <2>2
<1>6. ASSUME NEW f \in Files, found[f] = 1 PROVE Q \cap Above[f] = {}
  <2>1. P \cap Above[f] = {} /\ f \in Nodes
    BY <1>6 DEF Cuts, Nodes
  <2>2. ASSUME NEW e \in Entries(d), e \in Above[f] PROVE FALSE
    <3>1. d \in Above[f]
      BY <2>1, <2>2, <1>2, AboveClosed DEF Closed
    <3> QED BY <3>1, <2>1
  <2> QED BY <2>1, <2>2
<1>7. ASSUME NEW f \in Expected(shown), found[f] = 0 PROVE Q \cap Above[f] # {}
  <2>1. PICK a \in P : a \in Above[f]
    BY <1>7 DEF Cuts
  <2>2. f \in Files /\ f \in Nodes
    BY DEF Expected, FilesBelow, Nodes
  <2>3. CASE a = d
    <3> DEFINE S == {n \in Above[f] : d \in Above[n] /\ n # d}
    <3>1. f \in S /\ S \subseteq Nodes \ {Root}
      <4>1. f \in Above[f] /\ Above[f] \subseteq Nodes
        BY <2>2, AboveClosed DEF Closed
      <4>2. f # d
        BY <2>2, TreeAssumption
      <4>3. Root \notin S
        BY AboveRoot
      <4> QED BY <2>1, <2>3, <4>1, <4>2, <4>3
    <3>2. PICK e \in S : Parent[e] \notin S
      <4>1. S \in SUBSET (Nodes \ {Root}) /\ S # {}
        BY <3>1
      <4> HIDE DEF S
      <4> QED BY <4>1, TreeAssumption
    <3>3. e \in Nodes /\ e # Root
      BY <3>1, <3>2
    <3>4. Parent[e] \in Above[f]
      BY <2>2, <3>2, <3>3, AboveClosed DEF Closed
    <3>5. d \in Above[Parent[e]]
      BY <3>2, <3>3, AboveStep
    <3>6. e \in Entries(d)
      BY <3>2, <3>3, <3>4, <3>5 DEF Entries
    <3> QED BY <3>2, <3>6
  <2> QED BY <2>1, <2>3
<1> QED BY <1>3, <1>4, <1>5, <1>6, <1>7 DEF Cuts

\* An entry that was not let through, and with it what is below.
LEMMA CutsIgnore ==
  ASSUME NEW P, NEW shown, NEW found, Cuts(P, shown, found),
         NEW e \in P, e \notin shown, e # Root
  PROVE  Cuts(P \ {e}, shown, found)
<1>1. ASSUME NEW f \in Expected(shown) PROVE e \notin Above[f]
  BY ExpectedIs
<1> QED BY <1>1 DEF Cuts

\* A file that was let through goes into the list.
LEMMA CutsFind ==
  ASSUME NEW P, NEW shown, NEW found \in [Files -> Nat], Cuts(P, shown, found),
         NEW e \in P, e \in Files, e \in shown
  PROVE  /\ e \in Expected(shown) /\ found[e] = 0
         /\ Cuts(P \ {e}, shown, [found EXCEPT ![e] = @ + 1])
<1> DEFINE new == [found EXCEPT ![e] = @ + 1]
<1>1. e \in Nodes /\ e \in Above[e]
  BY AboveClosed DEF Nodes
<1>2. e \in Expected(shown)
  <2>1. Above[e] \ {Root} \subseteq shown
    BY DEF Cuts
  <2> QED BY <2>1, ExpectedIs
<1>3. found[e] = 0
  BY <1>1 DEF Cuts
<1>4. new[e] = 1 /\ \A f \in Files \ {e} : new[f] = found[f]
  BY <1>3
<1>5. \A f \in Files \ {e} : e \notin Above[f]
  BY AboveAreDirs, TreeAssumption DEF Nodes
<1>6. (P \ {e}) \cap Above[e] = {}
  BY DEF Cuts
<1> HIDE DEF new
<1>7. Cuts(P \ {e}, shown, new)
  <2>1. Expected(shown) \subseteq Files
    BY DEF Expected, FilesBelow
  <2> QED BY <1>2, <1>4, <1>5, <1>6, <2>1 DEF Cuts
<1> QED BY <1>2, <1>3, <1>7 DEF new

\* The entries of a directory that is still to be read are not yet to be looked at.
LEMMA CutsFresh ==
  ASSUME NEW P, NEW shown, NEW found, Cuts(P, shown, found), NEW d \in P
  PROVE  Entries(d) \cap P = {} /\ Root \notin Entries(d) /\ d \notin Entries(d)
<1>1. \A e \in Entries(d) : e \in Nodes /\ e # Root /\ d \in Above[e] /\ e # d
  <2>1. ASSUME NEW e \in Entries(d) PROVE e \in Nodes /\ e # Root /\ d \in Above[e] /\ e # d
    <3>1. e \in Nodes /\ e # Root /\ Parent[e] = d BY DEF Entries
    <3>2. d \in Nodes /\ e \notin Above[d] /\ d \in Above[e]
      BY <3>1, AboveStep, NoCycle, AboveClosed
    <3> QED BY <3>1, <3>2, AboveClosed
  <2> QED BY <2>1
<1> QED BY <1>1 DEF Cuts

\* What NothingOverlooked says, from Cuts.
LEMMA CutsSaid ==
  ASSUME NEW P, NEW shown, NEW found, Cuts(P, shown, found), NEW f \in Expected(shown)
  PROVE  /\ found[f] \in {0, 1}
         /\ found[f] = 0 <=> f \in FilesBelow(shown, P \cap (shown \cup {Root}))
<1>1. f \in Files /\ Above[f] \ {Root} \subseteq shown
  BY ExpectedIs
<1>2. f \in FilesBelow(shown, P \cap (shown \cup {Root})) <=> P \cap Above[f] # {}
  <2>1. \A s \in Above[f] : s \in shown \cup {Root} /\ Root \in Above[s]
    BY <1>1, AboveTransitive, AboveRoot DEF Nodes
  <2> QED BY <1>1, <2>1 DEF FilesBelow
<1> QED BY <1>1, <1>2 DEF Cuts
=============================================================================
