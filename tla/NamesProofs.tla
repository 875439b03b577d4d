----------------------------- MODULE NamesProofs -----------------------------
(***************************************************************************)
(* The pointer arithmetic of Names does what the comments say for every    *)
(* root and for paths of any length, of any characters.                    *)
(***************************************************************************)
EXTENDS Names, Extrema, SequenceTheorems

\* What the iterators yield.
PathOK == below \in Seq(Characters) /\ below # <<>> /\ below[1] = "/"

LEMMA PathInv == Spec => []PathOK
<1>1. Init => PathOK
  BY NamesAssumption DEF Init, PathOK
<1>2. ASSUME PathOK, [Next]_vars PROVE PathOK'
  <2>1. ASSUME NEW piece \in Pieces, Grow(piece) PROVE PathOK'
    <3>1. piece \in Seq(Characters) BY NamesAssumption
    <3>2. below' = below \o piece BY <2>1 DEF Grow
    <3> QED BY <1>2, <3>1, <3>2 DEF PathOK
  <2>2. CASE Again
    BY <2>2, NamesAssumption DEF Again, PathOK
  <2>3. CASE UNCHANGED vars
    BY <1>2, <2>3 DEF vars, PathOK
  <2> QED BY <1>2, <2>1, <2>2, <2>3 DEF Next
<1> QED BY <1>1, <1>2, PTL DEF Spec

-----------------------------------------------------------------------------
(* C strings.                                                              *)

\* The terminator is the first character that is "nul".
LEMMA CharIs ==
  ASSUME NEW s \in Seq(Characters), NEW i \in Nat, i <= Len(s)
  PROVE  /\ i < Len(s) => Char(s, i) = s[i + 1] /\ Char(s, i) # "nul"
         /\ i = Len(s) => Char(s, i) = "nul"
<1>1. CASE i < Len(s)
  <2>1. i \in 0..Len(s)-1 /\ i # Len(s) BY <1>1
  <2>2. s[i + 1] \in Characters BY <2>1
  <2>3. Char(s, i) = s[i + 1] BY <2>1 DEF Char
  <2> QED BY <2>1, <2>2, <2>3, NamesAssumption
<1>2. CASE i = Len(s)
  <2>1. i \notin 0..Len(s)-1 BY <1>2
  <2> QED BY <1>2, <2>1 DEF Char
<1> QED BY <1>1, <1>2

\* get_last_of() finds the last occurrence but never the first character.
LEMMA LastOfIs ==
  ASSUME NEW s \in Seq(Characters), NEW test
  PROVE  /\ LastOf(s, test) = Null \/ LastOf(s, test) \in 1..Len(s)-1
         /\ LastOf(s, test) # Null => s[LastOf(s, test) + 1] = test
         /\ \A i \in 1..Len(s)-1 : s[i + 1] = test => i <= LastOf(s, test)
<1> DEFINE Found == {i \in 1..Len(s)-1 : Char(s, i) = test}
           S == {Null} \cup Found
<1>1. \A i \in 1..Len(s)-1 : Char(s, i) = s[i + 1]
  BY CharIs
<1>2. S # {} /\ S \subseteq Int /\ (\A x \in S : x <= Len(s)) /\ Len(s) \in Int
  BY DEF Null
<1>3. Max(S) \in S /\ \A x \in S : x <= Max(S)
  <2> HIDE DEF S
  <2> QED BY <1>2, MaxIs
<1>4. LastOf(s, test) = Max(S) BY DEF LastOf
<1> QED BY <1>1, <1>3, <1>4 DEF Null

-----------------------------------------------------------------------------
(* The name of an entry.                                                   *)

\* The part of the path after the last "/" is the same whatever the root is and
\* whatever has been put between the two.
LEMMA FilenameIs ==
  ASSUME PathOK, isEntry, NEW prefix \in Seq(Characters), prefix # <<>>
  PROVE  /\ Filename(prefix \o below) = Name
         /\ Name \in Seq(Characters) /\ Name # <<>>
         /\ \A i \in 1..Len(Name) : Name[i] # "/"
<1> DEFINE S == {k \in DOMAIN below : below[k] = "/"}
           m == Max(S)
           path == prefix \o below
           last == LastOf(path, "/")
<1>1. below \in Seq(Characters) /\ Len(below) \in Nat \ {0} /\ below[1] = "/"
      /\ DOMAIN below = 1..Len(below)
  BY DEF PathOK
<1>2. m \in 1..Len(below) /\ below[m] = "/" /\ \A k \in 1..Len(below) : below[k] = "/" => k <= m
  <2>1. S # {} /\ S \subseteq Int /\ (\A x \in S : x <= Len(below)) /\ Len(below) \in Int
    BY <1>1
  <2>2. m \in S /\ \A x \in S : x <= m
    <3> HIDE DEF S
    <3> QED BY <1>1, <2>1, MaxIs
  <2> HIDE DEF m
  <2> QED BY <1>1, <2>2
<1>3. Name = SubSeq(below, m + 1, Len(below)) BY DEF Name
<1> HIDE DEF m
<1>4. m < Len(below) BY <1>1, <1>2 DEF isEntry
<1>5. /\ Name \in Seq(Characters) /\ Len(Name) = Len(below) - m
      /\ \A i \in 1..Len(Name) : Name[i] = below[m + i]
  <2>1. \A i \in m+1..Len(below) : below[i] \in Characters BY <1>1, <1>2
  <2>2. m + 1 \in Int /\ Len(below) \in Int BY <1>1, <1>2
  <2>3. /\ Name \in Seq(Characters)
        /\ Len(Name) = IF m + 1 <= Len(below) THEN Len(below) - (m + 1) + 1 ELSE 0
        /\ \A i \in 1..Len(below)-(m + 1)+1 : Name[i] = below[(m + 1) + i - 1]
    BY <1>3, <2>1, <2>2, SubSeqProperties
  <2>4. Len(Name) = Len(below) - m
    <3>1. Len(below) \in Int /\ m \in Int /\ m + 1 <= Len(below) BY <1>1, <1>2, <1>4
    <3>2. Len(Name) = Len(below) - (m + 1) + 1 BY <2>3, <3>1
    <3> QED BY <3>1, <3>2
  <2>5. ASSUME NEW i \in 1..Len(Name) PROVE Name[i] = below[m + i]
    <3>1. i \in 1..Len(below)-(m + 1)+1 /\ (m + 1) + i - 1 = m + i BY <1>1, <1>2, <2>4
    <3> QED BY <2>3, <3>1
  <2> QED BY <2>3, <2>4, <2>5
<1>6. /\ path \in Seq(Characters) /\ Len(path) = Len(prefix) + Len(below)
      /\ \A i \in 1..Len(below) : path[Len(prefix) + i] = below[i]
      /\ Len(prefix) \in Nat \ {0}
  BY <1>1
<1>11. prefix \o below = path OBVIOUS
<1> HIDE DEF path
<1>7. last = Len(prefix) + m - 1
  <2>1. Len(prefix) + m - 1 \in 1..Len(path)-1 BY <1>1, <1>2, <1>4, <1>6
  <2>2. path[Len(prefix) + m - 1 + 1] = "/" BY <1>2, <1>6
  <2>3. Len(prefix) + m - 1 <= last /\ last \in 1..Len(path)-1 /\ path[last + 1] = "/"
    BY <1>6, <2>1, <2>2, LastOfIs DEF Null
  <2>4. last + 1 - Len(prefix) \in 1..Len(below) BY <1>2, <1>6, <2>3
  <2>5. below[last + 1 - Len(prefix)] = "/" BY <1>6, <2>3, <2>4
  <2>6. last + 1 - Len(prefix) <= m BY <1>2, <2>4, <2>5
  <2> HIDE DEF last
  <2> QED BY <1>1, <1>2, <1>6, <2>3, <2>6
<1>8. Filename(path) = SubSeq(path, Len(prefix) + m + 1, Len(prefix) + Len(below))
  BY <1>2, <1>6, <1>7 DEF Filename, From
<1>9. Filename(path) = Name
  <2>1. Len(Filename(path)) = Len(below) - m /\ Filename(path) \in Seq(Characters)
        /\ \A i \in 1..Len(Name) : Filename(path)[i] = path[Len(prefix) + m + i]
    BY <1>2, <1>4, <1>5, <1>6, <1>8
  <2>2. \A i \in 1..Len(Name) : path[Len(prefix) + m + i] = below[m + i]
    BY <1>2, <1>4, <1>5, <1>6
  <2> QED BY <1>5, <2>1, <2>2, SeqEqual
<1>10. \A i \in 1..Len(Name) : Name[i] # "/"
  BY <1>1, <1>2, <1>5
<1> QED BY <1>2, <1>4, <1>5, <1>9, <1>10, <1>11
-----------------------------------------------------------------------------
(* The filters.                                                            *)

\* What is asked for of a name.
HiddenName(name) == name[1] = "."
LockName(name) == Len(name) > 1 /\ SubSeq(name, 1, 2) = <<"~", "$">>
SwapName(name) ==
  name[1] = "." /\
    \E i \in 2..Len(name) : name[i] = "." /\ SubSeq(name, i + 1, Len(name)) \in Swap

LEMMA HiddenIs ==
  ASSUME NEW name \in Seq(Characters), name # <<>>
  PROVE  CheckHidden(name) <=> HiddenName(name)
BY CharIs DEF CheckHidden, HiddenName

LEMMA LockIs ==
  ASSUME NEW name \in Seq(Characters), name # <<>>
  PROVE  CheckWinLock(name) <=> LockName(name)
<1>1. Len(name) \in Nat \ {0} OBVIOUS
<1>2. Char(name, 0) = name[1] BY <1>1, CharIs
<1>3. CASE Len(name) > 1
  <2>1. Char(name, 1) = name[2] BY <1>1, <1>3, CharIs
  <2>2. SubSeq(name, 1, 2) = <<"~", "$">> <=> name[1] = "~" /\ name[2] = "$"
    <3> DEFINE t == SubSeq(name, 1, 2)
    <3>1. \A i \in 1..2 : name[i] \in Characters BY <1>1, <1>3
    <3>2. /\ t \in Seq(Characters) /\ Len(t) = IF 1 <= 2 THEN 2 - 1 + 1 ELSE 0
          /\ \A i \in 1..2-1+1 : t[i] = name[1 + i - 1]
      BY <3>1, SubSeqProperties
    <3>3. Len(t) = 2 /\ t[1] = name[1] /\ t[2] = name[2] BY <3>2
    <3> HIDE DEF t
    <3>4. t = <<"~", "$">> <=> t[1] = "~" /\ t[2] = "$" BY <3>2, <3>3
    <3> QED BY <3>3, <3>4 DEF t
  <2> QED BY <1>2, <1>3, <2>1, <2>2 DEF CheckWinLock, LockName
<1>4. CASE Len(name) = 1
  <2>1. Char(name, 1) = "nul" BY <1>4, CharIs
  <2> QED BY <1>4, <2>1 DEF CheckWinLock, LockName
<1> QED BY <1>1, <1>3, <1>4

\* The comparison of the extension character by character stops at its end.
LEMMA ExtensionIs ==
  ASSUME NEW name \in Seq(Characters), NEW ext \in 1..Len(name)-1
  PROVE  SubSeq(name, ext + 2, Len(name)) \in Swap
           <=> /\ Char(name, ext + 1) = "s" /\ Char(name, ext + 2) = "w"
               /\ Char(name, ext + 3) = "p"
               /\ \/ Char(name, ext + 4) = "nul"
                  \/ Char(name, ext + 4) = "x" /\ Char(name, ext + 5) = "nul"
<1> DEFINE t == SubSeq(name, ext + 2, Len(name))
           n == Len(name) - ext - 1
<1>1. Len(name) \in Nat /\ ext \in Nat /\ n \in Nat OBVIOUS
<1>2. t \in Seq(Characters) /\ Len(t) = n /\ \A i \in 1..n : t[i] = name[ext + 1 + i]
  <2>1. \A i \in ext+2..Len(name) : name[i] \in Characters BY <1>1
  <2>2. ext + 2 \in Int /\ Len(name) \in Int BY <1>1
  <2>3. /\ t \in Seq(Characters)
        /\ Len(t) = IF ext + 2 <= Len(name) THEN Len(name) - (ext + 2) + 1 ELSE 0
        /\ \A i \in 1..Len(name)-(ext + 2)+1 : t[i] = name[(ext + 2) + i - 1]
    BY <2>1, <2>2, SubSeqProperties
  <2>4. Len(t) = n BY <1>1, <2>3
  <2>5. ASSUME NEW i \in 1..n PROVE t[i] = name[ext + 1 + i]
    <3>1. i \in 1..Len(name)-(ext + 2)+1 /\ (ext + 2) + i - 1 = ext + 1 + i BY <1>1
    <3> QED BY <2>3, <3>1
  <2> QED BY <2>3, <2>4, <2>5
<1>3. ASSUME NEW i \in Nat, i > 0, i <= n + 1
      PROVE  /\ i <= n => Char(name, ext + i) = t[i] /\ Char(name, ext + i) # "nul"
             /\ i = n + 1 => Char(name, ext + i) = "nul"
  <2>1. ext + i \in Nat /\ ext + i <= Len(name) BY <1>1, <1>3
  <2>2. /\ ext + i < Len(name) => Char(name, ext + i) = name[ext + i + 1]
                                  /\ Char(name, ext + i) # "nul"
        /\ ext + i = Len(name) => Char(name, ext + i) = "nul"
    BY <2>1, CharIs
  <2>3. i <= n => ext + i < Len(name) /\ ext + i + 1 = ext + 1 + i /\ i \in 1..n
    BY <1>1, <1>3
  <2>4. i = n + 1 => ext + i = Len(name) BY <1>1, <1>3
  <2> QED BY <1>2, <2>2, <2>3, <2>4
<1> DEFINE Reads(i) == /\ i <= n => Char(name, ext + i) = t[i] /\ Char(name, ext + i) # "nul"
                       /\ i = n + 1 => Char(name, ext + i) = "nul"
<1>6. ASSUME NEW i \in Nat, i > 0, i <= n + 1 PROVE Reads(i)
  BY <1>3, <1>6
<1> HIDE DEF t, n
<1>7. /\ n >= 4 => Char(name, ext + 4) # "nul"
      /\ n >= 5 => Char(name, ext + 5) # "nul"
  <2> HIDE DEF Reads
  <2>1. n >= 4 => Reads(4) BY <1>1, <1>6
  <2>2. n >= 5 => Reads(5) BY <1>1, <1>6
  <2> QED BY <2>1, <2>2 DEF Reads
<1> USE <1>1, <1>2, <1>3
<1>4. ASSUME t \in Swap
      PROVE  /\ Char(name, ext + 1) = "s" /\ Char(name, ext + 2) = "w"
             /\ Char(name, ext + 3) = "p"
             /\ \/ Char(name, ext + 4) = "nul"
                \/ Char(name, ext + 4) = "x" /\ Char(name, ext + 5) = "nul"
  <2>1. CASE t = <<"s", "w", "p">>
    BY <2>1
  <2>2. CASE t = <<"s", "w", "p", "x">>
    BY <2>2
  <2> QED BY <1>4, <2>1, <2>2 DEF Swap
<1>5. ASSUME Char(name, ext + 1) = "s", Char(name, ext + 2) = "w", Char(name, ext + 3) = "p",
             \/ Char(name, ext + 4) = "nul"
             \/ Char(name, ext + 4) = "x" /\ Char(name, ext + 5) = "nul"
      PROVE  t \in Swap
  <2>1. n >= 1 /\ t[1] = "s" BY <1>5
  <2>2. n >= 2 /\ t[2] = "w" BY <1>5, <2>1
  <2>3. n >= 3 /\ t[3] = "p" BY <1>5, <2>2
  <2>4. CASE Char(name, ext + 4) = "nul"
    <3>1. n = 3
      BY <1>7, <2>3, <2>4
    <3>2. t = <<"s", "w", "p">> BY <2>1, <2>2, <2>3, <3>1
    <3> QED BY <3>2 DEF Swap
  <2>5. CASE Char(name, ext + 4) = "x" /\ Char(name, ext + 5) = "nul"
    <3>1. n >= 4 /\ t[4] = "x" BY <2>3, <2>5
    <3>2. n = 4
      BY <1>7, <2>5, <3>1
    <3>3. t = <<"s", "w", "p", "x">> BY <2>1, <2>2, <2>3, <3>1, <3>2
    <3> QED BY <3>3 DEF Swap
  <2> QED BY <1>5, <2>4, <2>5
<1> QED BY <1>4, <1>5 DEF t

\* Looking at the last dot alone is enough: there is none in an extension.
LEMMA SwapIs ==
  ASSUME NEW name \in Seq(Characters), name # <<>>
  PROVE  CheckVimSwap(name) <=> SwapName(name)
<1> DEFINE ext == LastOf(name, ".")
           Extension == /\ Char(name, ext + 1) = "s" /\ Char(name, ext + 2) = "w"
                        /\ Char(name, ext + 3) = "p"
                        /\ \/ Char(name, ext + 4) = "nul"
                           \/ Char(name, ext + 4) = "x" /\ Char(name, ext + 5) = "nul"
<1>1. CheckVimSwap(name) <=> name[1] = "." /\ ext # Null /\ Extension
  BY HiddenIs DEF CheckVimSwap, HiddenName
<1>2. /\ ext = Null \/ ext \in 1..Len(name)-1
      /\ ext # Null => name[ext + 1] = "."
      /\ \A i \in 1..Len(name)-1 : name[i + 1] = "." => i <= ext
  BY LastOfIs
<1>3. ext # Null => (Extension <=> SubSeq(name, ext + 2, Len(name)) \in Swap)
  BY <1>2, ExtensionIs
<1> HIDE DEF ext, Extension
<1>4. ASSUME name[1] = ".", ext # Null, Extension PROVE SwapName(name)
  <2>1. ext + 1 \in 2..Len(name) /\ (ext + 1) + 1 = ext + 2 BY <1>2, <1>4
  <2> QED BY <1>2, <1>3, <1>4, <2>1 DEF SwapName
<1>5. ASSUME SwapName(name) PROVE name[1] = "." /\ ext # Null /\ Extension
  <2>1. PICK i \in 2..Len(name) :
          name[i] = "." /\ SubSeq(name, i + 1, Len(name)) \in Swap
    BY <1>5 DEF SwapName
  <2>2. Len(name) \in Nat /\ i \in Int /\ i - 1 \in 1..Len(name)-1 /\ (i - 1) + 1 = i
    BY <2>1
  <2>3. i - 1 <= ext BY <1>2, <2>1, <2>2
  <2>4. ext # Null /\ ext \in 1..Len(name)-1 BY <1>2, <2>2, <2>3 DEF Null
  <2>5. ASSUME ext # i - 1 PROVE FALSE
    <3> DEFINE t == SubSeq(name, i + 1, Len(name))
               j == ext + 1 - i
    <3>1. j \in 1..Len(name)-(i + 1)+1 /\ (i + 1) + j - 1 = ext + 1 /\ i + 1 <= Len(name)
      BY <2>2, <2>3, <2>4, <2>5
    <3>2. \A k \in i+1..Len(name) : name[k] \in Characters BY <2>2
    <3>3. /\ Len(t) = IF i + 1 <= Len(name) THEN Len(name) - (i + 1) + 1 ELSE 0
          /\ \A k \in 1..Len(name)-(i + 1)+1 : t[k] = name[(i + 1) + k - 1]
      BY <2>2, <3>2, SubSeqProperties
    <3>4. t[j] = "." /\ j \in 1..Len(t)
      <4>1. Len(t) = Len(name) - (i + 1) + 1 BY <3>1, <3>3
      <4> QED BY <1>2, <2>4, <3>1, <3>3, <4>1
    <3>5. t = <<"s", "w", "p">> \/ t = <<"s", "w", "p", "x">> BY <2>1 DEF Swap
    <3> HIDE DEF t, j
    <3>6. CASE t = <<"s", "w", "p">> BY <3>4, <3>6
    <3>7. CASE t = <<"s", "w", "p", "x">> BY <3>4, <3>7
    <3> QED BY <3>5, <3>6, <3>7
  <2>6. ext + 2 = i + 1 BY <2>2, <2>5
  <2> QED BY <1>3, <1>5, <2>1, <2>4, <2>6 DEF SwapName
<1> QED BY <1>1, <1>4, <1>5

-----------------------------------------------------------------------------
(* The properties.                                                         *)

\* What is put between the root and the path below it.
LEMMA SpliceIs ==
  ASSUME PathOK
  PROVE  /\ Splice(Root \o below, Len(Root)) = (Root \o <<"/", ".">>) \o below
         /\ Root \o <<"/", ".">> \in Seq(Characters)
         /\ Root \o <<"/", ".">> # <<>>
         /\ Len(Root \o <<"/", ".">>) = Len(Root) + 2
<1>1. Root \in Seq(Characters) /\ below \in Seq(Characters) /\ Len(Root) \in Nat
  BY NamesAssumption DEF PathOK
<1>2. <<"/", ".">> \in Seq(Characters) BY NamesAssumption
<1>3. SubSeq(Root \o below, 1, Len(Root)) = Root
  <2>1. SubSeq(Root \o below, 1, Len(Root)) = SubSeq(Root, 1, Len(Root))
    BY <1>1, SubSeqOfConcat1
  <2> QED BY <1>1, <2>1, SubSeqFull
<1>4. SubSeq(Root \o below, Len(Root) + 1, Len(Root \o below)) = below
  <2>1. Len(Root \o below) = Len(Root) + Len(below) /\ Len(below) \in Nat \ {0}
    BY <1>1 DEF PathOK
  <2>2. SubSeq(Root \o below, Len(Root) + 1, Len(Root) + Len(below))
        = SubSeq(below, 1, Len(below))
    <3>1. /\ Len(Root) + 1 \in Len(Root)+1..Len(Root)+Len(below)
          /\ Len(Root) + Len(below) \in Len(Root)+1..Len(Root)+Len(below)
          /\ Len(Root) + 1 - Len(Root) = 1
          /\ Len(Root) + Len(below) - Len(Root) = Len(below)
      BY <1>1, <2>1
    <3> QED BY <1>1, <3>1, SubSeqOfConcat2
  <2> QED BY <1>1, <2>1, <2>2, SubSeqFull
<1>5. Splice(Root \o below, Len(Root)) = (Root \o <<"/", ".">>) \o below
  BY <1>3, <1>4 DEF Splice
<1>6. /\ Root \o <<"/", ".">> \in Seq(Characters)
      /\ Len(Root \o <<"/", ".">>) = Len(Root) + Len(<<"/", ".">>)
  BY <1>1, <1>2, ConcatProperties
<1>7. Len(<<"/", ".">>) = 2 OBVIOUS
<1> QED BY <1>1, <1>5, <1>6, <1>7, EmptySeq

\* The search finds the name of an entry and decides as asked, with and without
\* the marker in the path.
LEMMA IgnoreEntryIs ==
  ASSUME PathOK, isEntry, NEW prefix \in Seq(Characters), prefix # <<>>
  PROVE  IgnoreEntry(prefix \o below)
           <=> \/ hidden /\ HiddenName(Name)
               \/ winLock /\ LockName(Name)
               \/ vimSwap /\ SwapName(Name)
<1>1. /\ Filename(prefix \o below) = Name
      /\ Name \in Seq(Characters) /\ Name # <<>>
  BY FilenameIs
<1>2. /\ CheckHidden(Name) <=> HiddenName(Name)
      /\ CheckWinLock(Name) <=> LockName(Name)
      /\ CheckVimSwap(Name) <=> SwapName(Name)
  BY <1>1, HiddenIs, LockIs, SwapIs
<1> QED BY <1>1, <1>2 DEF IgnoreEntry

\* Every entry of every search is ignored exactly if its name has one of the forms
\* that the user has asked to ignore (ignore_entry(), crawler.cpp:150).
THEOREM IgnoredAsAskedCorrect == Spec => []IgnoredAsAsked
<1>1. ASSUME PathOK PROVE IgnoredAsAsked
  <2>1. SUFFICES ASSUME isEntry
                 PROVE  /\ IgnoreEntry(Root \o below)
                              <=> \/ hidden /\ HiddenName(Name)
                                  \/ winLock /\ LockName(Name)
                                  \/ vimSwap /\ SwapName(Name)
                        /\ IgnoreEntry(Splice(Root \o below, Len(Root)))
                              <=> \/ hidden /\ HiddenName(Name)
                                  \/ winLock /\ LockName(Name)
                                  \/ vimSwap /\ SwapName(Name)
    BY DEF IgnoredAsAsked, HiddenName, LockName, SwapName
  <2>2. Root \in Seq(Characters) /\ Root # <<>> BY NamesAssumption
  <2> QED BY <1>1, <2>1, <2>2, SpliceIs, IgnoreEntryIs
<1> QED BY <1>1, PathInv, PTL

\* A "/./" in a path, character by character.
LEMMA MarkerAt ==
  ASSUME NEW s \in Seq(Characters), NEW i \in 1..Len(s)-2
  PROVE  SubSeq(s, i, i + 2) = <<"/", ".", "/">>
           <=> s[i] = "/" /\ s[i + 1] = "." /\ s[i + 2] = "/"
<1> DEFINE t == SubSeq(s, i, i + 2)
<1>1. /\ i \in Nat \ {0} /\ i + 2 <= Len(s) /\ i + 2 \in Int
      /\ i <= i + 2 /\ i + 2 - i + 1 = 3
  OBVIOUS
<1>2. \A k \in i..i+2 : s[k] \in Characters BY <1>1
<1>3. /\ t \in Seq(Characters) /\ Len(t) = 3
      /\ \A k \in 1..3 : t[k] = s[i + k - 1]
  <2>1. /\ t \in Seq(Characters)
        /\ Len(t) = IF i <= i + 2 THEN i + 2 - i + 1 ELSE 0
        /\ \A k \in 1..i+2-i+1 : t[k] = s[i + k - 1]
    BY <1>1, <1>2, SubSeqProperties
  <2> QED BY <1>1, <2>1
<1>4. t[1] = s[i] /\ t[2] = s[i + 1] /\ t[3] = s[i + 2] BY <1>1, <1>3
<1> HIDE DEF t
<1>5. t = <<"/", ".", "/">> <=> t[1] = "/" /\ t[2] = "." /\ t[3] = "/" BY <1>3
<1> QED BY <1>4, <1>5 DEF t

\* rsync and s3wrap.sh find the marker that init() has put into the path
\* (file.hpp:62) before any other "/./", and cut off the snapshot's root alone.
THEOREM CutAtRootCorrect == Spec => []CutAtRoot
<1>1. ASSUME PathOK PROVE CutAtRoot
  <2> DEFINE path == Splice(Root \o below, Len(Root))
             r == Len(Root)
             head == Root \o <<"/", ".">>
             cuts == {i \in 1..Len(path)-2 : SubSeq(path, i, i + 2) = <<"/", ".", "/">>}
  <2>1. /\ Root \in Seq(Characters) /\ r \in Nat \ {0} /\ Root[r] # "/"
        /\ below \in Seq(Characters) /\ Len(below) \in Nat \ {0} /\ below[1] = "/"
        /\ Root \o <<"/">> \in Seq(Characters) /\ Len(Root \o <<"/">>) = r + 1
    BY <1>1, NamesAssumption DEF PathOK
  <2>2. path = head \o below /\ head \in Seq(Characters) /\ Len(head) = r + 2
    BY <1>1, SpliceIs
  <2>3. /\ \A i \in 1..r : head[i] = Root[i] /\ (Root \o <<"/">>)[i] = Root[i]
        /\ head[r + 1] = "/" /\ (Root \o <<"/">>)[r + 1] = "/" /\ head[r + 2] = "."
    BY <2>1
  <2> HIDE DEF head
  <2> HIDE DEF path, r
  <2>4. /\ path \in Seq(Characters) /\ Len(path) = r + 2 + Len(below)
        /\ \A i \in 1..r+2 : path[i] = head[i]
        /\ \A k \in 1..Len(below) : path[r + 2 + k] = below[k]
        /\ path[r + 3] = below[1]
    <3>1. /\ path \in Seq(Characters) /\ Len(path) = Len(head) + Len(below)
          /\ \A i \in 1..Len(head)+Len(below) :
               path[i] = IF i <= Len(head) THEN head[i] ELSE below[i - Len(head)]
      <4>1. below \in Seq(Characters) BY <2>1
      <4> QED BY <2>2, <4>1, ConcatProperties
    <3>2. ASSUME NEW i \in 1..r+2 PROVE path[i] = head[i]
      <4>1. i \in 1..Len(head)+Len(below) /\ i <= Len(head) BY <2>1, <2>2
      <4> QED BY <3>1, <4>1
    <3>3. ASSUME NEW k \in 1..Len(below) PROVE path[r + 2 + k] = below[k]
      <4>1. PICK i \in 1..Len(head)+Len(below) : i = r + 2 + k BY <2>1, <2>2
      <4>2. ~(i <= Len(head)) /\ i - Len(head) = k BY <2>1, <2>2, <4>1
      <4>3. path[i] = below[k] BY <3>1, <4>2
      <4> QED BY <4>1, <4>3
    <3>4. path[r + 3] = below[1]
      <4>1. 1 \in 1..Len(below) /\ r + 2 + 1 = r + 3 BY <2>1
      <4>2. path[r + 2 + 1] = below[1] BY <3>3, <4>1
      <4> QED BY <4>1, <4>2
    <3> QED BY <2>2, <3>1, <3>2, <3>3, <3>4
  <2>5. \A i \in 1..Len(path)-2 :
          i \in cuts <=> path[i] = "/" /\ path[i + 1] = "." /\ path[i + 2] = "/"
    BY <2>4, MarkerAt
  <2>6. r + 1 \in cuts
    <3>1. r + 1 \in 1..Len(path)-2 /\ r + 1 \in 1..r+2 /\ r + 2 \in 1..r+2
          /\ (r + 1) + 1 = r + 2 /\ (r + 1) + 2 = r + 3
      BY <2>1, <2>4
    <3>2. path[r + 1] = "/" /\ path[r + 2] = "." /\ path[r + 3] = "/"
      BY <2>1, <2>3, <2>4, <3>1
    <3> HIDE DEF cuts
    <3> QED BY <2>5, <3>1, <3>2
  <2>7. ASSUME NEW i \in cuts, i < r + 1 PROVE FALSE
    <3>1. i \in 1..Len(path)-2 /\ i \in Nat \ {0} BY <2>4
    <3>2. path[i] = "/" /\ path[i + 1] = "." /\ path[i + 2] = "/"
      <4> HIDE DEF cuts
      <4> QED BY <2>5, <3>1, <2>7
    <3>3. CASE i = r
      BY <2>1, <2>3, <2>4, <3>2, <3>3
    <3>4. CASE i < r
      <4> DEFINE full == Root \o <<"/">>
      <4>1. i \in 1..r-1 /\ i \in 1..Len(full)-2 BY <2>1, <3>1, <3>4
      <4>2. /\ i \in 1..r+1 /\ i + 1 \in 1..r+1 /\ i + 2 \in 1..r+1
        BY <2>1, <3>1, <3>4
      <4>3. \A k \in 1..r+1 : path[k] = full[k]
        <5>1. \A k \in 1..r+1 : k \in 1..r \/ k = r + 1 BY <2>1
        <5>2. \A k \in 1..r+1 : k \in 1..r+2 BY <2>1
        <5> QED BY <2>3, <2>4, <5>1, <5>2
      <4>4. full[i] = "/" /\ full[i + 1] = "." /\ full[i + 2] = "/"
        BY <3>2, <4>2, <4>3
      <4>5. SubSeq(full, i, i + 2) = <<"/", ".", "/">>
        <5> HIDE DEF full
        <5> QED BY <2>1, <4>1, <4>4, MarkerAt DEF full
      <4> QED BY <4>1, <4>5, NamesAssumption DEF r
    <3> QED BY <2>1, <2>7, <3>1, <3>3, <3>4
  <2>8. Min(cuts) = r + 1
    <3>1. /\ cuts # {} /\ cuts \subseteq Int /\ 1 \in Int
          /\ \A x \in cuts : 1 <= x
      BY <2>4, <2>6
    <3> HIDE DEF cuts
    <3>2. Min(cuts) \in cuts /\ \A x \in cuts : Min(cuts) <= x BY <3>1, MinIs
    <3>3. Min(cuts) <= r + 1 /\ Min(cuts) \in Int BY <2>6, <3>1, <3>2
    <3>4. ~(Min(cuts) < r + 1) BY <2>7, <3>2
    <3> QED BY <2>1, <3>3, <3>4
  <2>9. SubSeq(path, (r + 1) + 3, Len(path)) = Tail(below)
    <3>1. path = head \o below /\ (r + 1) + 3 = r + 4 /\ Len(path) = r + 2 + Len(below)
      BY <2>1, <2>2, <2>4
    <3>2. CASE Len(below) = 1
      <4>1. SubSeq(path, r + 4, Len(path)) = <<>>
        BY <2>1, <2>4, <3>2, SubSeqEmpty
      <4>2. Tail(below) \in Seq(Characters) /\ Len(Tail(below)) = 0
        <5>1. below # <<>> BY <3>2
        <5>2. Tail(below) \in Seq(Characters) /\ Len(Tail(below)) = Len(below) - 1
          BY <2>1, <5>1, HeadTailProperties
        <5> QED BY <3>2, <5>2
      <4> QED BY <3>1, <4>1, <4>2, EmptySeq
    <3>3. CASE Len(below) # 1
      <4>1. /\ r + 4 \in Len(head)+1..Len(head)+Len(below)
            /\ Len(path) \in Len(head)+1..Len(head)+Len(below)
            /\ r + 4 - Len(head) = 2 /\ Len(path) - Len(head) = Len(below)
        <5>1. /\ r \in Nat /\ Len(below) \in Nat /\ Len(below) >= 2
              /\ Len(head) = r + 2 /\ Len(path) = r + 2 + Len(below)
          <6>1. r \in Nat /\ Len(below) \in Nat \ {0} BY <2>1
          <6>2. Len(below) >= 2
            <7>1. \A n \in Nat \ {0} : n # 1 => n >= 2 OBVIOUS
            <7> QED BY <3>3, <6>1, <7>1
          <6>3. Len(head) = r + 2 BY <2>2
          <6>4. Len(path) = r + 2 + Len(below) BY <2>4
          <6> QED BY <6>1, <6>2, <6>3, <6>4
        <5> HIDE DEF head
        <5> QED BY <5>1
      <4>2. SubSeq(head \o below, r + 4, Len(path)) = SubSeq(below, 2, Len(below))
        <5>1. head \in Seq(Characters) /\ below \in Seq(Characters) BY <2>1, <2>2
        <5>2. PICK i, j \in Len(head)+1..Len(head)+Len(below) : i = r + 4 /\ j = Len(path)
          BY <4>1
        <5>3. SubSeq(head \o below, i, j) = SubSeq(below, i - Len(head), j - Len(head))
          BY <5>1, SubSeqOfConcat2
        <5>4. i - Len(head) = 2
          <6>1. r \in Nat /\ Len(head) = r + 2 /\ i = r + 4 BY <2>1, <2>2, <5>2
          <6> HIDE DEF head
          <6> QED BY <6>1
        <5>5. j - Len(head) = Len(below) BY <4>1, <5>2
        <5> QED BY <5>2, <5>3, <5>4, <5>5
      <4>3. Tail(below) = SubSeq(below, 2, Len(below)) BY <2>1, TailIsSubSeq
      <4> QED BY <3>1, <4>2, <4>3
    <3> QED BY <3>2, <3>3
  <2> QED BY <2>6, <2>8, <2>9 DEF CutAtRoot, path, r
<1> QED BY <1>1, PathInv, PTL

\* init() allocates enough for every path (file.hpp:57), the marker and the
\* terminator included.
THEOREM BufferFitsCorrect == Spec => []BufferFits
<1>1. ASSUME PathOK PROVE BufferFits
  <2>1. /\ Root \in Seq(Characters) /\ below \in Seq(Characters)
        /\ Len(Root) \in Nat /\ Len(below) \in Nat
        /\ Len(Root \o below) = Len(Root) + Len(below)
    BY <1>1, NamesAssumption DEF PathOK
  <2>2. Len(Splice(Root \o below, Len(Root))) = Len(Root) + 2 + Len(below)
    BY <1>1, <2>1, SpliceIs
  <2> QED BY <2>1, <2>2 DEF BufferFits, Allocated
<1> QED BY <1>1, PathInv, PTL
=============================================================================
