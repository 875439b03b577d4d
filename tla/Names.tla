------------------------------- MODULE Names -------------------------------
(***************************************************************************)
(* What a search does with an entry's path: File puts "/." into it where   *)
(* the snapshot's root ends, and ignore_entry() looks at the name after    *)
(* the last "/" of it.  The functions work on C strings by pointer; they   *)
(* are checked against what their comments say of names as a whole, for    *)
(* all names put together from a few pieces.                               *)
(*                                                                         *)
(* A string is a sequence of characters.  Char(s, i) is s[i] in C: counted *)
(* from 0, with the terminator at the end and nothing behind it, so that   *)
(* TLC stops at a read beyond it.                                          *)
(***************************************************************************)
EXTENDS Integers, Sequences, FiniteSetsExt

CONSTANTS
  Characters,  \* "nul", the terminator, is none of them
  Root,        \* snap_path_, which does not end with a "/"
  Pieces,      \* what the paths below it are put together from
  MaxPieces    \* bound: how many of them

\* What follows the root does not make a "/./" with the end of it, either.
ASSUME NamesAssumption ==
  /\ {"/", ".", "~", "$", "s", "w", "p", "x"} \subseteq Characters
  /\ "nul" \notin Characters
  /\ Root \in Seq(Characters) /\ Root # <<>> /\ Root[Len(Root)] # "/"
  /\ \A i \in 1..Len(Root)-1 : SubSeq(Root \o <<"/">>, i, i + 2) # <<"/", ".", "/">>
  /\ Pieces \subseteq Seq(Characters) \ {<<>>}
  /\ MaxPieces \in Nat

VARIABLES
  below,       \* the path of the entry below Root
  pieces,      \* how many pieces it consists of
  hidden, winLock, vimSwap    \* ignore_hidden_, ignore_win_lock_, ignore_vim_swap_

switches == <<hidden, winLock, vimSwap>>
vars == <<below, pieces, switches>>

Init ==
  /\ below = <<"/">> /\ pieces = 0
  /\ hidden \in BOOLEAN /\ winLock \in BOOLEAN /\ vimSwap \in BOOLEAN

\* The directories and names that the iterators yield, longer and longer ...
Grow(piece) ==
  /\ pieces < MaxPieces
  /\ below[Len(below)] = "/" => piece # <<"/">>
  /\ below' = below \o piece /\ pieces' = pieces + 1
  /\ UNCHANGED switches

\* ... and others.
Again == below' = <<"/">> /\ pieces' = 0 /\ UNCHANGED switches

Next == (\E piece \in Pieces : Grow(piece)) \/ Again

Spec == Init /\ [][Next]_vars

-----------------------------------------------------------------------------
(* C strings.                                                              *)

Char(s, i) == CASE i \in 0..Len(s)-1 -> s[i + 1] [] i = Len(s) -> "nul"

From(s, i) == SubSeq(s, i + 1, Len(s))

Null == -1

\* Fault: the first character is looked at, too.
LastOfAll(s, test) == Max({Null} \cup {i \in 0..Len(s)-1 : Char(s, i) = test})

\* get_last_of(): the pointer is advanced before it is looked at.
LastOf(s, test) == Max({Null} \cup {i \in 1..Len(s)-1 : Char(s, i) = test})

\* get_filename(): what follows the last "/".
Filename(path) == From(path, LastOf(path, "/") + 1)

-----------------------------------------------------------------------------
(* File::init for anything but a directory.                                *)

\* Fault: the copy goes on behind the "/" that follows the root.
SpliceSkips(path, rootLen) ==
  SubSeq(path, 1, rootLen) \o <<"/", ".">> \o SubSeq(path, rootLen + 2, Len(path))

Splice(path, rootLen) ==
  SubSeq(path, 1, rootLen) \o <<"/", ".">> \o SubSeq(path, rootLen + 1, Len(path))

\* Fault: only the dot is thought of.
AllocatedShort(path) == Len(path) + 1 + 1

\* new char[...]
Allocated(path) == Len(path) + 2 + 1

-----------------------------------------------------------------------------
(* The filters.                                                            *)

CheckHidden(name) == Char(name, 0) = "."

CheckWinLock(name) == Char(name, 0) = "~" /\ Char(name, 1) = "$"

CheckVimSwap(name) ==
  LET ext == LastOf(name, ".")
      At(i) == Char(name, ext + i)
  IN
  /\ CheckHidden(name)
  /\ ext # Null
  /\ At(1) = "s" /\ At(2) = "w" /\ At(3) = "p"
  /\ At(4) = "nul" \/ (At(4) = "x" /\ At(5) = "nul")

\* ignore_entry() for an entry that is newer than the last sync.
IgnoreEntry(path) ==
  LET name == Filename(path) IN
  \/ hidden /\ CheckHidden(name)
  \/ winLock /\ CheckWinLock(name)
  \/ vimSwap /\ CheckVimSwap(name)

-----------------------------------------------------------------------------
(* Properties.                                                             *)

\* The names on the way to the entry: what is between the slashes.
IsName(i, j) ==
  /\ below[i] = "/" /\ (j = Len(below) \/ below[j + 1] = "/")
  /\ \A k \in i+1..j : below[k] # "/"
Name == LET i == Max({k \in DOMAIN below : below[k] = "/"}) IN
        SubSeq(below, i + 1, Len(below))

\* An entry has a name, and no name on the way to it is "." or "..".
Entry ==
  \A i, j \in DOMAIN below : IsName(i, j) =>
    SubSeq(below, i + 1, j) \notin {<<>>, <<".">>, <<".", ".">>}

isEntry == below[Len(below)] # "/" /\ Entry

Swap == {<<"s", "w", "p">>, <<"s", "w", "p", "x">>}

\* An entry is ignored exactly if its name, as a whole, is of one of the forms that
\* the comments at crawler.cpp:158, :163 and :168 give and the user has asked to
\* ignore: a name like ".swp" is no swap file, a dot in a directory's name or in the
\* "/./" that has been put into the path says nothing about the file.
IgnoredAsAsked ==
  isEntry =>
    LET asked ==
          \/ hidden /\ Name[1] = "."
          \/ winLock /\ Len(Name) > 1 /\ SubSeq(Name, 1, 2) = <<"~", "$">>
          \/ vimSwap /\ Name[1] = "." /\
               \E i \in 2..Len(Name) :
                 Name[i] = "." /\ SubSeq(Name, i + 1, Len(Name)) \in Swap
    IN
    /\ IgnoreEntry(Root \o below) <=> asked
    /\ IgnoreEntry(Splice(Root \o below, Len(Root))) <=> asked

\* rsync --relative and s3wrap.sh cut the path at its first "/./": what remains is
\* the path of the entry below the snapshot, for every entry.
CutAtRoot ==
  isEntry =>
    LET path == Splice(Root \o below, Len(Root))
        cuts == {i \in 1..Len(path)-2 : SubSeq(path, i, i + 2) = <<"/", ".", "/">>}
    IN
    /\ cuts # {}
    /\ SubSeq(path, Min(cuts) + 3, Len(path)) = Tail(below)

\* The path, its marker and its terminator fit into what init() allocates.
BufferFits == Len(Splice(Root \o below, Len(Root))) + 1 <= Allocated(Root \o below)
=============================================================================
