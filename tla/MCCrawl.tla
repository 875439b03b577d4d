------------------------------ MODULE MCCrawl -------------------------------
(***************************************************************************)
(* A small tree for Crawl: two subdirectories, a directory below one of    *)
(* them, and a file at each depth.                                         *)
(***************************************************************************)
EXTENDS Crawl

CONSTANTS root, a, b, aa, f, af, aaf

MCDirs == {root, a, b, aa}
MCFiles == {f, af, aaf}

MCParent == [e \in {a, b, aa, f, af, aaf} |->
               CASE e \in {a, b, f} -> root
                 [] e \in {aa, af} -> a
                 [] e = aaf -> aa]

\* Everything changed; one branch ignored; a file ignored; nothing.
MCViews == {{a, b, aa, f, af, aaf}, {b, aa, f, af, aaf}, {a, aa, af, aaf},
            {a, b, aa, f, aaf}, {}}
=============================================================================
