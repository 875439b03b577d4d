------------------------------ MODULE MCDaemon ------------------------------
(***************************************************************************)
(* A small tree for Daemon: a file at the top and one two levels down, so  *)
(* that an rctime has two directories to go through.                       *)
(***************************************************************************)
EXTENDS Daemon

CONSTANTS root, a, aa, f, aaf

MCDirs == {root, a, aa}
MCFiles == {f, aaf}

MCParent == [e \in {a, aa, f, aaf} |->
               CASE e \in {a, f} -> root
                 [] e = aa -> a
                 [] e = aaf -> aa]

\* The service, and each flag; both flags of the check that the README advises.
MCModes == {{}, {"oneshot"}, {"seed"}, {"dry_run"}, {"set_rctime"}, {"seed", "dry_run"}}

\* The service alone: what is missed is not what a flag declares unwanted.
MCService == {{}}
=============================================================================
