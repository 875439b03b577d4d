------------------------------ MODULE MCSyncer ------------------------------
(***************************************************************************)
(* Instances of Syncer for TLC.  Sizes are in small units: what counts is  *)
(* how many files fit in one argument vector, and how often the limit can  *)
(* be lowered before there is no more room.                                *)
(***************************************************************************)
EXTENDS Syncer, TLC

\* Process ids are interchangeable: the specification only compares them.
PidSymmetry == Permutations(Pids)
=============================================================================
