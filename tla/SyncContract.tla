---------------------------- MODULE SyncContract ----------------------------
(***************************************************************************)
(* What Syncer::sync promises its caller, the crawler: it is given a list  *)
(* of files and comes back only when the sync program has reported every   *)
(* one of them transferred.  The only other way out is to end the daemon   *)
(* (l::exit), after which a new daemon may be started.  Files may be       *)
(* transferred in any order, any grouping and more than once.              *)
(***************************************************************************)
EXTENDS Naturals

CONSTANT MaxFiles       \* the longest list of one call

VARIABLES call,         \* "idle", "syncing", or "failed": the daemon is gone
          n,            \* the number of files of the current (or last) call
          delivered     \* the files, by position in the list, transferred so far

vars == <<call, n, delivered>>

Init == call = "idle" /\ n = 0 /\ delivered = {}

Call(m) ==
  /\ call = "idle"
  /\ call' = "syncing" /\ n' = m /\ delivered' = {}

Deliver(F) ==
  /\ call = "syncing"
  /\ F \subseteq 0..n-1
  /\ delivered' = delivered \cup F
  /\ UNCHANGED <<call, n>>

Return ==
  /\ call = "syncing"
  /\ delivered = 0..n-1
  /\ call' = "idle"
  /\ UNCHANGED <<n, delivered>>

Fail ==
  /\ call = "syncing"
  /\ call' = "failed"
  /\ UNCHANGED <<n, delivered>>

Restart ==
  /\ call = "failed"
  /\ call' = "idle" /\ n' = 0 /\ delivered' = {}

Next ==
  \/ \E m \in 1..MaxFiles : Call(m)
  \/ \E F \in SUBSET (0..n-1) : Deliver(F)
  \/ Return
  \/ Fail
  \/ Restart

Spec == Init /\ [][Next]_vars
=============================================================================
