--------------------------- MODULE CrawlContract ----------------------------
(***************************************************************************)
(* What Crawler::trigger_search promises poll_base: the list that it       *)
(* returns holds every file that has to be found, once.  A search that     *)
(* cannot read an entry ends the daemon instead.                           *)
(***************************************************************************)
EXTENDS SourceTree

VARIABLES phase,   \* "idle", "search", or "exited": the daemon is gone
          shown,   \* the entries that this search does not ignore
          found    \* how many times each file is in the list

vars == <<phase, shown, found>>

Init ==
  /\ phase = "idle"
  /\ shown = {}
  /\ found = [f \in Files |-> 0]

Search(s) ==
  /\ phase = "idle"
  /\ phase' = "search"
  /\ shown' = s
  /\ found' = [f \in Files |-> 0]

Find(f) ==
  /\ phase = "search"
  /\ f \in Expected(shown)
  /\ found[f] = 0
  /\ found' = [found EXCEPT ![f] = 1]
  /\ UNCHANGED <<phase, shown>>

Return ==
  /\ phase = "search"
  /\ \A f \in Expected(shown) : found[f] = 1
  /\ phase' = "idle"
  /\ UNCHANGED <<shown, found>>

Exit ==
  /\ phase = "search"
  /\ phase' = "exited"
  /\ UNCHANGED <<shown, found>>

Restart ==
  /\ phase = "exited"
  /\ phase' = "idle" /\ shown' = {}
  /\ found' = [f \in Files |-> 0]

Next ==
  \/ \E s \in SUBSET Nodes : Search(s)
  \/ \E f \in Files : Find(f)
  \/ Return
  \/ Exit
  \/ Restart

Spec == Init /\ [][Next]_vars
=============================================================================
