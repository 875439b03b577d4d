------------------------------- MODULE Daemon -------------------------------
(***************************************************************************)
(* Crawler::poll_base and what is around it: the time of the last sync in  *)
(* memory and on disk (LastRctime), the snapshot, the signal handler, and  *)
(* daemons that end in every way and are launched again, over a Ceph file  *)
(* system in which files go on changing and the rctime of a directory is   *)
(* brought up to date later than the files below it.                       *)
(*                                                                         *)
(* The search and the sync are what CrawlContract and SyncContract promise *)
(* poll_base.  Times are integers: seconds and, below them, TicksPerSec    *)
(* ticks for the nanoseconds; no two changes have the same time.           *)
(***************************************************************************)
EXTENDS SourceTree, FiniteSets, FiniteSetsExt

CONSTANTS
  TicksPerSec,   \* the values of tv_nsec
  MaxTime,       \* bound: the latest change
  MaxStops,      \* bound: how often a daemon is stopped, killed or fails, or a
                 \*   directory's rctime cannot be read
  Modes,         \* the sets of command line flags that are considered
  Torn,          \* TRUE if a signal may find half of an assigned timespec
  Blind          \* TRUE if a search may fail to read a directory's rctime

ASSUME DaemonAssumption ==
  /\ TicksPerSec \in Nat \ {0}
  /\ MaxTime \in Nat /\ MaxTime > TicksPerSec
  /\ MaxStops \in Nat
  /\ Blind \in BOOLEAN
  /\ Modes \subseteq SUBSET {"seed", "dry_run", "set_rctime", "oneshot"}
  /\ Torn \in BOOLEAN

VARIABLES
  now,         \* the time of the latest change
  mtime,       \* of every file in the base directory
  rctime,      \* ceph.dir.rctime of every directory
  snap,        \* there is a snapshot: that at snap_path_, or one left behind
  snapMtime, snapRctime,  \* the same times in the snapshot
  snapName,    \* the rctime in its name
  left,        \* the snapshot is not this daemon's
  copied,      \* the mtime of the destination's copy of each file
  disk,        \* last_rctime.dat, or Truncated
  pc,          \* where the daemon is; "off" if there is none
  mode,        \* its flags
  ended,       \* how the previous daemon ended
  stops,       \* how many were stopped, killed or failed so far
  last,        \* last_rctime_
  new,         \* new_rctime
  cache,       \* old_rctime_cache
  list,        \* the files in file_list that have not been sent yet
  start        \* the time on disk when a dry run was launched

fsVars == <<now, mtime, rctime>>
snapVars == <<snap, snapMtime, snapRctime, snapName, left>>
runVars == <<mode, ended, stops, start>>
memVars == <<last, new, cache, list>>
\* The file on disk when it has been opened for writing and not been written.
Truncated == -1

vars == <<fsVars, snapVars, copied, disk, pc, runVars, memVars>>

Seconds(t) == t \div TicksPerSec
Ticks(t) == t % TicksPerSec
Stamp(s, n) == s * TicksPerSec + n

\* update({1}): one second after the epoch, earlier than any change.
SeedTime == Stamp(1, 0)

-----------------------------------------------------------------------------
(* The file system.                                                        *)

Change(f) ==
  /\ now < MaxTime
  /\ now' = now + 1
  /\ mtime' = [mtime EXCEPT ![f] = now']
  /\ UNCHANGED <<rctime, snapVars, copied, disk, pc, runVars, memVars>>

\* An entry is created or removed in a directory.
Touch(d) ==
  /\ now < MaxTime
  /\ now' = now + 1
  /\ rctime' = [rctime EXCEPT ![d] = now']
  /\ UNCHANGED <<mtime, snapVars, copied, disk, pc, runVars, memVars>>

\* The rctime of a directory catches up with what is in it.
Propagate(d) ==
  /\ LET times == {mtime[f] : f \in Entries(d) \cap Files} \cup
                  {rctime[e] : e \in Entries(d) \cap Dirs} IN
     rctime' = [rctime EXCEPT ![d] = Max(times \cup {@})]
  /\ UNCHANGED <<now, mtime, snapVars, copied, disk, pc, runVars, memVars>>

FileSystem ==
  \/ \E f \in Files : Change(f)
  \/ \E d \in Dirs : Touch(d) \/ Propagate(d)

\* get_rctime: a directory's rctime, a file's mtime.
Rctime(e) == IF e \in Dirs THEN rctime[e] ELSE mtime[e]
SnapRctime(e) == IF e \in Dirs THEN snapRctime[e] ELSE snapMtime[e]

-----------------------------------------------------------------------------
(* The start of a daemon, and its ends.                                    *)

\* What is at snap_path_ is removed; there is nothing yet if the snapshot is not
\* this daemon's.
NoSnapshot ==
  IF left THEN UNCHANGED snapVars
  ELSE /\ snap' = FALSE /\ snapName' = 0
       /\ snapMtime' = [f \in Files |-> 0] /\ snapRctime' = [d \in Dirs |-> 0]
       /\ UNCHANGED left

Init ==
  /\ now = SeedTime
  /\ mtime = [f \in Files |-> 0] /\ rctime = [d \in Dirs |-> 0]
  /\ snap = FALSE /\ snapMtime = mtime /\ snapRctime = rctime
  /\ snapName = 0 /\ left = FALSE
  /\ copied = mtime
  /\ disk = 0
  /\ pc = "off" /\ mode = {} /\ ended = "normal" /\ stops = 0 /\ start = 0
  /\ last = 0 /\ new = 0 /\ cache = 0 /\ list = {}

\* Fault: the constructor uses whatever it finds in the file.
LaunchTrustsDisk(m) ==
  /\ pc = "off"
  /\ pc' = "check" /\ mode' = m
  /\ start' = disk /\ last' = IF "seed" \in m THEN SeedTime ELSE disk
  /\ cache' = disk /\ new' = 0
  /\ UNCHANGED snapVars
  /\ UNCHANGED <<fsVars, copied, disk, ended, stops, list>>

\* LastRctime's constructor, which starts from 0.0 if the file is empty, and
\* poll_base up to its loop.  A snapshot that is there is another process's.
Launch(m) ==
  LET read == IF disk = Truncated THEN 0 ELSE disk IN
  /\ pc = "off"
  /\ pc' = "check" /\ mode' = m
  /\ start' = (IF "dry_run" \in m THEN read ELSE 0) /\ disk' = read
  /\ last' = IF "seed" \in m THEN SeedTime ELSE read
  /\ cache' = IF {"seed", "dry_run"} \subseteq m THEN read ELSE 0
  /\ new' = 0 /\ list' = {}
  /\ left' = snap
  /\ UNCHANGED <<fsVars, copied, ended, stops, snap, snapMtime, snapRctime, snapName>>

\* The process and its memory are gone.
Off(how) ==
  /\ pc' = "off"
  /\ ended' = how
  /\ last' = 0 /\ new' = 0 /\ cache' = 0 /\ list' = {}
  /\ UNCHANGED <<fsVars, copied, mode, start>>

\* Fault: exit() in place of l::exit().
ExitOnly ==
  /\ stops < MaxStops
  /\ stops' = stops + 1
  /\ Off("failed")
  /\ UNCHANGED <<disk, snapVars>>

\* delete_snap() on the way out; where it fails, exit() is called all the same.
OffRemoving(how) ==
  \/ Off(how) /\ NoSnapshot
  \/ Off("undeleted") /\ UNCHANGED snapVars

\* l::exit(): the snapshot is deleted; the time in memory is not written, since
\* exit() does not destroy the Crawler in main().
Fail ==
  /\ stops < MaxStops
  /\ stops' = stops + 1
  /\ OffRemoving("failed")
  /\ UNCHANGED disk

\* SIGKILL, or the loss of power.
Kill ==
  /\ pc # "off" /\ stops < MaxStops
  /\ stops' = stops + 1
  /\ Off("killed")
  /\ UNCHANGED <<disk, snapVars>>

-----------------------------------------------------------------------------
(* LastRctime::write_last_rctime opens, and so truncates, the file and     *)
(* then writes to it: for the signal handler, the hourly flush and the     *)
(* destructor.                                                             *)

Truncate(from, to) ==
  /\ pc = from
  /\ pc' = to
  /\ disk' = Truncated
  /\ UNCHANGED <<fsVars, snapVars, copied, runVars, memVars>>

Write(from, to) ==
  /\ pc = from
  /\ pc' = to
  /\ disk' = last
  /\ UNCHANGED <<fsVars, snapVars, copied, runVars, memVars>>

\* sig_hdlr, for SIGINT, SIGTERM and SIGQUIT, interrupts anything; whether it may
\* come between the assignments of update() is up to the compiler.
Signal ==
  /\ pc \notin {"off", "handler", "handler_write", "handler_clean"}
  /\ pc = "update_nsec" => Torn
  /\ stops < MaxStops
  /\ stops' = stops + 1
  /\ pc' = "handler"
  /\ UNCHANGED <<fsVars, snapVars, copied, disk, mode, ended, start, memVars>>

HandlerExit ==
  /\ pc = "handler_clean"
  /\ OffRemoving("signal")
  /\ UNCHANGED <<disk, stops>>

-----------------------------------------------------------------------------
(* The loop of poll_base.                                                  *)

unchangedOutside == <<fsVars, copied, disk, runVars, cache>>

\* Those that quit after one round.
Once == mode # {}

\* The times that cannot be read on one occasion: of none of the entries, or of one.
Unread(entries) == {{}} \cup (IF stops < MaxStops THEN {{e} : e \in entries} ELSE {})

unchangedReading == <<fsVars, snapVars, copied, disk, mode, ended, start, last, cache>>

\* check_for_change.  An entry whose time cannot be read was last changed at 0.0.
Check ==
  /\ pc = "check"
  /\ \E lost \in Unread(Entries(Root)) :
       /\ stops' = stops + Cardinality(lost)
       /\ LET newer == {e \in Entries(Root) \ lost : Rctime(e) > last} IN
          IF newer = {}
          THEN pc' = "round_end" /\ UNCHANGED new
          ELSE pc' = "snap" /\ new' = Max({Rctime(e) : e \in newer} \cup {new})
  /\ UNCHANGED <<unchangedReading, list>>

TakeSnapshot == snap' = TRUE /\ snapMtime' = mtime /\ snapRctime' = rctime

\* Fault: the snapshot's name is the process id alone.
SameNameAlways == snap

\* The process id, too, may be that of the daemon that has left the snapshot.
SameName == snap /\ snapName = new

\* create_snap: create_directories() makes the snapshot, or finds one of that name,
\* which is as good as a new one to it.  Only the last snapshot left behind is followed:
\* times rise, and with them the times in the names.
CreateSnap ==
  /\ pc = "snap"
  /\ pc' = "trickle"
  /\ \/ TakeSnapshot
     \/ left /\ SameName /\ UNCHANGED <<snap, snapMtime, snapRctime>>
  /\ snapName' = new /\ left' = FALSE
  /\ UNCHANGED <<unchangedOutside, last, new, list>>

CreateSnapFails == pc = "snap" /\ Fail

\* Fault: no delay between the snapshot and the search.
NoDelay ==
  /\ pc = "trickle"
  /\ pc' = "search"
  /\ UNCHANGED <<unchangedOutside, snapVars, last, new, list>>

\* prop_delay_ms_, taken to be long enough: the rctimes in the snapshot are then
\* those of everything below.
Trickle ==
  /\ pc = "trickle"
  /\ pc' = "search"
  /\ snapRctime' = [d \in Dirs |-> Max({SnapRctime(n) : n \in {n \in Nodes : d \in Above[n]}})]
  /\ UNCHANGED <<unchangedOutside, snap, snapMtime, snapName, left, last, new, list>>

\* Fault: the search compares with the time that was just found.
SinceNew == new

\* What is_newer() compares with.
Since == last

\* trigger_search: CrawlContract, with what is_newer() lets through.
Search ==
  /\ pc = "search"
  /\ \E lost \in IF Blind THEN Unread(Dirs \ {Root}) ELSE {{}} :
       /\ stops' = stops + Cardinality(lost)
       /\ list' = Expected({e \in Nodes \ lost : SnapRctime(e) > Since})
  /\ pc' = IF list' = {} \/ mode \cap {"dry_run", "set_rctime"} # {} THEN "clean" ELSE "sync"
  /\ UNCHANGED <<unchangedReading, new>>

\* File's constructor, or the creation of a thread.
SearchFails == pc = "search" /\ Fail

\* A directory that cannot be opened or read, the base directory or one in the
\* snapshot: its iterator throws, and nothing catches it.  std::terminate() removes and
\* records nothing.
Terminate ==
  /\ pc \in {"check", "search"} /\ stops < MaxStops
  /\ stops' = stops + 1
  /\ Off("terminated")
  /\ UNCHANGED <<disk, snapVars>>

\* syncer.sync(): SyncContract.
Send(f) ==
  /\ pc = "sync" /\ f \in list
  /\ list' = list \ {f}
  /\ copied' = [copied EXCEPT ![f] = snapMtime[f]]
  /\ UNCHANGED <<fsVars, snapVars, disk, pc, runVars, last, new, cache>>

SyncReturns ==
  /\ pc = "sync" /\ list = {}
  /\ pc' = "clean"
  /\ UNCHANGED <<unchangedOutside, snapVars, last, new, list>>

SyncFails == pc = "sync" /\ Fail

\* delete_snap; if it fails, exit().
DeleteSnap ==
  /\ pc = "clean"
  /\ NoSnapshot
  /\ list' = {}
  /\ pc' = IF "dry_run" \in mode THEN "round_end" ELSE "update"
  /\ UNCHANGED <<unchangedOutside, last, new>>

DeleteSnapFails ==
  /\ pc = "clean" /\ stops < MaxStops
  /\ stops' = stops + 1
  /\ Off("undeleted")
  /\ UNCHANGED <<disk, snapVars>>

\* What --set-last-change declares not to be wanted counts as copied as soon as the
\* time begins to be recorded.
Settled ==
  IF "set_rctime" \in mode
  THEN [f \in Files |-> IF mtime[f] <= new THEN mtime[f] ELSE copied[f]]
  ELSE copied

\* The first of the two assignments of update().
UpdateSeconds ==
  /\ pc = "update"
  /\ pc' = "update_nsec"
  /\ last' = Stamp(Seconds(new), Ticks(last))
  /\ copied' = Settled
  /\ UNCHANGED <<fsVars, snapVars, disk, runVars, new, cache, list>>

\* The second; then, when an hour has passed since the last time,
\* write_last_rctime().
Update ==
  /\ pc = "update_nsec"
  /\ pc' \in {"flush", "round_end"}
  /\ last' = new
  /\ UNCHANGED <<unchangedOutside, snapVars, new, list>>

\* Fault: old_rctime_cache is not put back.
NextRoundNoCache ==
  /\ pc = "round_end"
  /\ pc' = IF Once THEN "quit" ELSE "check"
  /\ UNCHANGED <<unchangedOutside, snapVars, last, new, list>>

\* Back to check_for_change after the rest of sync_period_s_, or out of poll_base.
NextRound ==
  /\ pc = "round_end"
  /\ pc' = IF Once THEN "quit" ELSE "check"
  /\ last' = IF {"seed", "dry_run"} \subseteq mode THEN cache ELSE last
  /\ UNCHANGED <<unchangedOutside, snapVars, new, list>>

\* ~LastRctime has written the time; main() returns.
Quit ==
  /\ pc = "quit_done"
  /\ Off("normal")
  /\ UNCHANGED <<disk, snapVars, stops>>

-----------------------------------------------------------------------------
\* What the daemon does when nothing goes wrong.
Run ==
  \/ Check \/ CreateSnap \/ Trickle \/ Search
  \/ \E f \in Files : Send(f)
  \/ SyncReturns
  \/ DeleteSnap
  \/ UpdateSeconds \/ Update
  \/ Truncate("flush", "flush_write") \/ Write("flush_write", "round_end")
  \/ NextRound
  \/ Truncate("quit", "quit_write") \/ Write("quit_write", "quit_done")
  \/ Quit
  \/ Truncate("handler", "handler_write") \/ Write("handler_write", "handler_clean")
  \/ HandlerExit

Next ==
  \/ FileSystem
  \/ \E m \in Modes : Launch(m)
  \/ Run
  \/ CreateSnapFails \/ SearchFails \/ SyncFails \/ DeleteSnapFails \/ Terminate
  \/ Signal
  \/ Kill

Spec == Init /\ [][Next]_vars

\* A daemon that runs goes on; after the other runs of the program have ended the
\* service is, sometime, started without flags; Ceph brings every rctime up to date.
FairSpec ==
  /\ Spec
  /\ WF_vars(Run)
  /\ SF_vars(Launch({}))
  /\ \A d \in Dirs : WF_vars(Propagate(d))

-----------------------------------------------------------------------------
(* Properties.                                                             *)

Points == {"off", "check", "snap", "trickle", "search", "sync", "clean", "update",
           "update_nsec", "flush", "flush_write", "round_end", "quit", "quit_write",
           "quit_done", "handler", "handler_write", "handler_clean"}

\* Every variable has its type; in particular the time in memory is a time whatever
\* was found on disk.
TypeOK ==
  /\ now \in 0..MaxTime
  /\ mtime \in [Files -> 0..now] /\ rctime \in [Dirs -> 0..now]
  /\ snap \in BOOLEAN
  /\ snapMtime \in [Files -> 0..now] /\ snapRctime \in [Dirs -> 0..now]
  /\ snapName \in Nat /\ left \in BOOLEAN
  /\ copied \in [Files -> 0..now]
  /\ disk \in Nat \cup {Truncated}
  /\ pc \in Points
  /\ mode \in SUBSET {"seed", "dry_run", "set_rctime", "oneshot"}
  /\ ended \in {"normal", "failed", "undeleted", "terminated", "killed", "signal"}
  /\ stops \in 0..MaxStops
  /\ {last, new, cache, start} \subseteq Nat
  /\ list \subseteq Files

\* A change that has not reached the destination is later than the time in memory
\* and than the time on disk, so that this daemon or the next one finds it: never
\* does the recorded time overtake what has been copied, wherever the program is
\* interrupted, however late rctimes are, and in whatever order it is run.
NothingMissed ==
  \A f \in Files : copied[f] < mtime[f] =>
    /\ pc \notin {"off", "update_nsec"} => mtime[f] > last
    /\ disk # Truncated => mtime[f] > disk

\* The end of poll_base, l::exit and the signal handler leave no snapshot of the
\* daemon's own behind, whatever they interrupt, unless its removal fails.
SnapshotGone ==
  pc = "off" /\ ended \in {"normal", "failed", "signal"} => left \/ ~snap

\* A dry run that comes to its end leaves the time on disk as it was.
DryRunInert ==
  pc = "off" /\ "dry_run" \in mode /\ ended = "normal" => disk = start

\* The same for a dry run that is interrupted: "When the daemon is killed with
\* SIGINT, SIGTERM, or SIGQUIT, it saves the last sync timestamp to disk [...] to
\* pick up where it left off on the next launch" (README.md:151).
DryRunStopped ==
  pc = "off" /\ "dry_run" \in mode /\ ended = "signal" => disk = start

\* The destination catches up: again and again, once the files stop changing, it
\* has the last version of each, whatever ended on the way.
CatchesUp == []<>(copied = mtime)
=============================================================================
