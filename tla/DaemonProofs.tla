---------------------------- MODULE DaemonProofs ----------------------------
(***************************************************************************)
(* What Daemon's specification guarantees for every tree, every resolution *)
(* of the clock, any number of changes and of ends, and every set of       *)
(* flags, as long as the handler does not find half of an assigned time    *)
(* and a search can read all the times that it needs.                      *)
(***************************************************************************)
EXTENDS Daemon, SourceTreeProofs, Extrema, FiniteSetTheorems, TLAPS

\* A change of the file that is not at the destination.
Uncopied(f) == copied[f] < mtime[f]

\* The change is later than every time that some daemon compares or may compare with.
LaterThanKnown(t) ==
  /\ pc # "update_nsec" => t > last
  /\ t > cache /\ t > snapName
  /\ disk # Truncated => t > disk

\* No time that is known is in the future, and no change is as early as SeedTime.
Times ==
  /\ SeedTime <= now
  /\ new <= now /\ cache <= now /\ snapName <= now /\ disk <= now
  /\ pc # "update_nsec" => last <= now
  /\ \A f \in Files : mtime[f] = 0 \/ mtime[f] > SeedTime

\* Where the daemon has a snapshot of its own, and where there is none but one that
\* was left behind.
Snapshots ==
  /\ pc = "off" /\ ended \in {"normal", "failed", "signal"} => left \/ ~snap
  /\ pc \in {"check", "snap", "round_end", "quit", "quit_write", "quit_done"} =>
       left \/ ~snap
  /\ pc \in {"trickle", "search", "sync", "clean"} => snap /\ ~left /\ snapName = new
  /\ pc \in {"update", "update_nsec", "flush", "flush_write"} => ~snap

\* A change that a snapshot has missed came after all that was known by then, and
\* once the rctimes in it are right no directory is older than what is in it.
SnapshotTimes ==
  /\ snap => \A f \in Files : /\ snapMtime[f] <= mtime[f]
                              /\ snapMtime[f] < mtime[f] => LaterThanKnown(mtime[f])
  /\ pc = "search" => \A f \in Files : \A d \in Above[f] \cap Dirs :
                        snapMtime[f] <= snapRctime[d]

\* What a round has still to do before new_rctime is recorded.
Round ==
  /\ \A f \in Files : Uncopied(f) => mtime[f] > cache
  /\ pc = "sync" => \A f \in Files \ list : Uncopied(f) => mtime[f] > new
  /\ pc \in {"clean", "update"} /\ mode \cap {"dry_run", "set_rctime"} = {} =>
       \A f \in Files : Uncopied(f) => mtime[f] > new
  /\ pc = "update_nsec" => \A f \in Files : Uncopied(f) => mtime[f] > new

\* A dry run keeps the time that it has found, in last_rctime_ or in the cache.
DryRun ==
  /\ "dry_run" \in mode =>
       /\ pc \notin {"sync", "update", "update_nsec", "flush", "flush_write"}
       /\ pc \in {"check", "snap", "trickle", "search", "clean", "round_end"} =>
            (IF "seed" \in mode THEN cache ELSE last) = start
       /\ pc \in {"quit", "quit_write"} => last = start
       /\ pc = "quit_done" \/ (pc = "off" /\ ended = "normal") => disk = start
  /\ "set_rctime" \in mode => pc # "sync"

\* What holds whatever Torn and Blind are.
Orderly == TypeOK /\ Snapshots /\ DryRun

\* What keeps the recorded time behind the copies.
Timely == Times /\ SnapshotTimes /\ Round /\ NothingMissed

-----------------------------------------------------------------------------
(* Times.                                                                  *)

\* Max is what it is meant to be on a set of times that are not later than n.
LEMMA MaxOfTimes ==
  ASSUME NEW n \in Nat, NEW S \in SUBSET (0..n), S # {}
  PROVE  Max(S) \in S /\ \A x \in S : x <= Max(S)
<1>1. n \in Int /\ S \subseteq Int /\ \A x \in S : x <= n OBVIOUS
<1> QED BY <1>1, MaxIs

\* The halves of a time make up a time.
LEMMA StampType ==
  /\ SeedTime \in Nat /\ SeedTime = TicksPerSec
  /\ \A s, t \in Nat : Stamp(Seconds(s), Ticks(t)) \in Nat
<1>1. \A s, t \in Nat : s \div TicksPerSec \in Nat /\ t % TicksPerSec \in Nat
  BY DaemonAssumption
<1>2. \A q, r \in Nat : q * TicksPerSec + r \in Nat
  BY DaemonAssumption
<1>3. SeedTime = TicksPerSec
  BY DaemonAssumption DEF SeedTime, Stamp
<1> QED BY <1>1, <1>2, <1>3, DaemonAssumption DEF Stamp, Seconds, Ticks

\* At most one time cannot be read on an occasion, and every time counts.
LEMMA UnreadCounts ==
  ASSUME TypeOK, NEW entries, NEW lost \in Unread(entries)
  PROVE  stops + Cardinality(lost) \in 0..MaxStops /\ Cardinality(lost) \in Nat
<1>1. CASE lost = {}
  BY <1>1, FS_EmptySet, DaemonAssumption DEF TypeOK
<1>2. CASE lost # {}
  <2>1. PICK e \in entries : lost = {e} /\ stops < MaxStops
    BY <1>2 DEF Unread
  <2>2. Cardinality(lost) = 1
    BY <2>1, FS_Singleton
  <2>3. stops \in Nat /\ stops < MaxStops /\ MaxStops \in Nat
    BY <2>1, DaemonAssumption DEF TypeOK
  <2> QED BY <2>2, <2>3
<1> QED BY <1>1, <1>2

LEMMA RctimeType ==
  ASSUME TypeOK, NEW e \in Nodes
  PROVE  Rctime(e) \in 0..now /\ SnapRctime(e) \in 0..now
BY DEF TypeOK, Rctime, SnapRctime, Nodes

\* After the delay no directory of the snapshot is older than what is below it.
LEMMA TrickleTimes ==
  ASSUME TypeOK, Trickle
  PROVE  /\ snapRctime' \in [Dirs -> 0..now]
         /\ \A n \in Nodes : \A d \in Above[n] \cap Dirs : SnapRctime(n) <= snapRctime'[d]
<1> DEFINE times(d) == {SnapRctime(n) : n \in {n \in Nodes : d \in Above[n]}}
<1>1. ASSUME NEW d \in Dirs
      PROVE  Max(times(d)) \in 0..now /\ \A x \in times(d) : x <= Max(times(d))
  <2>1. d \in Nodes /\ d \in Above[d]
    BY AboveClosed DEF Nodes
  <2>2. SnapRctime(d) \in times(d)
    BY <2>1
  <2>3. times(d) \in SUBSET (0..now) /\ now \in Nat
    BY RctimeType, DaemonAssumption DEF TypeOK
  <2> HIDE DEF times
  <2> QED BY <2>2, <2>3, MaxOfTimes
<1>2. snapRctime' = [d \in Dirs |-> Max(times(d))]
  BY DEF Trickle
<1>3. snapRctime' \in [Dirs -> 0..now]
  <2> HIDE DEF times
  <2> QED BY <1>1, <1>2
<1>4. ASSUME NEW n \in Nodes, NEW d \in Above[n] \cap Dirs
      PROVE  SnapRctime(n) <= snapRctime'[d]
  <2>1. SnapRctime(n) \in times(d) OBVIOUS
  <2>2. snapRctime'[d] = Max(times(d)) BY <1>2
  <2> HIDE DEF times
  <2> QED BY <1>1, <2>1, <2>2
<1> QED BY <1>3, <1>4

LEMMA InitGood == Init => Orderly /\ Timely
<1> SUFFICES ASSUME Init PROVE Orderly /\ Timely
  OBVIOUS
<1>1. TypeOK
  <2>1. now \in 0..MaxTime /\ now \in Nat
    BY DaemonAssumption, StampType DEF Init
  <2>2. /\ mtime \in [Files -> 0..now] /\ rctime \in [Dirs -> 0..now]
        /\ snapMtime = mtime /\ snapRctime = rctime /\ copied = mtime
    BY <2>1 DEF Init
  <2>3. stops \in 0..MaxStops /\ list \subseteq Files
    BY DaemonAssumption DEF Init
  <2>4. snap \in BOOLEAN /\ left \in BOOLEAN
    BY DEF Init
  <2>5. /\ snapName \in Nat /\ disk \in Nat \cup {Truncated}
        /\ {last, new, cache, start} \subseteq Nat
    BY DEF Init
  <2>6. /\ pc \in Points /\ mode \in SUBSET {"seed", "dry_run", "set_rctime", "oneshot"}
        /\ ended \in {"normal", "failed", "undeleted", "terminated", "killed", "signal"}
    BY DEF Init, Points
  <2> QED BY <2>1, <2>2, <2>3, <2>4, <2>5, <2>6 DEF TypeOK
<1>2. Times /\ Snapshots /\ SnapshotTimes /\ Round /\ DryRun /\ NothingMissed
  BY DaemonAssumption, StampType
     DEF Init, Times, Snapshots, SnapshotTimes, Round, DryRun, NothingMissed, Uncopied,
         Truncated
<1> QED BY <1>1, <1>2 DEF Orderly, Timely

-----------------------------------------------------------------------------
(* Types, the snapshot and the dry run: whatever Torn and Blind are.       *)

LEMMA FileSystemOrderly ==
  ASSUME Orderly, FileSystem
  PROVE  Orderly'
<1>1. TypeOK'
  <2>1. ASSUME NEW f \in Files, Change(f) PROVE TypeOK'
    BY <2>1, DaemonAssumption
       DEF Orderly, TypeOK, Change, snapVars, runVars, memVars
  <2>2. ASSUME NEW d \in Dirs, Touch(d) PROVE TypeOK'
    BY <2>2, DaemonAssumption
       DEF Orderly, TypeOK, Touch, snapVars, runVars, memVars
  <2>3. ASSUME NEW d \in Dirs, Propagate(d) PROVE TypeOK'
    <3> DEFINE times == {mtime[f] : f \in Entries(d) \cap Files} \cup
                        {rctime[e] : e \in Entries(d) \cap Dirs}
    <3>1. times \cup {rctime[d]} \in SUBSET (0..now) /\ now \in Nat
      BY DaemonAssumption DEF Orderly, TypeOK
    <3>2. Max(times \cup {rctime[d]}) \in 0..now
      BY <3>1, MaxOfTimes
    <3>3. rctime' = [rctime EXCEPT ![d] = Max(times \cup {rctime[d]})]
      BY <2>3 DEF Propagate
    <3> HIDE DEF times
    <3>4. rctime' \in [Dirs -> 0..now]
      BY <3>2, <3>3 DEF Orderly, TypeOK
    <3> QED BY <2>3, <3>4
       DEF Orderly, TypeOK, Propagate, snapVars, runVars, memVars
  <2> QED BY <2>1, <2>2, <2>3 DEF FileSystem
<1>2. UNCHANGED <<snapVars, copied, disk, pc, runVars, memVars>>
  BY DEF FileSystem, Change, Touch, Propagate
<1>3. Snapshots' /\ DryRun'
  BY <1>2 DEF Orderly, Snapshots, DryRun, snapVars, runVars, memVars
<1> QED BY <1>1, <1>3 DEF Orderly

\* NoSnapshot keeps the types, and leaves no snapshot of the daemon's own.
LEMMA NoSnapshotLeft ==
  ASSUME TypeOK, NoSnapshot, now' = now
  PROVE  /\ snap' \in BOOLEAN /\ left' \in BOOLEAN /\ snapName' \in Nat
         /\ snapMtime' \in [Files -> 0..now'] /\ snapRctime' \in [Dirs -> 0..now']
         /\ left' \/ ~ snap'
         /\ ~ left => ~ snap'
<1>1. now \in Nat
  BY DaemonAssumption DEF TypeOK
<1>2. CASE left
  BY <1>2 DEF TypeOK, NoSnapshot, snapVars
<1>3. CASE ~ left
  <2>1. left' = left /\ snap' = FALSE /\ snapName' = 0
    BY <1>3 DEF NoSnapshot
  <2>2. snapMtime' = [f \in Files |-> 0] /\ snapRctime' = [d \in Dirs |-> 0]
    BY <1>3 DEF NoSnapshot
  <2>3. snapMtime' \in [Files -> 0..now'] /\ snapRctime' \in [Dirs -> 0..now']
    BY <1>1, <2>2
  <2>4. left' \in BOOLEAN
    BY <2>1 DEF TypeOK
  <2> QED BY <1>3, <2>1, <2>3, <2>4
<1> QED BY <1>2, <1>3

LEMMA LaunchOrderly ==
  ASSUME Orderly, NEW m \in Modes, Launch(m)
  PROVE  Orderly'
<1>1. TypeOK'
  <2> DEFINE read == IF disk = Truncated THEN 0 ELSE disk
  <2>1. read \in Nat /\ SeedTime \in Nat
    BY StampType DEF Orderly, TypeOK
  <2>2. {last', new', cache', start'} \subseteq Nat /\ disk' \in Nat
    BY <2>1 DEF Launch
  <2>3. m \in SUBSET {"seed", "dry_run", "set_rctime", "oneshot"}
    BY DaemonAssumption
  <2>4. left' \in BOOLEAN /\ snap' \in BOOLEAN /\ list' \subseteq Files
    BY DEF Orderly, TypeOK, Launch
  <2> QED BY <2>2, <2>3, <2>4 DEF Orderly, TypeOK, Launch, fsVars, Points
<1>2. Snapshots'
  BY DEF Orderly, TypeOK, Snapshots, Launch
<1>3. DryRun'
  BY DEF Orderly, DryRun, Launch
<1> QED BY <1>1, <1>2, <1>3 DEF Orderly

\* The ends but the normal one.
LEMMA OffOrderly ==
  ASSUME Orderly, NEW how \in {"failed", "undeleted", "terminated", "killed", "signal"},
         Off(how), disk' = disk, stops' \in 0..MaxStops,
         NoSnapshot \/ (UNCHANGED snapVars /\ how \in {"undeleted", "terminated", "killed"})
  PROVE  Orderly'
<1>1. TypeOK'
  BY NoSnapshotLeft DEF Orderly, TypeOK, Off, fsVars, snapVars, Points
<1>2. Snapshots'
  BY NoSnapshotLeft DEF Orderly, Snapshots, Off, fsVars, snapVars
<1>3. DryRun'
  BY DEF Orderly, DryRun, Off
<1> QED BY <1>1, <1>2, <1>3 DEF Orderly

LEMMA CheckOrderly ==
  ASSUME Orderly, Check
  PROVE  Orderly'
<1>1. stops' \in 0..MaxStops
  BY UnreadCounts DEF Orderly, TypeOK, Check
<1>2. new' \in Nat /\ pc' \in {"round_end", "snap"}
  <2>1. PICK lost : LET newer == {e \in Entries(Root) \ lost : Rctime(e) > last} IN
          IF newer = {}
          THEN pc' = "round_end" /\ UNCHANGED new
          ELSE pc' = "snap" /\ new' = Max({Rctime(e) : e \in newer} \cup {new})
    BY DEF Check
  <2> DEFINE newer == {e \in Entries(Root) \ lost : Rctime(e) > last}
             times == {Rctime(e) : e \in newer} \cup {new}
  <2>2. now \in Nat /\ new \in Nat /\ now + new \in Nat
    BY DaemonAssumption DEF Orderly, TypeOK
  <2>3. times \in SUBSET (0..(now + new))
    <3>1. \A e \in newer : Rctime(e) \in 0..now
      BY RctimeType DEF Orderly, Entries
    <3> HIDE DEF newer
    <3> QED BY <2>2, <3>1
  <2>4. Max(times) \in Nat
    <3>1. times # {} OBVIOUS
    <3> HIDE DEF times
    <3>2. Max(times) \in times
      BY <2>2, <2>3, <3>1, MaxOfTimes
    <3>3. 0..(now + new) \subseteq Nat
      BY <2>2
    <3> QED BY <2>3, <3>2, <3>3
  <2> QED BY <2>1, <2>2, <2>4
<1>3. pc = "check" /\ UNCHANGED <<unchangedReading, list>>
  BY DEF Check
<1>4. TypeOK'
  BY <1>1, <1>2, <1>3 DEF Orderly, TypeOK, unchangedReading, fsVars, snapVars, Points
<1>5. Snapshots' /\ DryRun'
  BY <1>2, <1>3 DEF Orderly, Snapshots, DryRun, unchangedReading, snapVars
<1> QED BY <1>4, <1>5 DEF Orderly

LEMMA CreateSnapOrderly ==
  ASSUME Orderly, CreateSnap
  PROVE  Orderly'
<1>1. TypeOK'
  <2>1. /\ snap' \in BOOLEAN /\ left' = FALSE /\ snapName' \in Nat
        /\ snapMtime' \in [Files -> 0..now] /\ snapRctime' \in [Dirs -> 0..now]
    BY DEF Orderly, TypeOK, CreateSnap, TakeSnapshot
  <2> QED BY <2>1 DEF Orderly, TypeOK, CreateSnap, unchangedOutside, fsVars, runVars, Points
<1>2. Snapshots'
  BY DEF Orderly, Snapshots, CreateSnap, TakeSnapshot, SameName
<1>3. DryRun'
  BY DEF Orderly, DryRun, CreateSnap, unchangedOutside, runVars
<1> QED BY <1>1, <1>2, <1>3 DEF Orderly

LEMMA TrickleOrderly ==
  ASSUME Orderly, Trickle
  PROVE  Orderly'
<1>1. snapRctime' \in [Dirs -> 0..now]
  BY TrickleTimes DEF Orderly
<1>2. TypeOK'
  BY <1>1 DEF Orderly, TypeOK, Trickle, unchangedOutside, fsVars, runVars, Points
<1>3. Snapshots' /\ DryRun'
  BY DEF Orderly, Snapshots, DryRun, Trickle, unchangedOutside, runVars
<1> QED BY <1>2, <1>3 DEF Orderly

LEMMA SearchOrderly ==
  ASSUME Orderly, Search
  PROVE  Orderly'
<1>1. stops' \in 0..MaxStops
  <2>1. PICK lost \in IF Blind THEN Unread(Dirs \ {Root}) ELSE {{}} :
          stops' = stops + Cardinality(lost)
    BY DEF Search
  <2>2. CASE Blind
    BY <2>1, <2>2, UnreadCounts DEF Orderly
  <2>3. CASE ~ Blind
    <3>1. lost = {} BY <2>1, <2>3
    <3> QED BY <2>1, <3>1, FS_EmptySet, DaemonAssumption DEF Orderly, TypeOK
  <2> QED BY <2>2, <2>3
<1>2. list' \subseteq Files
  BY DEF Search, Expected, FilesBelow
<1>3. /\ pc = "search" /\ UNCHANGED <<unchangedReading, new>>
      /\ pc' = (IF list' = {} \/ mode \cap {"dry_run", "set_rctime"} # {}
                THEN "clean" ELSE "sync")
  BY DEF Search
<1>4. TypeOK'
  BY <1>1, <1>2, <1>3 DEF Orderly, TypeOK, unchangedReading, fsVars, snapVars, Points
<1>5. Snapshots' /\ DryRun'
  BY <1>3 DEF Orderly, Snapshots, DryRun, unchangedReading, snapVars
<1> QED BY <1>4, <1>5 DEF Orderly

LEMMA SyncOrderly ==
  ASSUME Orderly, (\E f \in Files : Send(f)) \/ SyncReturns
  PROVE  Orderly'
<1>1. CASE \E f \in Files : Send(f)
  <2>1. PICK f \in Files : Send(f) BY <1>1
  <2>2. copied' \in [Files -> 0..now] /\ list' \subseteq Files
    BY <2>1 DEF Orderly, TypeOK, Send
  <2>3. UNCHANGED <<fsVars, snapVars, disk, pc, runVars, last, new, cache>>
    BY <2>1 DEF Send
  <2>4. TypeOK'
    BY <2>2, <2>3 DEF Orderly, TypeOK, fsVars, snapVars, runVars
  <2>5. Snapshots' /\ DryRun'
    BY <2>3 DEF Orderly, Snapshots, DryRun, snapVars, runVars
  <2> QED BY <2>4, <2>5 DEF Orderly
<1>2. CASE SyncReturns
  <2>1. TypeOK'
    BY <1>2 DEF Orderly, TypeOK, SyncReturns, unchangedOutside, fsVars, snapVars, runVars, Points
  <2>2. Snapshots' /\ DryRun'
    BY <1>2 DEF Orderly, Snapshots, DryRun, SyncReturns, unchangedOutside, snapVars, runVars
  <2> QED BY <2>1, <2>2 DEF Orderly
<1> QED BY <1>1, <1>2

LEMMA DeleteSnapOrderly ==
  ASSUME Orderly, DeleteSnap
  PROVE  Orderly'
<1>1. /\ pc = "clean" /\ pc' = (IF "dry_run" \in mode THEN "round_end" ELSE "update")
      /\ list' = {} /\ UNCHANGED <<unchangedOutside, last, new>> /\ NoSnapshot
  BY DEF DeleteSnap
<1>2. now' = now
  BY <1>1 DEF unchangedOutside, fsVars
<1>3. /\ snap' \in BOOLEAN /\ left' \in BOOLEAN /\ snapName' \in Nat
      /\ snapMtime' \in [Files -> 0..now'] /\ snapRctime' \in [Dirs -> 0..now']
      /\ left' \/ ~ snap'
      /\ ~ left => ~ snap'
  BY <1>1, <1>2, NoSnapshotLeft DEF Orderly
<1>4. TypeOK'
  BY <1>1, <1>3 DEF Orderly, TypeOK, unchangedOutside, fsVars, runVars, Points
<1>5. Snapshots' /\ DryRun'
  BY <1>1, <1>3 DEF Orderly, Snapshots, DryRun, unchangedOutside, runVars
<1> QED BY <1>4, <1>5 DEF Orderly

LEMMA UpdateOrderly ==
  ASSUME Orderly, UpdateSeconds \/ Update
  PROVE  Orderly'
<1>1. CASE UpdateSeconds
  <2>1. last' \in Nat
    BY <1>1, StampType DEF Orderly, TypeOK, UpdateSeconds
  <2>2. copied' \in [Files -> 0..now]
    <3>1. \A f \in Files : mtime[f] \in 0..now /\ copied[f] \in 0..now
      BY DEF Orderly, TypeOK
    <3>2. [f \in Files |-> IF mtime[f] <= new THEN mtime[f] ELSE copied[f]] \in [Files -> 0..now]
      BY <3>1
    <3> QED BY <1>1, <3>2 DEF UpdateSeconds, Settled, Orderly, TypeOK
  <2>3. TypeOK'
    BY <1>1, <2>1, <2>2
       DEF Orderly, TypeOK, UpdateSeconds, fsVars, snapVars, runVars, Points
  <2>4. Snapshots' /\ DryRun'
    BY <1>1 DEF Orderly, Snapshots, DryRun, UpdateSeconds, snapVars, runVars
  <2> QED BY <2>3, <2>4 DEF Orderly
<1>2. CASE Update
  <2>1. TypeOK'
    BY <1>2 DEF Orderly, TypeOK, Update, unchangedOutside, fsVars, snapVars, runVars, Points
  <2>2. Snapshots' /\ DryRun'
    BY <1>2 DEF Orderly, Snapshots, DryRun, Update, unchangedOutside, snapVars, runVars
  <2> QED BY <2>1, <2>2 DEF Orderly
<1> QED BY <1>1, <1>2

LEMMA NextRoundOrderly ==
  ASSUME Orderly, NextRound
  PROVE  Orderly'
<1>1. last' \in Nat /\ pc' \in {"quit", "check"}
  BY DEF Orderly, TypeOK, NextRound
<1>2. TypeOK'
  BY <1>1 DEF Orderly, TypeOK, NextRound, unchangedOutside, fsVars, snapVars, runVars, Points
<1>3. Snapshots'
  BY <1>1 DEF Orderly, Snapshots, NextRound, snapVars
<1>4. DryRun'
  BY DEF Orderly, DryRun, NextRound, Once, unchangedOutside, runVars
<1> QED BY <1>2, <1>3, <1>4 DEF Orderly

\* last_rctime.dat is written when a round or the daemon ends, and by the handler.
LEMMA WriteOrderly ==
  ASSUME Orderly,
         NEW from, NEW to, Truncate(from, to) \/ Write(from, to),
         \/ from = "flush" /\ to = "flush_write"
         \/ from = "flush_write" /\ to = "round_end"
         \/ from = "quit" /\ to = "quit_write"
         \/ from = "quit_write" /\ to = "quit_done" /\ Write(from, to)
         \/ from = "handler" /\ to = "handler_write"
         \/ from = "handler_write" /\ to = "handler_clean"
  PROVE  Orderly'
<1>1. /\ pc = from /\ pc' = to
      /\ UNCHANGED <<fsVars, snapVars, copied, runVars, memVars>>
      /\ disk' \in {Truncated, last} /\ (Write(from, to) => disk' = last)
  BY DEF Truncate, Write
<1>2. TypeOK'
  BY <1>1 DEF Orderly, TypeOK, fsVars, snapVars, runVars, memVars, Points
<1>3. Snapshots'
  BY <1>1 DEF Orderly, Snapshots, snapVars, runVars
<1>4. DryRun'
  BY <1>1 DEF Orderly, DryRun, runVars, memVars
<1> QED BY <1>2, <1>3, <1>4 DEF Orderly

LEMMA QuitOrderly ==
  ASSUME Orderly, Quit
  PROVE  Orderly'
<1>1. TypeOK'
  BY DEF Orderly, TypeOK, Quit, Off, fsVars, snapVars, Points
<1>2. Snapshots' /\ DryRun'
  BY DEF Orderly, Snapshots, DryRun, Quit, Off, fsVars, snapVars
<1> QED BY <1>1, <1>2 DEF Orderly

LEMMA SignalOrderly ==
  ASSUME Orderly, Signal
  PROVE  Orderly'
<1>1. stops' \in 0..MaxStops
  BY DaemonAssumption DEF Orderly, TypeOK, Signal
<1>2. TypeOK'
  BY <1>1 DEF Orderly, TypeOK, Signal, fsVars, snapVars, memVars, Points
<1>3. Snapshots' /\ DryRun'
  BY DEF Orderly, Snapshots, DryRun, Signal, snapVars
<1> QED BY <1>2, <1>3 DEF Orderly

\* The ends of a daemon but that of poll_base.
Ends == \/ CreateSnapFails \/ SearchFails \/ SyncFails \/ DeleteSnapFails \/ Terminate
        \/ Kill \/ HandlerExit

LEMMA EndsOrderly ==
  ASSUME Orderly, Ends
  PROVE  Orderly'
<1>1. stops' \in 0..MaxStops /\ disk' = disk
  BY DaemonAssumption
     DEF Orderly, TypeOK, Ends, CreateSnapFails, SearchFails, SyncFails, DeleteSnapFails,
         Terminate, Kill, HandlerExit, Fail
<1>2. \/ \E how \in {"failed", "signal"} : OffRemoving(how)
      \/ \E how \in {"undeleted", "terminated", "killed"} : Off(how) /\ UNCHANGED snapVars
  BY DEF Ends, CreateSnapFails, SearchFails, SyncFails, DeleteSnapFails, Terminate, Kill,
         HandlerExit, Fail
<1>3. \E how \in {"failed", "undeleted", "terminated", "killed", "signal"} :
        /\ Off(how)
        /\ NoSnapshot \/ (UNCHANGED snapVars /\ how \in {"undeleted", "terminated", "killed"})
  BY <1>2 DEF OffRemoving
<1> QED BY <1>1, <1>3, OffOrderly

LEMMA StutterOrderly ==
  ASSUME Orderly, UNCHANGED vars
  PROVE  Orderly'
<1>1. TypeOK'
  BY DEF Orderly, TypeOK, vars, fsVars, snapVars, runVars, memVars
<1>2. Snapshots' /\ DryRun'
  BY DEF Orderly, Snapshots, DryRun, vars, fsVars, snapVars, runVars, memVars
<1> QED BY <1>1, <1>2 DEF Orderly

LEMMA OrderlyStep == Orderly /\ [Next]_vars => Orderly'
<1> SUFFICES ASSUME Orderly, [Next]_vars PROVE Orderly'
  OBVIOUS
<1>1. CASE FileSystem
  BY <1>1, FileSystemOrderly
<1>2. CASE \E m \in Modes : Launch(m)
  BY <1>2, LaunchOrderly
<1>3. CASE Run
  <2>1. CASE Check \/ CreateSnap \/ Trickle \/ Search
    BY <2>1, CheckOrderly, CreateSnapOrderly, TrickleOrderly, SearchOrderly
  <2>2. CASE (\E f \in Files : Send(f)) \/ SyncReturns
    BY <2>2, SyncOrderly
  <2>3. CASE DeleteSnap \/ NextRound \/ Quit
    BY <2>3, DeleteSnapOrderly, NextRoundOrderly, QuitOrderly
  <2>4. CASE UpdateSeconds \/ Update
    BY <2>4, UpdateOrderly
  <2>5. CASE \/ Truncate("flush", "flush_write") \/ Write("flush_write", "round_end")
             \/ Truncate("quit", "quit_write") \/ Write("quit_write", "quit_done")
             \/ Truncate("handler", "handler_write") \/ Write("handler_write", "handler_clean")
    BY <2>5, WriteOrderly
  <2>6. CASE HandlerExit
    BY <2>6, EndsOrderly DEF Ends
  <2> QED BY <1>3, <2>1, <2>2, <2>3, <2>4, <2>5, <2>6 DEF Run
<1>4. CASE CreateSnapFails \/ SearchFails \/ SyncFails \/ DeleteSnapFails
           \/ Terminate \/ Kill
  BY <1>4, EndsOrderly DEF Ends
<1>5. CASE Signal
  BY <1>5, SignalOrderly
<1>6. CASE UNCHANGED vars
  BY <1>6, StutterOrderly
<1> QED BY <1>1, <1>2, <1>3, <1>4, <1>5, <1>6 DEF Next

-----------------------------------------------------------------------------
(* What is recorded is never later than what has been copied.              *)

\* The environment: a change is later than all that is known.
LEMMA FileSystemTimely ==
  ASSUME Orderly, Timely, FileSystem
  PROVE  Timely'
<1>1. UNCHANGED <<snapVars, copied, disk, pc, runVars, memVars>>
  BY DEF FileSystem, Change, Touch, Propagate
<1>2. now' \in {now, now + 1} /\ now \in Nat
  <2>1. now \in Nat BY DaemonAssumption DEF Orderly, TypeOK
  <2>2. now' = now \/ now' = now + 1 BY DEF FileSystem, Change, Touch, Propagate
  <2> QED BY <2>1, <2>2
<1>3. \A f \in Files : mtime'[f] = mtime[f] \/ (mtime'[f] = now + 1 /\ now' = now + 1)
  BY DEF Orderly, TypeOK, FileSystem, Change, Touch, Propagate
<1>4. \A f \in Files : mtime[f] \in 0..now /\ copied[f] \in 0..now /\ snapMtime[f] \in 0..now
  BY DEF Orderly, TypeOK
<1>5. {new, last, cache, snapName} \subseteq Nat /\ disk \in Nat \cup {Truncated} /\ SeedTime \in Nat
  BY StampType DEF Orderly, TypeOK
<1>6. Times'
  BY <1>1, <1>2, <1>3, <1>4, <1>5 DEF Timely, Times, SeedTime, snapVars, memVars, Truncated
<1>7. SnapshotTimes'
  BY <1>1, <1>2, <1>3, <1>4, <1>5
     DEF Timely, Times, SnapshotTimes, LaterThanKnown, snapVars, memVars, Truncated
<1>8. Round' /\ NothingMissed'
  BY <1>1, <1>2, <1>3, <1>4, <1>5
     DEF Timely, Times, Round, NothingMissed, Uncopied, snapVars, memVars, runVars, Truncated
<1> QED BY <1>6, <1>7, <1>8 DEF Timely

\* The numbers that are compared, as far as TypeOK bounds them.
LEMMA Numbers ==
  ASSUME Orderly
  PROVE  /\ now \in Nat /\ {last, new, cache, snapName, start} \subseteq Nat
         /\ disk \in Nat \cup {Truncated} /\ SeedTime \in Nat
         /\ \A f \in Files : mtime[f] \in Nat /\ copied[f] \in Nat /\ snapMtime[f] \in Nat
                           /\ mtime[f] <= now
BY StampType, DaemonAssumption DEF Orderly, TypeOK

LEMMA LaunchTimely ==
  ASSUME Orderly, Timely, NEW m \in Modes, Launch(m)
  PROVE  Timely'
<1> DEFINE read == IF disk = Truncated THEN 0 ELSE disk
<1>1. /\ now' = now /\ mtime' = mtime /\ copied' = copied
      /\ snap' = snap /\ snapMtime' = snapMtime /\ snapRctime' = snapRctime
      /\ snapName' = snapName
      /\ pc = "off" /\ pc' = "check" /\ new' = 0
      /\ disk' = read /\ last' \in {read, SeedTime} /\ cache' \in {read, 0}
  BY DEF Launch, fsVars
<1>2. read \in Nat /\ read <= now
  BY Numbers DEF Timely, Times
<1>3. \A f \in Files : Uncopied(f) => mtime[f] > read /\ mtime[f] > SeedTime
  BY Numbers DEF Timely, Times, NothingMissed, Uncopied
<1>4. Times'
  BY <1>1, <1>2, Numbers DEF Timely, Times, SeedTime, Stamp
<1>5. SnapshotTimes'
  <2>1. ASSUME NEW f \in Files, snap, snapMtime[f] < mtime[f]
        PROVE  mtime[f] > read /\ mtime[f] > SeedTime /\ mtime[f] > 0 /\ mtime[f] > snapName
    BY <2>1, Numbers DEF Timely, Times, SnapshotTimes, LaterThanKnown
  <2> QED BY <1>1, <2>1 DEF Timely, SnapshotTimes, LaterThanKnown
<1>6. Round' /\ NothingMissed'
  BY <1>1, <1>2, <1>3, Numbers DEF Timely, Round, NothingMissed, Uncopied
<1> QED BY <1>4, <1>5, <1>6 DEF Timely

\* The end of a daemon, in whatever way.
LEMMA OffTimely ==
  ASSUME Orderly, Timely, NEW how, Off(how), disk' = disk, NoSnapshot \/ UNCHANGED snapVars
  PROVE  Timely'
<1>1. /\ now' = now /\ mtime' = mtime /\ copied' = copied
      /\ pc' = "off" /\ last' = 0 /\ new' = 0 /\ cache' = 0
  BY DEF Off, fsVars
<1>2. \/ UNCHANGED <<snap, snapMtime, snapName>>
      \/ snap' = FALSE /\ snapName' = 0
  BY DEF NoSnapshot, snapVars
<1>3. Times'
  BY <1>1, <1>2, Numbers DEF Timely, Times, SeedTime, Stamp
<1>4. SnapshotTimes'
  <2>1. CASE UNCHANGED <<snap, snapMtime, snapName>>
    BY <1>1, <2>1, Numbers DEF Timely, SnapshotTimes, LaterThanKnown
  <2>2. CASE snap' = FALSE
    BY <1>1, <2>2 DEF SnapshotTimes
  <2> QED BY <1>2, <2>1, <2>2
<1>5. Round' /\ NothingMissed'
  BY <1>1, Numbers DEF Timely, Round, NothingMissed, Uncopied
<1> QED BY <1>3, <1>4, <1>5 DEF Timely

LEMMA CheckTimely ==
  ASSUME Orderly, Timely, Check
  PROVE  Timely'
<1>1. /\ pc = "check" /\ pc' \in {"round_end", "snap"}
      /\ now' = now /\ mtime' = mtime /\ copied' = copied /\ snap' = snap
      /\ snapMtime' = snapMtime /\ snapName' = snapName
      /\ disk' = disk /\ mode' = mode /\ last' = last /\ cache' = cache
  BY DEF Check, unchangedReading, fsVars, snapVars
<1>2. new' <= now
  <2>1. PICK lost : LET newer == {e \in Entries(Root) \ lost : Rctime(e) > last} IN
          IF newer = {}
          THEN pc' = "round_end" /\ UNCHANGED new
          ELSE pc' = "snap" /\ new' = Max({Rctime(e) : e \in newer} \cup {new})
    BY DEF Check
  <2> DEFINE newer == {e \in Entries(Root) \ lost : Rctime(e) > last}
             times == {Rctime(e) : e \in newer} \cup {new}
  <2>2. now \in Nat /\ new \in 0..now
    BY Numbers DEF Timely, Times
  <2>3. times \in SUBSET (0..now)
    <3>1. \A e \in newer : Rctime(e) \in 0..now
      BY RctimeType DEF Orderly, Entries
    <3> HIDE DEF newer
    <3> QED BY <2>2, <3>1
  <2>4. Max(times) \in 0..now
    <3>1. times # {} OBVIOUS
    <3> HIDE DEF times
    <3> QED BY <2>2, <2>3, <3>1, MaxOfTimes
  <2> QED BY <2>1, <2>2, <2>4
<1>3. Times'
  BY <1>1, <1>2, Numbers DEF Timely, Times, SeedTime, Stamp
<1>4. SnapshotTimes'
  BY <1>1 DEF Timely, SnapshotTimes, LaterThanKnown
<1>5. Round' /\ NothingMissed'
  BY <1>1 DEF Timely, Round, NothingMissed, Uncopied
<1> QED BY <1>3, <1>4, <1>5 DEF Timely

\* Nothing that is known is later than now, when the snapshot is made; of one that is
\* found in its place the same was true when it was made.
LEMMA CreateSnapTimely ==
  ASSUME Orderly, Timely, CreateSnap
  PROVE  Timely'
<1>1. /\ pc = "snap" /\ pc' = "trickle"
      /\ now' = now /\ mtime' = mtime /\ copied' = copied
      /\ disk' = disk /\ mode' = mode /\ last' = last /\ cache' = cache /\ new' = new
      /\ snapName' = new
  BY DEF CreateSnap, unchangedOutside, fsVars, runVars
<1>2. \/ snapMtime' = mtime
      \/ snap /\ snapName = new /\ snapMtime' = snapMtime
  BY DEF CreateSnap, TakeSnapshot, SameName
<1>3. Times'
  BY <1>1, Numbers DEF Timely, Times, SeedTime, Stamp
<1>4. SnapshotTimes'
  <2>1. ASSUME NEW f \in Files
        PROVE  snapMtime'[f] <= mtime[f] /\ (snapMtime'[f] < mtime[f] =>
                 mtime[f] > last /\ mtime[f] > cache /\ mtime[f] > new
                 /\ (disk # Truncated => mtime[f] > disk))
    BY <1>1, <1>2, Numbers DEF Timely, SnapshotTimes, LaterThanKnown
  <2> QED BY <1>1, <2>1 DEF SnapshotTimes, LaterThanKnown
<1>5. Round' /\ NothingMissed'
  BY <1>1 DEF Timely, Round, NothingMissed, Uncopied
<1> QED BY <1>3, <1>4, <1>5 DEF Timely

LEMMA TrickleTimely ==
  ASSUME Orderly, Timely, Trickle
  PROVE  Timely'
<1>1. /\ pc = "trickle" /\ pc' = "search"
      /\ now' = now /\ mtime' = mtime /\ copied' = copied
      /\ snap' = snap /\ snapMtime' = snapMtime /\ snapName' = snapName
      /\ disk' = disk /\ mode' = mode /\ last' = last /\ cache' = cache /\ new' = new
  BY DEF Trickle, unchangedOutside, fsVars, runVars
<1>2. \A f \in Files : \A d \in Above[f] \cap Dirs : snapMtime[f] <= snapRctime'[d]
  <2>1. \A f \in Files : f \in Nodes /\ SnapRctime(f) = snapMtime[f]
    BY TreeAssumption DEF SnapRctime, Nodes
  <2> QED BY <2>1, TrickleTimes DEF Orderly
<1>3. Times'
  BY <1>1, Numbers DEF Timely, Times, SeedTime, Stamp
<1>4. SnapshotTimes'
  BY <1>1, <1>2 DEF Timely, SnapshotTimes, LaterThanKnown
<1>5. Round' /\ NothingMissed'
  BY <1>1 DEF Timely, Round, NothingMissed, Uncopied
<1> QED BY <1>3, <1>4, <1>5 DEF Timely

\* What the search does not find was as old in the snapshot as what is copied.
LEMMA SearchTimely ==
  ASSUME Orderly, Timely, ~ Blind, Search
  PROVE  Timely'
<1>1. /\ pc = "search" /\ pc' \in {"clean", "sync"}
      /\ now' = now /\ mtime' = mtime /\ copied' = copied /\ snap' = snap
      /\ snapMtime' = snapMtime /\ snapName' = snapName
      /\ disk' = disk /\ mode' = mode /\ last' = last /\ cache' = cache /\ new' = new
      /\ pc' = (IF list' = {} \/ mode \cap {"dry_run", "set_rctime"} # {}
                THEN "clean" ELSE "sync")
  BY DEF Search, unchangedReading, fsVars, snapVars
<1>2. list' = Expected({e \in Nodes : SnapRctime(e) > last})
  BY DEF Search, Since
<1>3. ASSUME NEW f \in Files, f \notin list' PROVE snapMtime[f] <= last
  <2>1. f \in Nodes /\ SnapRctime(f) = snapMtime[f]
    BY TreeAssumption DEF SnapRctime, Nodes
  <2>2. PICK e \in Above[f] \ {Root} : ~ (e \in Nodes /\ SnapRctime(e) > last)
    BY <1>2, <1>3, ExpectedIs
  <2>3. e \in Nodes /\ (e = f \/ e \in Dirs)
    BY <2>1, <2>2, AboveTransitive, AboveAreDirs
  <2>4. CASE e = f
    BY <2>1, <2>2, <2>3, <2>4, Numbers
  <2>5. CASE e \in Dirs
    <3>1. snapMtime[f] <= snapRctime[e] /\ SnapRctime(e) = snapRctime[e]
      BY <1>1, <2>2, <2>5 DEF Timely, SnapshotTimes, SnapRctime
    <3>2. snapRctime[e] \in Nat
      BY <2>5, Numbers DEF Orderly, TypeOK
    <3> QED BY <2>2, <2>3, <3>1, <3>2, Numbers
  <2> QED BY <2>3, <2>4, <2>5
<1>4. \A f \in Files \ list' : Uncopied(f) => mtime[f] > new
  <2>1. snap /\ snapName = new
    BY <1>1 DEF Orderly, Snapshots
  <2> QED BY <1>1, <1>3, <2>1, Numbers
          DEF Timely, SnapshotTimes, LaterThanKnown, NothingMissed, Uncopied
<1>5. Times'
  BY <1>1, Numbers DEF Timely, Times, SeedTime, Stamp
<1>6. SnapshotTimes'
  BY <1>1 DEF Timely, SnapshotTimes, LaterThanKnown
<1>7. Round' /\ NothingMissed'
  BY <1>1, <1>4 DEF Timely, Round, NothingMissed, Uncopied
<1> QED BY <1>5, <1>6, <1>7 DEF Timely

\* A file that has changed again since the snapshot was made is later than new_rctime.
LEMMA SyncTimely ==
  ASSUME Orderly, Timely, (\E f \in Files : Send(f)) \/ SyncReturns
  PROVE  Timely'
<1>1. /\ pc = "sync" /\ snap /\ snapName = new
      /\ now' = now /\ mtime' = mtime /\ snap' = snap
      /\ snapMtime' = snapMtime /\ snapRctime' = snapRctime /\ snapName' = snapName
      /\ disk' = disk /\ mode' = mode /\ last' = last /\ cache' = cache /\ new' = new
  BY DEF Orderly, Snapshots, Send, SyncReturns, unchangedOutside, fsVars, snapVars, runVars
<1>2. Times'
  <2>1. pc' \in {"sync", "clean"} BY DEF Send, SyncReturns
  <2> QED BY <1>1, <2>1, Numbers DEF Timely, Times, SeedTime, Stamp
<1>3. SnapshotTimes'
  <2>1. pc' \in {"sync", "clean"} BY DEF Send, SyncReturns
  <2> QED BY <1>1, <2>1 DEF Timely, SnapshotTimes, LaterThanKnown
<1>4. CASE \E f \in Files : Send(f)
  <2>1. PICK f \in Files : Send(f) BY <1>4
  <2>2. /\ pc' = "sync" /\ list' = list \ {f}
        /\ \A g \in Files \ {f} : copied'[g] = copied[g]
        /\ copied'[f] = snapMtime[f]
    BY <1>1, <2>1 DEF Send, Orderly, TypeOK
  <2>3. snapMtime[f] < mtime[f] => LaterThanKnown(mtime[f])
    BY <1>1 DEF Timely, SnapshotTimes
  <2> QED BY <1>1, <1>2, <1>3, <2>2, <2>3
          DEF Timely, Round, NothingMissed, Uncopied, LaterThanKnown
<1>5. CASE SyncReturns
  <2>1. pc' = "clean" /\ copied' = copied /\ list = {}
    BY <1>5 DEF SyncReturns, unchangedOutside
  <2> QED BY <1>1, <1>2, <1>3, <2>1 DEF Timely, Round, NothingMissed, Uncopied
<1> QED BY <1>4, <1>5

LEMMA DeleteSnapTimely ==
  ASSUME Orderly, Timely, DeleteSnap
  PROVE  Timely'
<1>1. /\ pc = "clean" /\ pc' = (IF "dry_run" \in mode THEN "round_end" ELSE "update")
      /\ now' = now /\ mtime' = mtime /\ copied' = copied
      /\ disk' = disk /\ mode' = mode /\ last' = last /\ cache' = cache /\ new' = new
  BY DEF DeleteSnap, unchangedOutside, fsVars, runVars
<1>2. snap' = FALSE /\ snapName' = 0
  BY <1>1 DEF Orderly, Snapshots, DeleteSnap, NoSnapshot
<1>3. Times'
  BY <1>1, <1>2, Numbers DEF Timely, Times, SeedTime, Stamp
<1>4. SnapshotTimes'
  BY <1>1, <1>2 DEF SnapshotTimes
<1>5. Round' /\ NothingMissed'
  BY <1>1 DEF Timely, Round, NothingMissed, Uncopied
<1> QED BY <1>3, <1>4, <1>5 DEF Timely

\* All that is not later than new_rctime has been copied when it is recorded.
LEMMA UpdateTimely ==
  ASSUME Orderly, Timely, UpdateSeconds \/ Update
  PROVE  Timely'
<1>1. /\ pc \in {"update", "update_nsec"} /\ ~ snap /\ "dry_run" \notin mode
      /\ now' = now /\ mtime' = mtime /\ snap' = snap /\ snapName' = snapName
      /\ disk' = disk /\ mode' = mode /\ cache' = cache /\ new' = new
  BY DEF Orderly, Snapshots, DryRun, UpdateSeconds, Update, unchangedOutside, fsVars,
         snapVars, runVars
<1>2. CASE UpdateSeconds
  <2>1. pc' = "update_nsec" /\ pc = "update" /\ copied' = Settled
    BY <1>2 DEF UpdateSeconds
  <2>2. ASSUME NEW f \in Files, copied'[f] < mtime[f]
        PROVE  Uncopied(f) /\ mtime[f] > new
    <3>1. CASE "set_rctime" \in mode
      <4>1. copied'[f] = IF mtime[f] <= new THEN mtime[f] ELSE copied[f]
        BY <2>1, <3>1 DEF Settled
      <4> QED BY <2>2, <4>1, Numbers DEF Uncopied
    <3>2. CASE "set_rctime" \notin mode
      <4>1. copied' = copied
        BY <2>1, <3>2 DEF Settled
      <4> QED BY <1>1, <2>1, <2>2, <3>2, <4>1 DEF Timely, Round, Uncopied
    <3> QED BY <3>1, <3>2
  <2>3. Times' /\ SnapshotTimes'
    BY <1>1, <2>1, Numbers DEF Timely, Times, SnapshotTimes, SeedTime, Stamp
  <2>4. Round' /\ NothingMissed'
    BY <1>1, <2>1, <2>2 DEF Timely, Round, NothingMissed, Uncopied
  <2> QED BY <2>3, <2>4 DEF Timely
<1>3. CASE Update
  <2>1. /\ pc' \in {"flush", "round_end"} /\ last' = new /\ copied' = copied
        /\ pc = "update_nsec"
    BY <1>3 DEF Update, unchangedOutside
  <2>2. Times' /\ SnapshotTimes'
    BY <1>1, <2>1, Numbers DEF Timely, Times, SnapshotTimes, SeedTime, Stamp
  <2>3. Round' /\ NothingMissed'
    BY <1>1, <2>1 DEF Timely, Round, NothingMissed, Uncopied
  <2> QED BY <2>2, <2>3 DEF Timely
<1> QED BY <1>2, <1>3

LEMMA NextRoundTimely ==
  ASSUME Orderly, Timely, NextRound
  PROVE  Timely'
<1>1. /\ pc = "round_end" /\ pc' \in {"quit", "check"} /\ last' \in {cache, last}
      /\ now' = now /\ mtime' = mtime /\ copied' = copied /\ snap' = snap
      /\ snapMtime' = snapMtime /\ snapName' = snapName
      /\ disk' = disk /\ mode' = mode /\ cache' = cache /\ new' = new
  BY DEF NextRound, unchangedOutside, fsVars, snapVars, runVars
<1>2. Times' /\ SnapshotTimes'
  BY <1>1, Numbers DEF Timely, Times, SnapshotTimes, LaterThanKnown, SeedTime, Stamp
<1>3. Round' /\ NothingMissed'
  BY <1>1 DEF Timely, Round, NothingMissed, Uncopied
<1> QED BY <1>2, <1>3 DEF Timely

LEMMA WriteTimely ==
  ASSUME Orderly, Timely, NEW from, NEW to, Truncate(from, to) \/ Write(from, to),
         from \in {"flush", "flush_write", "quit", "quit_write", "handler", "handler_write"},
         to \in {"flush_write", "round_end", "quit_write", "quit_done",
                "handler_write", "handler_clean"}
  PROVE  Timely'
<1>1. /\ pc = from /\ pc' = to
      /\ disk' \in {Truncated, last}
      /\ now' = now /\ mtime' = mtime /\ copied' = copied /\ snap' = snap
      /\ snapMtime' = snapMtime /\ snapName' = snapName
      /\ mode' = mode /\ last' = last /\ cache' = cache /\ new' = new
  BY DEF Truncate, Write, fsVars, snapVars, runVars, memVars
<1>2. Times' /\ SnapshotTimes'
  BY <1>1, Numbers
     DEF Timely, Times, SnapshotTimes, LaterThanKnown, SeedTime, Stamp, Truncated
<1>3. Round' /\ NothingMissed'
  BY <1>1, Numbers DEF Timely, Round, NothingMissed, Uncopied
<1> QED BY <1>2, <1>3 DEF Timely

\* The handler finds a time, not half of one and half of another.
LEMMA SignalTimely ==
  ASSUME Orderly, Timely, ~ Torn, Signal
  PROVE  Timely'
<1>1. /\ pc \notin {"off", "update_nsec"} /\ pc' = "handler"
      /\ disk' = disk
      /\ now' = now /\ mtime' = mtime /\ copied' = copied /\ snap' = snap
      /\ snapMtime' = snapMtime /\ snapName' = snapName
      /\ mode' = mode /\ last' = last /\ cache' = cache /\ new' = new
  BY DEF Signal, fsVars, snapVars, memVars
<1>2. Times' /\ SnapshotTimes'
  BY <1>1 DEF Timely, Times, SnapshotTimes, LaterThanKnown, SeedTime, Stamp
<1>3. Round' /\ NothingMissed'
  BY <1>1 DEF Timely, Round, NothingMissed, Uncopied
<1> QED BY <1>2, <1>3 DEF Timely

LEMMA StutterTimely ==
  ASSUME Timely, UNCHANGED vars
  PROVE  Timely'
BY DEF Timely, Times, SnapshotTimes, LaterThanKnown, Round, NothingMissed, Uncopied,
       SeedTime, Stamp, vars, fsVars, snapVars, runVars, memVars

LEMMA TimelyStep == ~ Torn /\ ~ Blind /\ Orderly /\ Timely /\ [Next]_vars => Timely'
<1> SUFFICES ASSUME ~ Torn, ~ Blind, Orderly, Timely, [Next]_vars PROVE Timely'
  OBVIOUS
<1>1. CASE FileSystem
  BY <1>1, FileSystemTimely
<1>2. CASE \E m \in Modes : Launch(m)
  BY <1>2, LaunchTimely
<1>3. CASE Run
  <2>1. CASE Check \/ CreateSnap \/ Trickle \/ Search
    BY <2>1, CheckTimely, CreateSnapTimely, TrickleTimely, SearchTimely
  <2>2. CASE (\E f \in Files : Send(f)) \/ SyncReturns
    BY <2>2, SyncTimely
  <2>3. CASE DeleteSnap \/ NextRound
    BY <2>3, DeleteSnapTimely, NextRoundTimely
  <2>4. CASE UpdateSeconds \/ Update
    BY <2>4, UpdateTimely
  <2>5. CASE \/ Truncate("flush", "flush_write") \/ Write("flush_write", "round_end")
             \/ Truncate("quit", "quit_write") \/ Write("quit_write", "quit_done")
             \/ Truncate("handler", "handler_write") \/ Write("handler_write", "handler_clean")
    BY <2>5, WriteTimely
  <2>6. CASE HandlerExit \/ Quit
    BY <2>6, OffTimely DEF HandlerExit, OffRemoving, Quit
  <2> QED BY <1>3, <2>1, <2>2, <2>3, <2>4, <2>5, <2>6 DEF Run
<1>4. CASE CreateSnapFails \/ SearchFails \/ SyncFails
  BY <1>4, OffTimely DEF CreateSnapFails, SearchFails, SyncFails, Fail,
                           OffRemoving
<1>5. CASE DeleteSnapFails \/ Terminate \/ Kill
  BY <1>5, OffTimely DEF DeleteSnapFails, Terminate, Kill
<1>6. CASE Signal
  BY <1>6, SignalTimely
<1>7. CASE UNCHANGED vars
  BY <1>7, StutterTimely
<1> QED BY <1>1, <1>2, <1>3, <1>4, <1>5, <1>6, <1>7 DEF Next

-----------------------------------------------------------------------------
(* Theorems.                                                               *)

LEMMA OrderlyAlways == Spec => []Orderly
<1>1. Init => Orderly BY InitGood
<1> QED BY <1>1, OrderlyStep, PTL DEF Spec

\* Whatever is found on disk and wherever daemons end, every variable has its type.
THEOREM TypeCorrect == Spec => []TypeOK
<1>1. Orderly => TypeOK BY DEF Orderly
<1> QED BY <1>1, OrderlyAlways, PTL

\* l::exit, the handler and the end of poll_base leave no snapshot of the daemon's own
\* behind, whatever was interrupted, unless its removal fails; a daemon that is killed or
\* terminated by an exception does.
THEOREM SnapshotGoneCorrect == Spec => []SnapshotGone
<1>1. Orderly => SnapshotGone BY DEF Orderly, Snapshots, SnapshotGone
<1> QED BY <1>1, OrderlyAlways, PTL

\* A dry run that comes to its end has put back the time that it found on disk.
THEOREM DryRunInertCorrect == Spec => []DryRunInert
<1>1. Orderly => DryRunInert BY DEF Orderly, DryRun, DryRunInert
<1> QED BY <1>1, OrderlyAlways, PTL

\* The recorded time never overtakes what has been copied, as long as a signal does not
\* find half of an assigned time and a search can read the times of all directories.
THEOREM NothingMissedCorrect == ~ Torn /\ ~ Blind => (Spec => []NothingMissed)
<1>1. Init => Orderly /\ Timely BY InitGood
<1>2. Timely => NothingMissed BY DEF Timely
<1>3. ~ Torn /\ ~ Blind /\ Orderly /\ Timely /\ [Next]_vars => (Orderly /\ Timely)'
  BY OrderlyStep, TimelyStep
<1> SUFFICES ASSUME ~ Torn, ~ Blind PROVE Spec => []NothingMissed
  OBVIOUS
<1>4. Orderly /\ Timely /\ [Next]_vars => (Orderly /\ Timely)'
  BY <1>3
<1> QED BY <1>1, <1>2, <1>4, PTL DEF Spec
=============================================================================
