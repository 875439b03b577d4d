# TLA+ models of cephgeorep

cephgeorep (`cephfssyncd`) is a daemon that copies what changes in a Ceph file
system to a remote server. It watches `ceph.dir.rctime`, takes a snapshot when a
time has risen, walks the snapshot for files newer than the time of the last
sync, deals them out to several rsync (or scp) processes, and records the new
time. The models here say what must not go wrong on the way (a file forgotten,
sent by two processes at once, or overtaken by the recorded time; a search that
ends too soon; a pipe that is closed under a child), TLC checks them on small
instances, and TLAPS proves every safety property that holds of them for every
instance. Liveness is model-checked.

## The system

| Component | Source (`src/src/`) | State | Operations | Interacts with |
|---|---|---|---|---|
| Program entry | `impl/main.cpp` | `argv`, `ConfigOverrides` | options, construction of the others | Config, daemon loop |
| Config | `impl/config.cpp` | the fields of `Config`, the file | read, create from a template, override, verify | the disk; every other part reads its fields |
| Daemon loop | `impl/crawler.cpp` `poll_base`, `create_snap`, `delete_snap` | `new_rctime`, `old_rctime_cache`, `snap_path_`, the flags | one round: check, snapshot, delay, search, sync, delete, update | calls all of the following; interrupted by signals |
| LastRctime | `impl/rctime.cpp` | `last_rctime_`, `last_rctime.dat` | read or reinitialise, compare, update, write | the disk; the handler writes it too |
| Signal handling | `impl/signal.cpp` | `crawler_` | `sig_hdlr`, `l::exit` | every point of the program, and forked children |
| Search | `impl/crawler.cpp` `trigger_search`, `find_new_files_*` | `file_list`, the threads | depth first, or breadth first with threads | ConcurrentQueue |
| Name filters, File | `impl/crawler.cpp` `ignore_entry`, `check_*`; `incl/file.hpp` | the path of an entry | ignore, splice `/.` into the path | search, sync programs |
| ConcurrentQueue | `incl/concurrent_queue.hpp` | `queue_`, `done_`, the callers' `threads_running` | `push`, `pop` | mutex, condition variable |
| Syncer | `impl/syncer.cpp` | `destination_`, `max_mem_usage_`, the list of processes, `ssh_fail_procs` | `sync`, `launch_procs`, `handle_returned_procs` | SyncProcess; `wait()` |
| SyncProcess | `impl/syncProcess.cpp` | `file_itr_`, `payload_`, `pid_`, the shared page, `pipefd_` | `consume`, `sync_batch`, `reset`, `log_errors`, `change_destination` | fork, exec, pipe |
| Status, Logging, packaging, `s3wrap.sh` | the rest | none that another part reads | output | |

The behaviours that are hard to test: children exit in any order while others
are still being forked, fail in seven ways, and are relaunched, put aside or
moved to the next destination; the numbers of their pipes are closed, given out
again and closed once more; the worker threads find out by counting that nothing
is left; signals, kills and failures cut the daemon loop anywhere while the file
system goes on changing; rctimes are late; the configuration reader keeps its
variables from one line to the next. `PROJECT.json` lists them as hazards with
their lines.

What makes each part correct: the syncer sends every file, no file twice at a
time, and returns; the search finds every new file that is not ignored, once, and
ends; the daemon never records a time later than an unsent change, removes its
snapshot on each of its own ways out, and catches up; the start gives the settings that the file and
the options mean; the filters ignore what the comments say and nothing else.

## The modules

**`Syncer`** models one `Syncer` object over many calls, with its SyncProcess
objects and their children. A file is its position in the sorted list and costs
`mem[f]` bytes (`PathMem` gives the possible sizes). `itr`, `batch`, `sendTo`,
`pid` and `execErr` are `file_itr_`, the files and the destination in
`payload_`, `pid_` and the shared page of each process. Each child is a record
in `kid`: forked, executing, or exited with a code. `LaunchProcs`, `Fork`,
`Success`, `ArgsTooBig`, `ExecError`, `TryAgain`, `GiveUp`, `SshFails` and
`Failover` are the branches of the wait loop; `Drain`, `IncHeadroom` and
`OutOfRoom` are the `INC_HEADROOM` path in `sync`. A position past the end of
the list is `nfiles`. **`SyncContract`** is what the crawler relies on: `sync`
returns only when all files have been transferred. **`SyncerProofs`** holds the
theorems.

**`SyncOutput`** adds to each step of `Syncer` what it does to file descriptors:
`fd` is the daemon's table, in which `open()` and `pipe()` give out the lowest
free number, and `pfd` is `pipefd_[0]` of each process, which `reset()` closes
and leaves as it is, so that the number may stand for something else when
`sync_batch()` or the destructor closes it again. New steps are the children's
writes, which block on a full pipe, the parent's read in `log_errors` to the end
of the pipe, and the ssh processes that outlive an rsync and keep the pipe open.
**`SyncOutputProofs`** holds the theorems.

**`SourceTree`** is the tree that is searched, and `Expected`, the files that a
search has to find. **`Crawl`** models `trigger_search` in its three forms (no
thread: `l::exit`; one: recursion, as a stack of open directories; several: the
shared queue). What happens under the queue's mutex is one step: `Take`,
`Finish`, `Last` and `Sleep` are the ways through `pop`, `WakeUp` its loop after
the wait, `Spurious` a wake-up that nobody asked for. The increment of
`threads_running` in `Start` is outside the mutex, as in the code. Doing the
decrement and the test in `pop` in one step loses nothing: an increment by a
starting thread between the two has the effect that it has before them.
**`CrawlContract`** says that the list returned is complete and free of
duplicates. **`SourceTreeProofs`** and **`CrawlProofs`** hold the lemmas about
paths and the theorems.

**`Names`** has the pointer loops of `ignore_entry` and of `File`'s constructor as
operators on sequences of characters. Its only state is the path below the root,
which grows piece by piece, so that TLC goes through all paths of a bounded
length; a read behind the terminator would stop it. **`NamesProofs`** holds the
theorems.

**`Config`** is the start of the program: `getopt_long` option by option, the
file line by line with the reader's `value` that lives from line to line,
`override_fields`, `verify`, and the destinations that Syncer makes of them. The
file may be missing, be created from the template, and be edited in between. A
value is a sequence of words; what `stoi` does with a word is a constant.
**`ConfigProofs`** holds the theorems.

**`Daemon`** models `poll_base` with `LastRctime`, the snapshot and the handler.
The search and the sync are one step, and one step per file, with the effects
their contracts allow. Its environment changes files, touches directories and
propagates rctimes upwards one directory at a time. Stops are signals, kills and
every failure; then any of the flag sets in `Modes` may be launched. Writing
`last_rctime.dat` takes two steps (truncated, written), `update()` two (seconds,
nanoseconds). The read of a time may fail in `check_for_change`, and in the
search if `Blind`. A daemon that was killed leaves its snapshot (`left`), and a
later one with the same process id and the same rctime finds it in place of a new
one. A directory that cannot be opened or read makes its iterator throw, and nothing
catches that (`Terminate`: `crawler.cpp:204`, `:229`, and `rctime.cpp:154` for the
base directory): the process is gone, with the snapshot in place and nothing
recorded. `delete_snap` may fail in the loop, in `l::exit` and in the handler; each
time the process exits all the same (`OffRemoving`, `DeleteSnapFails`). The ghost
part of `copied` (`Settled`) counts as copied what `--set-last-change` declares
unwanted, from the first assignment of `update()` on. The doc comment at
`rctime.hpp:69` says that `check_for_change` returns the
lowest new time; the code, and the model, take the highest. **`DaemonProofs`** holds
the theorems.

**`Extrema`** has the lemmas about least and greatest elements that the proofs use
in place of an induction over the naturals.

The operators marked "Fault:" in the modules are not part of the models. Each is
a definition with a plausible mistake in it, and putting it in place of the
definition after it makes TLC report one of the properties.

## The runs

| Run | Instance | Shows |
|---|---|---|
| `syncer_safety` | `MCSyncerSafety.cfg` | bookkeeping of children and processes, no file twice, failover all at once and in time as long as no process has finished, batches within the limit, with outside kills and early SIGINTs allowed |
| `syncer_fair` | `MCSyncerFair.cfg` | without outside kills: nothing lost, success means delivered, the call ends, `SyncContract` is implemented |
| `output` | `MCSyncOutput.cfg` | while a child runs its reader is open under the remembered number, no descriptor leaks, two numbers are free at each `pipe()`, and the call ends although children write and ssh processes linger |
| `crawl` | `MCCrawl.cfg` | the search ends, with a complete list, for zero to three threads |
| `names` | `MCNames.cfg` | the filters agree with the forms of names in their comments, the path is cut where the root ends, the buffer is long enough |
| `config` | `MCConfig.cfg` | a daemon that comes up has the settings that its file and options mean, a sound file always starts, the template never does |
| `daemon` | `MCDaemon.cfg` | the recorded time never overtakes the copies, whatever ends a daemon; `l::exit`, the handler and the end of `poll_base` leave no snapshot behind; a completed dry run leaves no trace, the destination catches up |
| `syncer_killed` | violation | a child killed by a signal counts as successful (`WEXITSTATUS` without `WIFEXITED`) |
| `syncer_failover` | violation | once a process has finished, the others' ssh failures no longer trigger failover |
| `syncer_early_kill` | violation | SIGINT after E2BIG can run the daemon's own handler in a child and delete the snapshot |
| `daemon_torn_update` | violation | a signal inside `update()` saves a time that is too late |
| `daemon_dry_run_stopped` | violation | interrupting `--seed --dry-run` saves the time 1.0 |

Bounds. Two or three files over two processes are enough for a process to get a
second batch, to finish before the other and to share a failure; two
destinations let failover wrap around; the sizes and limits let a batch hold one
file or two, before and after a round of E2BIG. In `output` there are as few numbers
as will do, one more than processes: one pipe has been made and both ends of
another are open, or both have been made and the log is open. Each number is
reused. Since pids differ in nothing but their names there, a new child takes
a definite free one (`NextPid`). No child writes more than the pipe holds
(`Outputs`); below is what happens otherwise.

Three threads are the least for one to wait while two work, or for one to start
after the others have ended; the tree has a branch of two levels next to an empty
one, and the sets in `MCViews` cut it at each. Five pieces, among them `swp`,
`~$`, a dot and a slash, make two names in a row, hidden, locked, swap files and
all that is nearly one of them. The files in `config` are a sound part with up to
two more lines, which is enough for a line to repair, spoil or extend another;
the user writes the file once, where there was none or the template.

In the daemon's tree an rctime has to pass two directories, two changes are
enough for one to come between the check and the snapshot, and one stop (a failed
read counts as one) is enough to interrupt every step, followed by any launch.
`daemon_torn_update` has the service alone, one stop, and times up to 5, with two
ticks to a second: 3 is recorded, the next round has found 4, and a third change,
at 5, comes after its snapshot. A signal between the two assignments then saves the
seconds of 4 with the ticks of 3, which is 5, and no later daemon finds the third
change. The theorems about `Daemon` do not depend on these bounds.

Fairness. The parent and each child go on (they only run or block in `wait()` or
on a pipe), an ssh process whose rsync is gone ends, and for `SyncEnds` a process
that is tried again and again sometime succeeds: otherwise the code retries for
ever, as intended. Threads are scheduled, and a wait ends only by a notification,
not by luck. A running daemon goes on, Ceph propagates rctimes, and the service
without flags is sometime started after the others have ended; changes and stops
are bounded, which is what `CatchesUp` (again and again everything is copied)
needs. `Config` and `Names` have safety properties only.

## What is proved

**The syncer.** `SyncerProofs` proves for every number of files, processes,
destinations, pids and sizes, from `SyncerAssumption` only:

- `TypeCorrect`, `ChildrenKnownCorrect`, `NoFileTwiceCorrect`,
  `FailoverCoherentCorrect`, `QuietChangeCorrect`, `BatchFitsCorrect`,
  `FailoverInTimeCorrect` of `Spec`;
- `NothingLostCorrect`, `SuccessMeansDeliveredCorrect` and the refinement
  `ImplementsContractCorrect` of `Spec` if `~Signals`. The proviso is needed: the
  run `syncer_killed` is the counterexample without it.

`FailoverInTime` is what remains of `AllFailedMeansFailover`, which the run
`syncer_failover` refutes: the parent waits with every process put aside only if one
of the call's processes has finished before, which makes the threshold stale.

None of the invariants is inductive alone. `Bookkeeping` strengthens them: no
child exists outside the wait loop (`Quiet`); the put-aside and the about-to-be-
launched objects are disjoint parts of the list, and no two objects hold one pid
(`Lists`); what a child carries is its object's batch, and a batch holds only
files whose position is the process's id modulo their number (`Shares`), which is
why two batches are disjoint; every object is aimed at the current destination
(`Aimed`). With it, the failover threshold can only be met when all processes are
put aside (`AllAside`, a counting argument), so that nothing runs when the
destination changes. `Progressed` adds for the second group that an exit with 0
means that the child's files were transferred (`Honest`). Each action has a lemma
for each of the two invariants, and `ContractStep` maps every step to one of
`SyncContract` or to a stutter. `BatchFits` is about the limit in force at the
launch, and `Fitting` says it of the batch that an object holds, which a round
of E2BIG hands back before the limit sinks. What `consume` takes is below the
limit because its last file was tested together with all those before it
(`TakenFits`), so that no sum over files has to be followed file by file.

**The descriptors.** `SyncOutputProofs` proves for every list, number of processes
and size of the pipes, from `SyncerAssumption` and `OutputAssumption` (there is
one number more than objects): `OutputTypeCorrect`, `ReaderHeldCorrect`,
`NoLeakCorrect`, `RoomLeftCorrect`, and `OutputImplementsSyncer`, the refinement of
`Spec` by `SpecOutput`, so that the theorems about `Syncer` hold with the
descriptors, too.
The invariant `Descriptors` says who holds which number: an object that has been
launched holds the read end of its own child's pipe (`Held`). The exception is the
object that was just reset, which remembers a number that is closed; it is
harmless because it is the next to be launched, and nothing else is opened
before `sync_batch()` has closed that number again. That no two objects hold one
number (`OwnNumbers`) follows from their pids being different. `RoomAlways` is
a counting argument (`FreeNumbers`): every open number belongs to an object, and the
one that makes a new pipe has closed its own, so that both ends of the pipe find a
free number. The code relies on it, since it does not look at the result of
`pipe()` (`syncProcess.cpp:120`).

**The search.** `CrawlProofs` proves for every tree, every number of threads and
every set of ignored entries, from `TreeAssumption` and `CrawlAssumption` only:
`TypeCorrect`, `RunningCountsCorrect`, `DoneIsFinalCorrect`, `SomeoneRunsCorrect`,
`NothingOverlookedCorrect` and the refinement `ImplementsContractCorrect`.

The threads' agreement on the end is `Coordination`: the count equals the number
of running threads (a cardinality argument per step), a thread that waits has a
running one to rely on (`Relied`), so that the last one cannot go to sleep, and
once `done_` is set the queue is empty and nobody reads. Completeness is
`Tracked`: the places where entries wait (the queue, the stack, each thread's
directory and list) are disjoint (`Places`), and together they cut every path to
a file that is not in the list yet exactly once (`Coverage`, with `Cuts` of
`SourceTreeProofs`). A directory that is opened gives way to its entries
(`CutsOpen`), an ignored entry cuts no path of an expected file (`CutsIgnore`), a
file that is listed was not in the list (`CutsFind`); when nothing is left, no
path is open. The lemmas on `Above` (the path to an entry is its parent's path
and itself, without a cycle) are what `TreeAssumption` is for.

**The daemon.** `DaemonProofs` proves for every tree, resolution of the clock,
number of changes and stops, and all sets of flags, from `TreeAssumption` and
`DaemonAssumption`: `TypeCorrect`, `SnapshotGoneCorrect`, `DryRunInertCorrect`, and,
if `~Torn` and `~Blind`, `NothingMissedCorrect`. The provisos are needed:
`daemon_torn_update` and `MCDaemonBlind.cfg` are the counterexamples. `SnapshotGone`
says nothing of a daemon that is killed or terminated by an exception, nor of one
whose snapshot cannot be removed: there the code leaves it, and `NothingMissed`
covers what the next daemon makes of it.

`Orderly` says where the daemon has a snapshot of its own (`Snapshots`) and where
a dry run keeps the time that it has found (`DryRun`). `Timely` is what
`NothingMissed` needs: no known time is in the future, hence every change is
later than all of them (`Times`); a change that a snapshot has missed is later than
every time that some daemon holds or has written, also if the snapshot was left
behind, and after the delay no directory in it is older than what is below it
(`SnapshotTimes`), so that a file that the search does not find was already
copied; from the search on, what is not in the list and not copied is later than
`new_rctime` (`Round`), which may then be recorded.

**The names.** `NamesProofs` proves for every root, every set of pieces and every
length of path, from `NamesAssumption` only: `IgnoredAsAskedCorrect`,
`CutAtRootCorrect`, `BufferFitsCorrect`. The inductive part is small (`PathInv`: a
path is a string that starts with a "/"); the rest is about the pointer loops.
`LastOfIs` says which occurrence `get_last_of` finds, `FilenameIs` that what
`get_filename` makes of it is the entry's name, whatever stands before the path
below the root, and `ExtensionIs` and `SwapIs` that looking behind the last dot is
enough for a swap file, because no other dot is in its extension. `SpliceIs` gives
the spliced path as a whole; for `CutAtRoot` it is gone through character by
character (`MarkerAt`): no "/./" starts before the end of the root.

**The start.** `ConfigProofs` proves for every set of files and of command lines,
from `ConfigAssumption` only: `TypeCorrect` and `NotOnTemplateCorrect`, and, if
every line that the user writes has a "=" (`EveryLineAssigned`),
`MeansWhatItSaysCorrect` and `SoundStartsCorrect`. The proviso is needed:
`MCConfigBare.cfg` is the counterexample.

What a file and a command line mean is defined by their last (or, for lists, all)
lines that give a key, without running the reader. `StartInv` relates it to the
state of the reader: an override is the last option for its key of those that
have been taken (`OptInv`), and after n lines each field is what the first n lines
give it (`ReadInv`, with one lemma for a line that gives the key and one for a
line that does not). The loop runs once more after the last line with the values
it already has: `AtEnd` shows that this only repeats the last entry of a list,
which is why the meaning is one of sets and orders (`SameOrder`) for targets. The
list is a recursive function of the number of lines; that it is one
(`ListOfIs`) is shown with the least length for which it fails, not by
induction.

**Only model-checked**: the liveness properties (`SyncEnds`, `SearchEnds`,
`CatchesUp`), which are out of this prover's reach. Of the properties that the
violation runs refute, `SuccessMeansDelivered` and `NothingMissed` are proved under the
provisos above, the others are not.

## What is assumed or left out

- A pid is not given out again during one call; children that are still running
  when the daemon ends are not followed.
- `SyncEnds` is for paths that fit into an empty argument vector under the lowest
  limit. One that does not is never consumed, and its process is launched with an
  empty batch for ever (`syncProcess.cpp:94`).
- `SyncEnds` is also for children that do not write more than a pipe holds. The
  parent reads a pipe only after `wait()` has returned its child
  (`syncer.cpp:198`), so a child that fills the pipe blocks, and with it the
  parent. `MCSyncOutputFull.cfg` (with `MCSyncOutput.tla`) shows it.
- The shared page of each launch is never unmapped, which is left out.
- The comment at `syncProcess.hpp:108` says that `full_test` is true if the file
  "exceeds" the limit; the code, and `Fits`, turn down one that reaches it, too.
- The propagation delay is taken to be long enough for the snapshot; the README
  of the program leaves that to the user. No two changes have the same time,
  since `is_newer` is strict. A file that arrives with an old mtime is not a
  change here, as it is not one for the code.
- `Blind` is FALSE in the run `daemon`. If the search cannot read a directory's
  rctime, the code takes 0.0 for it (`rctime.cpp:93`), skips what is below, and
  records the new time all the same: `MCDaemonBlind.cfg` shows a file that is
  never sent. The same failure in `check_for_change` only delays.
- Of the snapshots that killed daemons have left, only the last is followed. An
  older one could come back only to a daemon with its process id and for an
  rctime that has been surpassed since, that is, when the directory that has
  surpassed it cannot be read.
- Of the timestamps only `update(new_rctime)` is split into its halves. The other
  two calls cannot produce a later time than they should: `update({1})` is not
  later than any change, and putting the cached value back raises the seconds
  while the nanoseconds are 0. Digits of `last_rctime.dat` that are cut off by a
  loss of power (`rctime.cpp:68`) are left out: the file is old, empty or whole.
- The lines of the run `config` all have a "=". A key without one takes the value
  of the line before it (`config.cpp:69`), although the comment at `config.cpp:75`
  says that unassigned fields are ignored: `MCConfigBare.cfg` shows it. Of numbers
  the run has those that `verify` lets through or should not; `Threads = 0` passes
  (`config.cpp:211` tests for less than zero), and the search then ends the daemon
  (`Crawl`).
- A configuration file that appears between the failed `open` and the writing of
  the template is overwritten (`config.cpp:52`), and so is one that may be written but
  not read, since `std::fstream` opens to read and write (`config.cpp:51`). The model
  edits the file only while no daemon starts, and a file that cannot be opened ends
  the start (`OpenFails`). An empty destination with rsync (`syncer.cpp:95`) is outside the
  instance.
- `Names` takes the root of the snapshot to have no "/./" in it, nor to make one
  with the "/" that follows it: rsync cuts at the first one (`file.hpp:56`).
- `crawler_` in `signal.cpp:33` is not reset when `main()` destroys the Crawler,
  and the handler calls functions that a handler must not; neither the lifetime of
  objects nor the locks of the C library are modelled.
- Not modelled: the status file and what is logged, packaging and `s3wrap.sh`;
  none keeps state that the rest reads.

The three instances `MCSyncOutputFull.cfg`, `MCDaemonBlind.cfg` and
`MCConfigBare.cfg` are not among the runs; TLC reports a violation for each.

## Plan

1. Done: `Syncer` with `SyncContract`, `SyncOutput`, `Crawl` with `CrawlContract`,
   `Daemon`, `Config`, `Names`; proofs of every safety property that holds of them.
2. `Daemon` over `Crawl` and `Syncer` themselves in place of the contracts: the
   children that outlive a failed sync, and a snapshot deleted under them.
