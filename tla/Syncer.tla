------------------------------- MODULE Syncer -------------------------------
(***************************************************************************)
(* Syncer::sync of syncer.cpp and the SyncProcess objects it drives: a     *)
(* list of files is dealt round-robin over a few SyncProcess objects, each *)
(* of which packs as many of its files as one argument vector can hold,    *)
(* forks a child that executes the sync program on them, and is relaunched *)
(* when its child has exited, until every file has been handed over.       *)
(*                                                                         *)
(* The parent's steps and its children's interleave: a child may exit, or  *)
(* fail to execute, while the parent is still forking the others, and the  *)
(* parent sees exits in any order.                                         *)
(*                                                                         *)
(* Files are their positions 0..nfiles-1 in the sorted list, sync          *)
(* processes their ids, destinations their positions in destinations_.     *)
(***************************************************************************)
EXTENDS Integers, FiniteSets, Functions

CONSTANTS
  MaxFiles,      \* bound: the longest list of one call
  NProc,         \* nproc_, "Processes" in the configuration; 0 is accepted
  NDests,        \* the number of destinations
  PathMem,       \* the bytes that one file can add to the argument vector
  StartMem,      \* start_mem_usage_: program, flags, longest destination
  InitMaxMem,    \* what get_mem_limit returns at start-up
  Headroom,      \* MEM_LIM_HEADROOM
  ExecIsRsync,   \* ends_with(exec_bin_, "rsync")
  Pids, NoPid,   \* process ids, and the 0 of a SyncProcess never launched
  ExitCodes,     \* the exit codes of the sync program that are considered
  E2BIGs,        \* TRUE if the kernel may refuse an argument vector
  Signals,       \* TRUE if a signal from outside may kill a child
  EarlyKill      \* TRUE if SIGINT may reach a child before it resets the handler

\* The exit codes that syncer.hpp names.
SUCCESS         == 0
PROTOCOL_STREAM == 12
PARTIAL_XFR     == 23
TIMEOUT_S_R     == 30
TIMEOUT_CONN    == 35
CHECK_SHMEM     == 145
SSH_FAIL        == 255

Transient == {PROTOCOL_STREAM, PARTIAL_XFR, TIMEOUT_S_R, TIMEOUT_CONN}

\* The process ids of a call: launch_procs never makes more than max(nproc_, 1).
Ids == IF NProc > 1 THEN 0..NProc-1 ELSE {0}

ASSUME SyncerAssumption ==
  /\ MaxFiles \in Nat \ {0}
  /\ NProc \in Nat
  /\ NDests \in Nat \ {0}
  /\ PathMem \subseteq Nat
  /\ StartMem \in Nat
  /\ InitMaxMem \in Nat
  /\ Headroom \in Nat
  /\ NoPid \notin Pids
  /\ ExitCodes \subseteq 0..255
  /\ {ExecIsRsync, E2BIGs, Signals, EarlyKill} \subseteq BOOLEAN

VARIABLES
  pc,          \* "idle", "launch", "wait" (the wait loop), "drain", "failed"
  nfiles,      \* queue.size()
  mem,         \* mem[f]: path_len() + 1 + sizeof(char *) of file f
  maxMem,      \* max_mem_usage_, kept from call to call
  dest,        \* destination_, kept from call to call
  procs,       \* the ids of the SyncProcess objects left in the list
  itr,         \* file_itr_ of each, as a position
  batch,       \* the files in payload_ of each
  sendTo,      \* the destination in payload_ of each
  pid,         \* pid_ of each
  execErr,     \* the shared page exec_error_ of the last launch of each
  sshFail,     \* ssh_fail_procs
  starting,    \* the processes whose sync_batch() call is still to be made
  kid,         \* the children not waited for yet, by pid
  delivered,   \* the files the sync program has transferred in this call
  snap,        \* the snapshot the files are read from exists
  status       \* what the status file says

procVars == <<procs, itr, batch, sendTo, pid, execErr>>
callVars == <<nfiles, mem>>
vars == <<pc, callVars, maxMem, dest, procVars, sshFail, starting, kid,
          delivered, snap, status>>

-----------------------------------------------------------------------------
(* The children.                                                           *)

NoKid == [st |-> "none", owner |-> 0, files |-> {}, to |-> 1, code |-> 0]

Live == {k \in Pids : kid[k].st # "none"}

\* launch_procs caps the number of processes between 1 and the number of files.
NumProcs == IF NProc < 1 THEN 1 ELSE IF NProc < nfiles THEN NProc ELSE nfiles

-----------------------------------------------------------------------------
(* consume(): file_itr_ advances by inc_ over the files that still fit.    *)
(* Any position past the end of the list is represented by nfiles.         *)

\* The files the iterator of process p passes from position i on.
Track(p, i) == {f \in i..nfiles-1 : f % NumProcs = p}

\* Fault: full_test() with > for >=.
FitsExactly(p, i, f) ==
  StartMem + SumFunctionOnSet(mem, {g \in Track(p, i) : g <= f}) <= maxMem

\* full_test() is false for the file at f, reached from i with an empty payload.
Fits(p, i, f) ==
  StartMem + SumFunctionOnSet(mem, {g \in Track(p, i) : g <= f}) < maxMem

\* Where file_itr_ comes to rest: at the first file that is too much, or past the end.
TooMuch(p, i) == {f \in Track(p, i) : ~Fits(p, i, f)}
Stop(p, i) ==
  IF TooMuch(p, i) = {} THEN nfiles
  ELSE CHOOSE f \in TooMuch(p, i) : \A g \in TooMuch(p, i) : f <= g

\* Fault: consume() advances the iterator before it adds the file.
TakenAfterAdvance(p, i) == {f \in Track(p, i) : i < f /\ f < Stop(p, i)}

\* What it has added to the payload on the way.
Taken(p, i) == {f \in Track(p, i) : f < Stop(p, i)}

\* Faults: done() looks one stride ahead; done() with > for >=.
DoneEarly(p) == itr[p] + NumProcs >= nfiles
DoneLate(p) == itr[p] > nfiles

Done(p) == itr[p] >= nfiles

-----------------------------------------------------------------------------
(* The constructor, the call and its end.                                  *)

Init ==
  /\ pc = "idle"
  /\ nfiles = 0 /\ mem = [f \in {} |-> 0]
  /\ maxMem = InitMaxMem
  /\ dest = 1
  /\ procs = {}
  /\ itr     = [p \in Ids |-> 0]
  /\ batch   = [p \in Ids |-> {}]
  /\ sendTo  = [p \in Ids |-> 1]
  /\ pid     = [p \in Ids |-> NoPid]
  /\ execErr = [p \in Ids |-> "none"]
  /\ sshFail = {} /\ starting = {}
  /\ kid = [k \in Pids |-> NoKid]
  /\ delivered = {}
  /\ snap = FALSE
  /\ status = "OK"

\* The crawler has made the snapshot and calls sync() with the n files it found.
Sync(n) ==
  /\ pc = "idle"
  /\ pc' = "launch"
  /\ nfiles' = n
  /\ mem' \in [0..n-1 -> PathMem]
  /\ delivered' = {}
  /\ snap' = TRUE
  /\ UNCHANGED <<maxMem, dest, procVars, sshFail, starting, kid, status>>

\* The while loop of handle_returned_procs ends: SYNC_SUCCESS, sync() returns.
Return ==
  /\ pc = "wait" /\ starting = {} /\ procs = {}
  /\ pc' = "idle"
  /\ UNCHANGED <<callVars, maxMem, dest, procVars, sshFail, starting, kid,
                 delivered, snap, status>>

\* Fault: sync() returns to the crawler on SYNC_FAILED.
FailReturns ==
  /\ pc' = "idle"
  /\ kid' = [k \in Pids |-> NoKid]
  /\ starting' = {} /\ sshFail' = {} /\ procs' = {}
  /\ UNCHANGED <<callVars, maxMem, dest, itr, batch, sendTo, pid, execErr, delivered,
                 snap, status>>

\* l::exit(EXIT_FAILURE): the status, delete_snap(), the end of the daemon.
\* Children still running are no longer anybody's to wait for.
Fail ==
  /\ pc' = "failed"
  /\ status' = "EXIT_FAILED"
  /\ snap' = FALSE
  /\ kid' = [k \in Pids |-> NoKid]
  /\ starting' = {} /\ sshFail' = {} /\ procs' = {}
  /\ UNCHANGED <<callVars, maxMem, dest, itr, batch, sendTo, pid, execErr, delivered>>

\* A new daemon: the constructor starts from the configuration again.
Restart ==
  /\ pc = "failed"
  /\ pc' = "idle"
  /\ nfiles' = 0 /\ mem' = [f \in {} |-> 0] /\ delivered' = {}
  /\ maxMem' = InitMaxMem /\ dest' = 1
  /\ status' = "OK"
  /\ UNCHANGED <<procVars, sshFail, starting, kid, snap>>

-----------------------------------------------------------------------------
(* launch_procs and sync_batch.                                            *)

\* Every process is constructed at its first file and consumes its first batch.
LaunchProcs ==
  /\ pc = "launch"
  /\ pc' = "wait"
  /\ procs' = 0..NumProcs-1
  /\ itr'     = [p \in Ids |-> IF p \in procs' THEN Stop(p, p) ELSE 0]
  /\ batch'   = [p \in Ids |-> IF p \in procs' THEN Taken(p, p) ELSE {}]
  /\ sendTo'  = [p \in Ids |-> dest]
  /\ pid'     = [p \in Ids |-> NoPid]
  /\ execErr' = [p \in Ids |-> "none"]
  /\ sshFail' = {}
  /\ starting' = procs'
  /\ UNCHANGED <<callVars, maxMem, dest, kid, delivered, snap, status>>

\* sync_batch(): a fresh shared page, then fork().  The order of several such
\* calls in a row is left open: none reads what another one writes.  The kernel
\* is taken not to give out again, within a call, a pid that an object still holds.
Fork(p, k) ==
  /\ p \in starting
  /\ kid[k].st = "none"
  /\ \A q \in procs : pid[q] # k
  /\ pid' = [pid EXCEPT ![p] = k]
  /\ execErr' = [execErr EXCEPT ![p] = "none"]
  /\ kid' = [kid EXCEPT ![k] =
       [st |-> "forked", owner |-> p, files |-> batch[p], to |-> sendTo[p], code |-> 0]]
  /\ starting' = starting \ {p}
  /\ UNCHANGED <<pc, callVars, maxMem, dest, procs, itr, batch, sendTo, sshFail,
                 delivered, snap, status>>

\* mmap() or fork() fails: the daemon ends, its other children run on.
ForkFails == starting # {} /\ Fail

-----------------------------------------------------------------------------
(* What a child does.  The parent's variables change only where they are   *)
(* shared: the page exec_error_, and the snapshot.                         *)

childUnchanged == <<pc, callVars, maxMem, dest, procs, itr, batch, sendTo, pid,
                    sshFail, starting>>

Exited(k, code) ==
  [kid EXCEPT ![k] = [st |-> "exited", owner |-> kid[k].owner, files |-> kid[k].files,
                      to |-> kid[k].to, code |-> code]]

Exec(k) ==
  /\ kid[k].st = "forked"
  /\ kid' = [kid EXCEPT ![k].st = "execed"]
  /\ UNCHANGED <<childUnchanged, execErr, delivered, snap, status>>

\* execvp() returns.  The page is the parent's exec_error_ for as long as the
\* process has not been launched again.
ExecFails(k, error) ==
  /\ kid[k].st = "forked"
  /\ error = "E2BIG" => E2BIGs
  /\ kid' = Exited(k, CHECK_SHMEM)
  /\ execErr' = IF pid[kid[k].owner] = k
                THEN [execErr EXCEPT ![kid[k].owner] = error] ELSE execErr
  /\ UNCHANGED <<childUnchanged, delivered, snap, status>>

\* The sync program exits: with 0 only when it has found and sent every file.
Exit(k, code, F) ==
  /\ kid[k].st = "execed"
  /\ F \subseteq kid[k].files
  /\ code = SUCCESS => F = kid[k].files /\ (snap \/ F = {})
  /\ kid' = Exited(k, code)
  /\ delivered' = delivered \cup F
  /\ UNCHANGED <<childUnchanged, execErr, snap, status>>

\* A signal from outside ends the sync program: WEXITSTATUS of its wait status
\* is then 0, which is all that the parent looks at.
Killed(k, F) ==
  /\ Signals
  /\ kid[k].st = "execed"
  /\ F \subseteq kid[k].files
  /\ kid' = Exited(k, 0)
  /\ delivered' = delivered \cup F
  /\ UNCHANGED <<childUnchanged, execErr, snap, status>>

-----------------------------------------------------------------------------
(* handle_returned_procs: wait() hands over an exited child, find_if the   *)
(* object that holds its pid, and the branches on the exit code are the    *)
(* actions below.  wait() is called again only when all the sync_batch()   *)
(* calls of the branch have been made.  There is always such an object     *)
(* (ChildrenKnown), so the branch for none has no action.                  *)

Wait == pc = "wait" /\ starting = {} /\ procs # {}

Returned(k, p) ==
  /\ Wait
  /\ kid[k].st = "exited"
  /\ p \in procs /\ pid[p] = k

Forget(k) == [kid EXCEPT ![k] = NoKid]

\* wait() is -1: every object left in the list waits in ssh_fail_procs.
NoChildren == Wait /\ Live = {} /\ Fail

\* Fault: ssh_fail_procs is not cleared after its processes are launched again.
SuccessKeepsAside(k, p) ==
  /\ Returned(k, p)
  /\ kid[k].code = SUCCESS
  /\ kid' = Forget(k)
  /\ procs' = IF Done(p) THEN procs \ {p} ELSE procs
  /\ itr' = [itr EXCEPT ![p] = Stop(p, itr[p])]
  /\ batch' = [batch EXCEPT ![p] = Taken(p, itr[p])]
  /\ starting' = sshFail \cup (procs' \cap {p})
  /\ UNCHANGED <<pc, callVars, maxMem, dest, sendTo, pid, execErr, sshFail, delivered,
                 snap, status>>

\* Exit code 0: the next batch, or the end of this process; and the processes
\* that failed to connect are tried again.
Success(k, p) ==
  /\ Returned(k, p)
  /\ kid[k].code = SUCCESS
  /\ kid' = Forget(k)
  /\ status' = "OK"
  /\ IF Done(p)
     THEN /\ procs' = procs \ {p}
          /\ batch' = [batch EXCEPT ![p] = {}]
          /\ starting' = sshFail
          /\ UNCHANGED <<itr, sendTo>>
     ELSE /\ itr' = [itr EXCEPT ![p] = Stop(p, itr[p])]
          /\ batch' = [batch EXCEPT ![p] = Taken(p, itr[p])]
          /\ sendTo' = [sendTo EXCEPT ![p] = dest]
          /\ starting' = sshFail \cup {p}
          /\ UNCHANGED procs
  /\ sshFail' = {}
  /\ UNCHANGED <<pc, callVars, maxMem, dest, pid, execErr, delivered, snap>>

ExecFailed(k, p) ==
  /\ Returned(k, p)
  /\ kid[k].code = CHECK_SHMEM
  /\ execErr[p] # "none"

\* E2BIG: SIGINT to the children of the other objects, then wait for all.  A
\* child that has not reset the handler yet runs the daemon's own: it deletes
\* the snapshot, sets the status and exits.
ArgsTooBig(k, p, early) ==
  /\ ExecFailed(k, p)
  /\ execErr[p] = "E2BIG"
  /\ early \subseteq {c \in Pids : kid[c].st = "forked" /\ \E q \in procs : pid[q] = c}
  /\ early # {} => EarlyKill
  /\ pc' = "drain"
  /\ kid' = [c \in Pids |-> IF c = k THEN NoKid
                            ELSE IF c \in early THEN Exited(c, 0)[c]
                            ELSE kid[c]]
  /\ snap' = (snap /\ early = {})
  /\ status' = IF early = {} THEN status ELSE "NOT_RUNNING"
  /\ UNCHANGED <<callVars, maxMem, dest, procVars, sshFail, starting, delivered>>

\* Any other errno: SYNC_FAILED.
ExecError(k, p) ==
  /\ ExecFailed(k, p)
  /\ execErr[p] # "E2BIG"
  /\ Fail

SyncError(k, p) ==
  /\ Returned(k, p)
  /\ kid[k].code # SUCCESS
  /\ ~(kid[k].code = CHECK_SHMEM /\ execErr[p] # "none")

\* "Trying batch again."
TryAgain(k, p) ==
  /\ SyncError(k, p)
  /\ kid[k].code \in Transient
  /\ ExecIsRsync
  /\ kid' = Forget(k)
  /\ starting' = {p}
  /\ UNCHANGED <<pc, callVars, maxMem, dest, procVars, sshFail, delivered, snap, status>>

\* Not an exit code to go on after: also PROTOCOL_STREAM from rsync when the
\* child's output says that the destination has none.
GiveUp(k, p) ==
  /\ SyncError(k, p)
  /\ kid[k].code # SSH_FAIL
  /\ kid[k].code \in Transient => (~ExecIsRsync \/ kid[k].code = PROTOCOL_STREAM)
  /\ Fail

\* Fault: the count that triggers failover is one too low.
LastToFailEarly(p) == Cardinality(sshFail \cup {p}) >= NumProcs - 1

\* Fault: the count that triggers failover is one too high.
LastToFailLate(p) == Cardinality(sshFail \cup {p}) > NumProcs

\* num_ssh_fails_to_inc is procs.size() on entry, and so NumProcs.
LastToFail(p) == Cardinality(sshFail \cup {p}) >= NumProcs

\* The process is put aside until another one succeeds or all have failed.
SshFails(k, p) ==
  /\ SyncError(k, p)
  /\ kid[k].code = SSH_FAIL
  /\ ~LastToFail(p)
  /\ kid' = Forget(k)
  /\ sshFail' = sshFail \cup {p}
  /\ UNCHANGED <<pc, callVars, maxMem, dest, procVars, starting, delivered, snap, status>>

\* Fault: the iterator runs past the last destination.
FailoverNoWrap(k, p) ==
  /\ SyncError(k, p)
  /\ kid[k].code = SSH_FAIL
  /\ LastToFail(p)
  /\ kid' = Forget(k)
  /\ dest' = dest + 1
  /\ sendTo' = [q \in Ids |-> IF q \in procs THEN dest' ELSE sendTo[q]]
  /\ sshFail' = {}
  /\ starting' = procs
  /\ UNCHANGED <<pc, callVars, maxMem, procs, itr, batch, pid, execErr, delivered, snap,
                 status>>

\* Fault: change_destination() is left out when the processes are restarted.
FailoverSameDest(k, p) ==
  /\ SyncError(k, p)
  /\ kid[k].code = SSH_FAIL
  /\ LastToFail(p)
  /\ kid' = Forget(k)
  /\ dest' = IF dest = NDests THEN 1 ELSE dest + 1
  /\ sshFail' = {}
  /\ starting' = procs
  /\ UNCHANGED <<pc, callVars, maxMem, procs, itr, batch, sendTo, pid, execErr, delivered,
                 snap, status>>

\* All have failed: the next destination, and change_destination() for all.
Failover(k, p) ==
  /\ SyncError(k, p)
  /\ kid[k].code = SSH_FAIL
  /\ LastToFail(p)
  /\ kid' = Forget(k)
  /\ status' = "HOST_DOWN"
  /\ dest' = IF dest = NDests THEN 1 ELSE dest + 1
  /\ sendTo' = [q \in Ids |-> IF q \in procs THEN dest' ELSE sendTo[q]]
  /\ sshFail' = {}
  /\ starting' = procs
  /\ UNCHANGED <<pc, callVars, maxMem, procs, itr, batch, pid, execErr, delivered, snap>>

-----------------------------------------------------------------------------
(* INC_HEADROOM.                                                           *)

\* while(wait(NULL) != -1): exit codes are not looked at.
Drain(k) ==
  /\ pc = "drain"
  /\ kid[k].st = "exited"
  /\ kid' = Forget(k)
  /\ UNCHANGED <<pc, callVars, maxMem, dest, procVars, sshFail, starting,
                 delivered, snap, status>>

\* Fault: the list is started again without waiting for the children to exit.
IncHeadroomNoWait ==
  /\ pc = "drain"
  /\ maxMem > Headroom * 2
  /\ maxMem' = maxMem - Headroom
  /\ procs' = {} /\ sshFail' = {}
  /\ pc' = "launch"
  /\ UNCHANGED <<callVars, dest, itr, batch, sendTo, pid, execErr, starting,
                 kid, delivered, snap, status>>

\* procs.clear(); sync() starts the whole list again with less room for it ...
IncHeadroom ==
  /\ pc = "drain" /\ Live = {}
  /\ maxMem > Headroom * 2
  /\ maxMem' = maxMem - Headroom
  /\ procs' = {} /\ sshFail' = {}
  /\ pc' = "launch"
  /\ UNCHANGED <<callVars, dest, itr, batch, sendTo, pid, execErr, starting,
                 kid, delivered, snap, status>>

\* ... or there is no more room to give.
OutOfRoom ==
  /\ pc = "drain" /\ Live = {}
  /\ maxMem <= Headroom * 2
  /\ Fail

-----------------------------------------------------------------------------
Errnos == {"E2BIG", "other"}

Parent ==
  \/ LaunchProcs
  \/ \E p \in Ids, k \in Pids : Fork(p, k)
  \/ Return
  \/ NoChildren
  \/ \E k \in Pids, p \in Ids :
        \/ Success(k, p)
        \/ \E early \in SUBSET Pids : ArgsTooBig(k, p, early)
        \/ ExecError(k, p)
        \/ TryAgain(k, p)
        \/ GiveUp(k, p)
        \/ SshFails(k, p)
        \/ Failover(k, p)
  \/ \E k \in Pids : Drain(k)
  \/ IncHeadroom
  \/ OutOfRoom

Child(k) ==
  \/ Exec(k)
  \/ \E error \in Errnos : ExecFails(k, error)
  \/ \E code \in ExitCodes, F \in SUBSET (0..nfiles-1) : Exit(k, code, F)

Next ==
  \/ \E n \in 1..MaxFiles : Sync(n)
  \/ Parent
  \/ ForkFails
  \/ \E k \in Pids : Child(k)
  \/ \E k \in Pids, F \in SUBSET (0..nfiles-1) : Killed(k, F)
  \/ Restart

Spec == Init /\ [][Next]_vars

-----------------------------------------------------------------------------
(* Fairness.  The parent does nothing but wait in wait(), and every child  *)
(* that has been forked executes the sync program or fails to, and exits.  *)
(* For sync() to end, each process must also succeed if it is tried often  *)
(* enough: transient errors and unreachable hosts do not last forever.     *)

Succeeds(p) ==
  \E k \in Pids, F \in SUBSET (0..nfiles-1) : kid[k].owner = p /\ Exit(k, SUCCESS, F)

FairSpec ==
  /\ Spec
  /\ WF_vars(Parent)
  /\ \A k \in Pids : WF_vars(Child(k))
  /\ \A p \in Ids : SF_vars(Succeeds(p))

-----------------------------------------------------------------------------
(* Properties.                                                             *)

KidType == [st : {"none", "forked", "execed", "exited"}, owner : Ids,
            files : SUBSET (0..MaxFiles-1), to : 1..NDests, code : 0..255]

\* Every variable has its type.
TypeOK ==
  /\ pc \in {"idle", "launch", "wait", "drain", "failed"}
  /\ nfiles \in 0..MaxFiles
  /\ pc \in {"launch", "wait", "drain"} => nfiles > 0
  /\ maxMem \in Nat
  /\ dest \in 1..NDests
  /\ procs \subseteq Ids
  /\ itr \in [Ids -> Nat]
  /\ batch \in [Ids -> SUBSET (0..MaxFiles-1)]
  /\ sendTo \in [Ids -> 1..NDests]
  /\ pid \in [Ids -> Pids \cup {NoPid}]
  /\ execErr \in [Ids -> Errnos \cup {"none"}]
  /\ sshFail \subseteq Ids /\ starting \subseteq Ids
  /\ kid \in [Pids -> KidType]
  /\ delivered \subseteq 0..nfiles-1
  /\ snap \in BOOLEAN
  /\ status \in {"OK", "NOT_RUNNING", "HOST_DOWN", "EXIT_FAILED"}

\* Bookkeeping of the children while the parent waits: every child that wait()
\* can return is found by find_if, in an object that is neither put aside after
\* an ssh failure nor about to be launched, and it carries that object's batch;
\* and every other object in the list is put aside or about to be launched.  So
\* no object has two children, and none is forgotten without one.
ChildrenKnown ==
  pc = "wait" =>
    /\ \A k \in Live : LET p == kid[k].owner IN
         /\ p \in procs /\ pid[p] = k
         /\ p \notin sshFail \cup starting
         /\ kid[k].files = batch[p]
    /\ \A p \in procs \ (sshFail \cup starting) : pid[p] \in Live /\ kid[pid[p]].owner = p

\* No file is with two running sync programs: two rsync writing one destination
\* file would race.  This spans retries, failover and E2BIG relaunches.
NoFileTwice ==
  \A j, k \in Live : j # k => kid[j].files \cap kid[k].files = {}

\* While the parent waits, every running child sends to the current destination:
\* failover never leaves one behind on the host that was given up.
FailoverCoherent ==
  pc = "wait" => \A k \in Live : kid[k].to = dest

\* A child's arguments stay below the limit in force: full_test() and the lower
\* limit after E2BIG keep every launch, retries included, in bounds.
BatchFits ==
  \A k \in Live : kid[k].files # {} =>
    StartMem + SumFunctionOnSet(mem, kid[k].files) < maxMem

\* Every file of the call is delivered, in the batch of a process in the list, or
\* ahead of such a process's iterator: reset(), erase() and consume() drop none.
NothingLost ==
  pc = "wait" => \A f \in 0..nfiles-1 : LET p == f % NumProcs IN
    \/ f \in delivered
    \/ p \in procs /\ (f \in batch[p] \/ f >= itr[p])

\* When sync() returns to the crawler, which then forgets that these files have
\* changed, the sync program has transferred every one of them.
SuccessMeansDelivered ==
  pc = "idle" => delivered = 0..nfiles-1

\* Every process that is left has failed to connect: that is when the next
\* destination must be tried, never a state to wait in ("increment destination
\* itr if all procs fail", syncer.cpp:297).
AllFailedMeansFailover ==
  pc = "wait" /\ starting = {} /\ procs # {} => sshFail # procs

\* What the code does keep to: with every process that is left put aside, the daemon
\* waits only if one of the call's processes has finished before.  As long as none has,
\* failover comes with the last failure, over retries, relaunches and earlier failovers.
FailoverInTime ==
  pc = "wait" /\ procs # {} /\ sshFail = procs => procs # 0..NumProcs-1

\* The snapshot that the files are read from is there until sync() has ended: the
\* daemon's handler deletes it as a "cleanup from termination" (signal.cpp:32).
SnapshotHeld ==
  pc \in {"launch", "wait", "drain"} => snap

\* The destination and the memory limit never change under a running child, and
\* in a call the destination changes only when every process of the call has failed
\* to connect, none of them having finished, and all are launched again.
QuietChange ==
  [][/\ maxMem' # maxMem \/ dest' # dest => Live' = {}
     /\ dest' # dest /\ pc = "wait" =>
          procs = 0..NumProcs-1 /\ starting' = procs /\ procs' = procs]_vars

\* A call ends: sync() returns or the daemon exits.
SyncEnds == pc = "launch" ~> pc \in {"idle", "failed"}

\* What the crawler sees of pc.
callState == CASE pc = "idle" -> "idle" [] pc = "failed" -> "failed" [] OTHER -> "syncing"

Contract == INSTANCE SyncContract WITH call <- callState, n <- nfiles

\* sync() keeps its promise to the crawler.
ImplementsContract == Contract!Spec
=============================================================================
