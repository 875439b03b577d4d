----------------------------- MODULE SyncOutput -----------------------------
(***************************************************************************)
(* What Syncer leaves out of sync_batch, reset, log_errors and the         *)
(* destructor of SyncProcess: the pipe that takes a child's stdout and     *)
(* stderr, and the daemon's table of file descriptors.                     *)
(*                                                                         *)
(* Every step is a step of Syncer, with its effect on the descriptors.     *)
(* New are the children's writes, which block when the pipe is full, and   *)
(* the parent's read in log_errors, which blocks until the last process    *)
(* that holds the write end has closed it: the child, or the ssh process   *)
(* that it has started and that may outlive it.                            *)
(***************************************************************************)
EXTENDS Syncer, FiniteSetsExt

CONSTANTS
  Fds,         \* the descriptor numbers that the daemon can have
  PipeSize,    \* how much a pipe holds
  Outputs      \* how much a sync program may write

ZeroFd == 0    \* Fault: the array is zeroed, and sync_batch() closes stdin.

NoFd == -1     \* pipefd_[0] before the first launch
Closed == <<>>
Log == <<"log">>

\* What the daemon may have open: the read or the write end of a child's pipe, and
\* the file of log_errors.
Ends == {"r", "w"} \X Pids

ASSUME OutputAssumption ==
  /\ Fds \subseteq Nat /\ IsFiniteSet(Fds)
  /\ Cardinality(Fds) >= Cardinality(Ids) + 1
  /\ PipeSize \in Nat
  /\ Outputs \subseteq Nat

VARIABLES
  fd,          \* what each descriptor number stands for
  pfd,         \* pipefd_[0] of each SyncProcess, which may be a closed number
  own,         \* the process that sync_batch() has to be called for first, if any
  unsent,      \* what each child has still to write
  level,       \* what its pipe holds
  helper,      \* the pids whose ssh process still has the write end
  reading      \* the exited child whose output log_errors is reading

ioVars == <<fd, pfd, own, unsent, level, helper, reading>>
allVars == <<vars, ioVars>>

NoOne == -1

InitOutput ==
  /\ Init
  /\ fd = [n \in Fds |-> Closed]
  /\ pfd = [p \in Ids |-> NoFd]
  /\ own = NoOne
  /\ unsent = [k \in Pids |-> 0] /\ level = unsent
  /\ helper = {} /\ reading = NoPid

-----------------------------------------------------------------------------
(* The table of descriptors.                                               *)

\* close(); closing a number that is not open changes nothing.
CloseFd(table, n) == IF n \in Fds THEN [table EXCEPT ![n] = Closed] ELSE table

\* Fault: sync_batch() forgets the pipe that it made before.
ForgetOld(table, n) == table

\* The read end that sync_batch() closes before it makes a new pipe.
CloseOld(table, n) == CloseFd(table, n)

\* open() and pipe() give out the lowest number that is free, and fail if there is none.
Lowest(table) ==
  LET free == {n \in Fds : table[n] = Closed} IN IF free = {} THEN NoFd ELSE Min(free)
Open(table, what) == [n \in Fds |-> IF n = Lowest(table) THEN what ELSE table[n]]

\* Nobody can write to the pipe of child k any more.
WritersGone(k) ==
  /\ kid[k].st \notin {"forked", "execed"}
  /\ k \notin helper
  /\ \A n \in Fds : fd[n] # <<"w", k>>

-----------------------------------------------------------------------------
(* The parent.                                                             *)

\* Fault: the parent does not close its copy of the write end after fork().
ParentKeepsEnd(table, k) == Open(table, <<"w", k>>)

\* In the parent close(pipefd_[1]) follows fork().
ParentEnds(table, k) == table

\* Fault: the processes put aside are launched before the one that has succeeded.
AnyTurn(p) == TRUE

\* Success() launches its own process before those that were put aside.
Turn(p) == own \in {NoOne, p}

\* Pids are interchangeable, so any that is free will do for the next child.
NextPid == CHOOSE k \in Pids : kid[k].st = "none" /\ \A q \in procs : pid[q] # k

\* sync_batch(), with what the sync program is going to write.
ForkPiped(p, k) ==
  /\ k = NextPid
  /\ Fork(p, k)
  /\ Turn(p)
  /\ LET free == CloseOld(fd, pfd[p]) IN
     /\ pfd' = [pfd EXCEPT ![p] = Lowest(free)]
     /\ fd' = ParentEnds(Open(free, <<"r", k>>), k)
  /\ own' = NoOne
  /\ \E size \in Outputs : unsent' = [unsent EXCEPT ![k] = size]
  /\ level' = [level EXCEPT ![k] = 0]
  /\ helper' = helper \ {k}
  /\ UNCHANGED reading

\* New objects, without a pipe.
LaunchUnpiped ==
  /\ LaunchProcs
  /\ pfd' = [p \in Ids |-> NoFd]
  /\ UNCHANGED <<fd, own, unsent, level, helper, reading>>

\* reset() closes the read end and keeps its number, which sync_batch() or the
\* destructor closes again.
SuccessPiped(k, p) ==
  /\ reading = NoPid
  /\ Success(k, p)
  /\ fd' = CloseFd(fd, pfd[p])
  /\ own' = IF p \in procs' THEN p ELSE NoOne
  /\ UNCHANGED <<pfd, unsent, level, helper, reading>>

\* log_errors() opens its file and reads the pipe ...
LogErrors(k, p) ==
  /\ reading = NoPid
  /\ SyncError(k, p)
  /\ reading' = k
  /\ fd' = Open(fd, Log)
  /\ UNCHANGED <<vars, pfd, own, unsent, level, helper>>

\* ... to its end, whatever pipe that is; reading a closed number is an error.  When
\* the file could not be opened nothing has been read.
OutputEnds(k, p) ==
  \/ reading = NoPid
  \/ reading = k /\ \A j \in Pids :
       pfd[p] \in Fds /\ fd[pfd[p]] = <<"r", j>> => WritersGone(j)

AfterLog(k, p) ==
  /\ OutputEnds(k, p)
  /\ fd' = [n \in Fds |-> IF fd[n] = Log THEN Closed ELSE fd[n]]
  /\ reading' = NoPid
  /\ TryAgain(k, p) \/ SshFails(k, p) \/ Failover(k, p)
  /\ UNCHANGED <<pfd, own, unsent, level, helper>>

\* The daemon exits.
Die ==
  /\ fd' = [n \in Fds |-> Closed]
  /\ pfd' = [p \in Ids |-> NoFd]
  /\ own' = NoOne
  /\ helper' = {} /\ reading' = NoPid
  /\ unsent' = [k \in Pids |-> 0] /\ level' = unsent'

GiveUpPiped(k, p) ==
  /\ OutputEnds(k, p)
  /\ GiveUp(k, p)
  /\ Die

TooBig(k, p) ==
  /\ reading = NoPid
  /\ \E early \in SUBSET Pids : ArgsTooBig(k, p, early)
  /\ UNCHANGED ioVars

\* Fault: procs.clear() does not close what its objects hold.
KeepAll(table) == table

\* The destructors of the objects in the list.
DestroyAll(table) ==
  [n \in Fds |-> IF \E p \in procs : pfd[p] = n THEN Closed ELSE table[n]]

RestartList ==
  /\ IncHeadroom
  /\ fd' = DestroyAll(fd)
  /\ UNCHANGED <<pfd, own, unsent, level, helper, reading>>

ParentPiped ==
  \/ LaunchUnpiped
  \/ \E p \in Ids, k \in Pids : ForkPiped(p, k)
  \/ Return /\ UNCHANGED ioVars
  \/ NoChildren /\ Die
  \/ \E k \in Pids, p \in Ids :
        \/ SuccessPiped(k, p)
        \/ TooBig(k, p)
        \/ reading = NoPid /\ ExecError(k, p) /\ Die
        \/ LogErrors(k, p)
        \/ AfterLog(k, p)
        \/ GiveUpPiped(k, p)
  \/ \E k \in Pids : Drain(k) /\ UNCHANGED ioVars
  \/ RestartList
  \/ OutOfRoom /\ Die

-----------------------------------------------------------------------------
(* The children.                                                           *)

\* A write to a pipe that has room.
WriteOut(k) ==
  /\ kid[k].st = "execed"
  /\ unsent[k] > 0 /\ level[k] < PipeSize
  /\ unsent' = [unsent EXCEPT ![k] = @ - 1]
  /\ level' = [level EXCEPT ![k] = @ + 1]
  /\ UNCHANGED <<vars, fd, pfd, own, helper, reading>>

\* The sync program ends when it has written all, or by the SIGINT that is sent
\* before the children are drained.  The ssh process of one that fails may live
\* longer.  Which files that one has sent matters to nobody here: none.  What the
\* pipe of an exited child still holds can no longer block anybody.
ExitPiped(k, code) ==
  /\ unsent[k] = 0 \/ pc = "drain"
  /\ Exit(k, code, IF code = SUCCESS THEN kid[k].files ELSE {})
  /\ unsent' = [unsent EXCEPT ![k] = 0]
  /\ level' = [level EXCEPT ![k] = 0]
  /\ helper' \in {helper} \cup (IF code = SUCCESS THEN {} ELSE {helper \cup {k}})
  /\ UNCHANGED <<fd, pfd, own, reading>>

HelperEnds(k) ==
  /\ k \in helper
  /\ helper' = helper \ {k}
  /\ UNCHANGED <<vars, fd, pfd, own, unsent, level, reading>>

ChildPiped(k) ==
  \/ Exec(k) /\ UNCHANGED ioVars
  \/ \E error \in Errnos : ExecFails(k, error) /\ UNCHANGED ioVars
  \/ WriteOut(k)
  \/ \E code \in ExitCodes : ExitPiped(k, code)

NextOutput ==
  \/ (\E n \in 1..MaxFiles : Sync(n)) /\ UNCHANGED ioVars
  \/ ParentPiped
  \/ ForkFails /\ Die
  \/ \E k \in Pids : ChildPiped(k) \/ HelperEnds(k)
  \/ Restart /\ UNCHANGED ioVars

SpecOutput == InitOutput /\ [][NextOutput]_allVars

\* As in Syncer; and an ssh process whose sync program is gone ends, too.
SucceedsPiped(p) ==
  \E k \in Pids : kid[k].owner = p /\ ExitPiped(k, SUCCESS)

FairSpecOutput ==
  /\ SpecOutput
  /\ WF_allVars(ParentPiped)
  /\ \A k \in Pids : WF_allVars(ChildPiped(k)) /\ WF_allVars(HelperEnds(k))
  /\ \A p \in Ids : SF_allVars(SucceedsPiped(p))

-----------------------------------------------------------------------------
(* Properties.                                                             *)

\* Every variable has its type; a process remembers no descriptor but of a pipe.
TypeOKOutput ==
  /\ fd \in [Fds -> Ends \cup {Closed, Log}]
  /\ pfd \in [Ids -> Fds \cup {-1}]
  /\ own \in Ids \cup {NoOne}
  /\ unsent \in [Pids -> Nat] /\ level \in [Pids -> 0..PipeSize]
  /\ helper \subseteq Pids
  /\ reading \in Pids \cup {NoPid}

\* While a child runs, the read end of its pipe is open under the number that its
\* object remembers: no close() of a number that was closed before and given out
\* again since, of which reset() leaves one behind, hits another process's pipe,
\* whose writer would die of SIGPIPE and whose output would be another's.
ReaderHeld ==
  \A k \in Live : kid[k].st \in {"forked", "execed"} =>
    \E p \in procs : kid[k].owner = p /\ pfd[p] \in Fds /\ fd[pfd[p]] = <<"r", k>>

\* At most one descriptor is open per process of the list, and none between two
\* calls, whichever ways the processes have gone, and the log file only while it is
\* written: a daemon that runs for months does not run out of descriptors.
NoLeak ==
  \A n \in Fds :
    /\ fd[n] \notin {Closed, Log} => \E p \in procs : pfd[p] = n
    /\ fd[n] = Log => reading # NoPid

\* A number for each end of a pipe is free whenever sync_batch() may be called, and one
\* for the log whenever log_errors() may be, however often batches have been sent again
\* before: the result of pipe() (syncProcess.cpp:120) is not looked at, and when it fails
\* the child writes to closed numbers and the parent reads from them.
RoomLeft ==
  LET free(table) == {n \in Fds : table[n] = Closed} IN
  /\ \A p \in starting : Turn(p) => Cardinality(free(CloseOld(fd, pfd[p]))) >= 2
  /\ pc = "wait" /\ starting = {} /\ reading = NoPid => free(fd) # {}
=============================================================================
