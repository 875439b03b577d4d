-------------------------- MODULE SyncOutputProofs --------------------------
(***************************************************************************)
(* SyncOutput refines Syncer, and its use of the descriptors is sound for  *)
(* every list, number of processes and size of the pipes: a running child  *)
(* never loses its reader, and no descriptor stays open without an owner.  *)
(***************************************************************************)
EXTENDS SyncOutput, SyncerProofs

-----------------------------------------------------------------------------
(* The inductive invariant.                                                *)

\* Who holds which number: an object in the list that has been launched holds the read
\* end of its own child's pipe, but for the one that has just been reset.
Held ==
  /\ \A p \in procs : p # own /\ pfd[p] # NoFd => fd[pfd[p]] = <<"r", pid[p]>>
  /\ own # NoOne => own \in starting /\ (pfd[own] # NoFd => fd[pfd[own]] = Closed)

\* A running child has been launched by an object that was not reset since.
Launched ==
  \A k \in Live : kid[k].owner # own /\ pfd[kid[k].owner] # NoFd

\* What is in the table is a read end or the log.
Table ==
  /\ \A n \in Fds : fd[n] \in {Closed, Log} \cup ({"r"} \X Pids)
  /\ reading # NoPid => pc = "wait" /\ starting = {} /\ procs # {}
  /\ pc = "launch" => procs = {}

Descriptors == TypeOKOutput /\ Held /\ Launched /\ Table /\ NoLeak

-----------------------------------------------------------------------------
(* The table.                                                              *)

LEMMA EndsDiffer ==
  /\ Log # Closed
  /\ \A k : <<"r", k>> # Closed /\ <<"r", k>> # Log
  /\ \A j, k : <<"r", j>> = <<"r", k>> => j = k
  /\ {"r"} \X Pids \subseteq Ends
BY DEF Log, Closed, Ends

LEMMA FdsAre == Fds \subseteq Nat /\ NoFd \notin Fds
BY OutputAssumption DEF NoFd

\* The lowest number that is free, if there is one.
LEMMA LowestIs ==
  ASSUME NEW table \in [Fds -> Ends \cup {Closed, Log}]
  PROVE  /\ Lowest(table) \in Fds \cup {NoFd}
         /\ Lowest(table) \in Fds => table[Lowest(table)] = Closed
         /\ (\E n \in Fds : table[n] = Closed) => Lowest(table) \in Fds
<1> DEFINE free == {n \in Fds : table[n] = Closed}
<1>1. free \subseteq Nat /\ Lowest(table) = IF free = {} THEN NoFd ELSE Min(free)
  BY FdsAre DEF Lowest
<1>2. CASE free = {}
  BY <1>1, <1>2, FdsAre
<1>3. CASE free # {}
  <2>1. \E x \in free : \A y \in free : x <= y
    <3> HIDE DEF free
    <3> QED BY <1>1, <1>3, LeastElement
  <2>2. Min(free) \in free
    <3> HIDE DEF free
    <3> QED BY <2>1 DEF Min
  <2> QED BY <1>1, <1>3, <2>2
<1> QED BY <1>2, <1>3

LEMMA OpenIs ==
  ASSUME NEW table \in [Fds -> Ends \cup {Closed, Log}], NEW what \in Ends \cup {Closed, Log}
  PROVE  /\ Open(table, what) \in [Fds -> Ends \cup {Closed, Log}]
         /\ \A n \in Fds : Open(table, what)[n] =
              IF n = Lowest(table) THEN what ELSE table[n]
BY DEF Open

LEMMA CloseFdIs ==
  ASSUME NEW table \in [Fds -> Ends \cup {Closed, Log}], NEW n
  PROVE  /\ CloseFd(table, n) \in [Fds -> Ends \cup {Closed, Log}]
         /\ \A m \in Fds : CloseFd(table, n)[m] = IF m = n THEN Closed ELSE table[m]
BY DEF CloseFd

-----------------------------------------------------------------------------
(* Refinement of Syncer.                                                   *)

LEMMA OutputStep ==
  ASSUME TypeOK, Bookkeeping, [NextOutput]_allVars
  PROVE  [Next]_vars
<1>1. CASE \E n \in 1..MaxFiles : Sync(n)
  BY <1>1 DEF Next
<1>2. CASE ParentPiped
  <2>1. CASE \E p \in Ids, k \in Pids : ForkPiped(p, k)
    BY <2>1 DEF ForkPiped, Next, Parent
  <2>2. CASE LaunchUnpiped \/ Return \/ NoChildren \/ RestartList \/ OutOfRoom
             \/ \E k \in Pids : Drain(k)
    BY <2>2 DEF LaunchUnpiped, RestartList, Next, Parent
  <2>3. ASSUME NEW k \in Pids, NEW p \in Ids,
               SuccessPiped(k, p) \/ TooBig(k, p) \/ ExecError(k, p) \/ AfterLog(k, p)
               \/ GiveUpPiped(k, p)
        PROVE  Next
    BY <2>3 DEF SuccessPiped, TooBig, AfterLog, GiveUpPiped, Next, Parent
  <2>4. ASSUME NEW k \in Pids, NEW p \in Ids, LogErrors(k, p)
        PROVE  UNCHANGED vars
    BY <2>4 DEF LogErrors
  <2> QED BY <1>2, <2>1, <2>2, <2>3, <2>4 DEF ParentPiped
<1>3. CASE ForkFails
  BY <1>3 DEF Next
<1>4. ASSUME NEW k \in Pids, ChildPiped(k)
      PROVE  [Next]_vars
  <2>1. CASE Exec(k) \/ \E error \in Errnos : ExecFails(k, error)
    BY <2>1 DEF Next, Child
  <2>2. CASE WriteOut(k)
    BY <2>2 DEF WriteOut
  <2>3. ASSUME NEW code \in ExitCodes, ExitPiped(k, code)
        PROVE  Next
    <3> DEFINE F == IF code = SUCCESS THEN kid[k].files ELSE {}
    <3>1. Exit(k, code, F) BY <2>3 DEF ExitPiped
    <3>2. kid[k].files \subseteq 0..nfiles-1
      <4>1. k \in Live BY <3>1 DEF Exit, Live
      <4>2. Active BY <4>1 DEF Bookkeeping, Quiet
      <4>3. kid[k].files = batch[kid[k].owner] /\ kid[k].owner \in procs /\ kid[k].owner \in Ids
        BY <4>1 DEF Bookkeeping, Shares, TypeOK
      <4>4. batch[kid[k].owner] \subseteq 0..MaxFiles-1
        BY <4>3 DEF TypeOK
      <4>5. \A f \in kid[k].files : f < nfiles /\ f \in 0..MaxFiles-1
        BY <4>2, <4>3, <4>4 DEF Bookkeeping, Shares
      <4> QED BY <4>5, SyncerAssumption DEF TypeOK
    <3>3. F \in SUBSET (0..nfiles-1)
      BY <3>2
    <3> HIDE DEF F
    <3> QED BY <3>1, <3>3 DEF Next, Child
  <2> QED BY <1>4, <2>1, <2>2, <2>3 DEF ChildPiped
<1>5. CASE \E k \in Pids : HelperEnds(k)
  BY <1>5 DEF HelperEnds
<1>6. CASE Restart
  BY <1>6 DEF Next
<1>7. CASE UNCHANGED allVars
  BY <1>7 DEF allVars
<1> QED BY <1>1, <1>2, <1>3, <1>4, <1>5, <1>6, <1>7 DEF NextOutput

-----------------------------------------------------------------------------
(* The descriptors.                                                        *)

\* What the invariants of Syncer say here.
LEMMA Known ==
  ASSUME TypeOK, Bookkeeping
  PROVE  /\ \A k \in Live : k \in Pids /\ kid[k].owner \in procs /\ pid[kid[k].owner] = k
         /\ \A p \in procs : p \in Ids /\ pid[p] \in Pids \cup {NoPid}
         /\ \A p \in Ids : p \in Nat /\ p # NoOne
         /\ pc # "wait" => starting = {}
         /\ ~ Active => Live = {}
         /\ pc \in {"idle", "failed"} => procs = {}
         /\ starting \subseteq procs
         /\ NoPid \notin Pids
BY SyncerAssumption DEF Bookkeeping, Quiet, Lists, Shares, TypeOK, Live, NoOne, Ids

\* Two objects that hold a number hold two.
LEMMA OwnNumbers ==
  ASSUME TypeOK, Bookkeeping, Descriptors,
         NEW p \in procs, NEW q \in procs, p # q, pfd[p] = pfd[q], pfd[p] # NoFd
  PROVE  FALSE
<1>1. pfd[p] \in Fds /\ pfd[q] \in Fds
  BY Known DEF Descriptors, TypeOKOutput, NoFd
<1>2. CASE p = own \/ q = own
  <2>1. fd[pfd[p]] = Closed
    BY <1>2, Known DEF Descriptors, Held
  <2>2. fd[pfd[p]] = <<"r", pid[p]>> \/ fd[pfd[p]] = <<"r", pid[q]>>
    BY <1>2 DEF Descriptors, Held
  <2> QED BY <2>1, <2>2, EndsDiffer
<1>3. CASE p # own /\ q # own
  <2>1. fd[pfd[p]] = <<"r", pid[p]>> /\ fd[pfd[p]] = <<"r", pid[q]>>
    BY <1>3 DEF Descriptors, Held
  <2>2. pid[p] = pid[q]
    BY <2>1, EndsDiffer
  <2>3. pid[p] = NoPid
    BY <2>2 DEF Bookkeeping, Lists
  <2>4. fd[pfd[p]] \in {Closed, Log} \cup ({"r"} \X Pids)
    BY <1>1 DEF Descriptors, Table
  <2>5. PICK k \in Pids : fd[pfd[p]] = <<"r", k>>
    BY <2>1, <2>4, EndsDiffer
  <2> QED BY <2>1, <2>3, <2>5, EndsDiffer, Known
<1> QED BY <1>2, <1>3

\* If all that is open is what some objects remember, the rest is free.
LEMMA FreeNumbers ==
  ASSUME NEW table, NEW H, IsFiniteSet(H),
         \A n \in Fds : table[n] # Closed => \E q \in H : pfd[q] = n
  PROVE  LET free == {n \in Fds : table[n] = Closed} IN
         /\ IsFiniteSet(free) /\ Cardinality(free) \in Nat
         /\ Cardinality(free) >= Cardinality(Fds) - Cardinality(H)
<1> DEFINE free == {n \in Fds : table[n] = Closed}
           held == [q \in H |-> pfd[q]]
           S == {pfd[q] : q \in H}
<1>1. IsFiniteSet(S) /\ Cardinality(S) <= Cardinality(H)
  <2>1. held \in Surjection(H, S)
    BY DEF Surjection
  <2> QED BY <2>1, FS_Surjection
<1>2. Fds \ S \subseteq free /\ free \subseteq Fds
  OBVIOUS
<1>3. Cardinality(Fds \ S) = Cardinality(Fds) - Cardinality(Fds \cap S) /\ IsFiniteSet(Fds \ S)
  BY FS_Difference, OutputAssumption
<1>4. IsFiniteSet(Fds \cap S) /\ Cardinality(Fds \cap S) <= Cardinality(S)
  BY <1>1, FS_Subset
<1>5. IsFiniteSet(free) /\ Cardinality(Fds \ S) <= Cardinality(free)
  <2>1. IsFiniteSet(free)
    BY <1>2, FS_Subset, OutputAssumption
  <2> QED BY <1>2, <2>1, FS_Subset
<1>6. /\ Cardinality(Fds) \in Nat /\ Cardinality(Fds \cap S) \in Nat /\ Cardinality(S) \in Nat
      /\ Cardinality(H) \in Nat /\ Cardinality(free) \in Nat /\ Cardinality(Fds \ S) \in Nat
  BY <1>1, <1>3, <1>4, <1>5, FS_CardinalityType, OutputAssumption
<1> QED BY <1>1, <1>3, <1>4, <1>5, <1>6

LEMMA IdsFinite == IsFiniteSet(Ids) /\ Cardinality(Ids) \in Nat
<1>1. CASE NProc > 1
  BY <1>1, FS_Interval, FS_CardinalityType, SyncerAssumption DEF Ids
<1>2. CASE ~ (NProc > 1)
  BY <1>2, FS_Singleton, FS_CardinalityType DEF Ids
<1> QED BY <1>1, <1>2

\* One number more than there are objects is enough: when an object makes a new pipe its
\* own old one is closed, and the others hold one number each.
LEMMA RoomAlways ==
  ASSUME TypeOK, Bookkeeping, Descriptors
  PROVE  RoomLeft
<1>1. Cardinality(Fds) \in Nat /\ procs \subseteq Ids /\ starting \subseteq procs
  BY Known, FS_CardinalityType, OutputAssumption
<1>2. ASSUME NEW p \in starting
      PROVE  Cardinality({n \in Fds : CloseOld(fd, pfd[p])[n] = Closed}) >= 2
  <2> DEFINE table == CloseOld(fd, pfd[p])
             H == Ids \ {p}
  <2>1. p \in Ids /\ p \in procs /\ reading = NoPid
    BY <1>1, <1>2 DEF Descriptors, Table
  <2>2. IsFiniteSet(H) /\ Cardinality(H) = Cardinality(Ids) - 1
    BY <2>1, IdsFinite, FS_RemoveElement
  <2>3. ASSUME NEW n \in Fds, table[n] # Closed PROVE \E q \in H : pfd[q] = n
    <3>1. n # pfd[p] /\ fd[n] # Closed
      BY <2>3, CloseFdIs DEF CloseOld, Descriptors, TypeOKOutput
    <3>2. fd[n] # Log
      BY <2>1 DEF Descriptors, NoLeak
    <3>3. PICK q \in procs : pfd[q] = n
      BY <3>1, <3>2 DEF Descriptors, NoLeak
    <3> QED BY <1>1, <3>1, <3>3
  <2> HIDE DEF table, H
  <2>4. /\ Cardinality({n \in Fds : table[n] = Closed}) \in Nat
        /\ Cardinality({n \in Fds : table[n] = Closed}) >= Cardinality(Fds) - Cardinality(H)
    BY <2>2, <2>3, FreeNumbers
  <2>5. Cardinality({n \in Fds : table[n] = Closed}) >= 2
    BY <1>1, <2>2, <2>4, IdsFinite, OutputAssumption
  <2> QED BY <2>5 DEF table
<1>3. ASSUME reading = NoPid
      PROVE  {n \in Fds : fd[n] = Closed} # {}
  <2>1. \A n \in Fds : fd[n] # Closed => \E q \in Ids : pfd[q] = n
    BY <1>1, <1>3 DEF Descriptors, NoLeak
  <2>2. Cardinality({n \in Fds : fd[n] = Closed}) >= Cardinality(Fds) - Cardinality(Ids)
    BY <2>1, IdsFinite, FreeNumbers
  <2>3. CASE {n \in Fds : fd[n] = Closed} = {}
    BY <1>1, <2>2, <2>3, IdsFinite, FS_EmptySet, OutputAssumption
  <2> QED BY <2>3
<1> QED BY <1>2, <1>3 DEF RoomLeft

LEMMA ForkDescriptors ==
  ASSUME TypeOK, Bookkeeping, Descriptors, NEW p \in Ids, NEW k \in Pids, ForkPiped(p, k)
  PROVE  Descriptors'
<1> USE DEF callVars, procVars
<1> DEFINE free == CloseFd(fd, pfd[p])
           new == Lowest(free)
<1>1. /\ p \in starting /\ pc = "wait" /\ procs # {} /\ p \in procs /\ reading = NoPid
      /\ own \in {NoOne, p} /\ kid[k].st = "none" /\ k \notin Live
  BY Known DEF ForkPiped, Fork, Turn, Descriptors, Table, Live
<1>2. /\ pc' = pc /\ procs' = procs /\ pid' = [pid EXCEPT ![p] = k]
      /\ starting' = starting \ {p} /\ reading' = reading /\ own' = NoOne
      /\ pfd' = [pfd EXCEPT ![p] = new] /\ fd' = Open(free, <<"r", k>>)
      /\ kid' = [kid EXCEPT ![k] = [st |-> "forked", owner |-> p, files |-> batch[p],
                                    to |-> sendTo[p], code |-> 0]]
  BY DEF ForkPiped, Fork, CloseOld, ParentEnds
<1>3. /\ free \in [Fds -> Ends \cup {Closed, Log}]
      /\ \A n \in Fds : free[n] = IF n = pfd[p] THEN Closed ELSE fd[n]
  BY CloseFdIs DEF Descriptors, TypeOKOutput
<1>4. new \in Fds /\ free[new] = Closed
  <2>1. \E n \in Fds : free[n] = Closed
    <3>1. RoomLeft /\ Turn(p) /\ p \in starting
      BY <1>1, RoomAlways DEF Turn
    <3>2. Cardinality({n \in Fds : free[n] = Closed}) >= 2
      BY <3>1 DEF RoomLeft, CloseOld
    <3>3. {n \in Fds : free[n] = Closed} # {}
      <4> HIDE DEF free
      <4> QED BY <3>2, FS_EmptySet
    <3> QED BY <3>3
  <2> HIDE DEF free
  <2> QED BY <1>3, <2>1, LowestIs
<1>5. /\ fd' \in [Fds -> Ends \cup {Closed, Log}]
      /\ \A n \in Fds : fd'[n] = IF n = new THEN <<"r", k>> ELSE free[n]
  <2>1. <<"r", k>> \in Ends BY DEF Ends
  <2> HIDE DEF free
  <2> QED BY <1>2, <1>3, <2>1, OpenIs
<1> HIDE DEF free, new
<1>6. TypeOKOutput'
  <2>1. pfd' \in [Ids -> Fds \cup {-1}]
    BY <1>2, <1>4 DEF Descriptors, TypeOKOutput
  <2>2. unsent' \in [Pids -> Nat] /\ level' \in [Pids -> 0..PipeSize] /\ helper' \subseteq Pids
    BY OutputAssumption DEF ForkPiped, Descriptors, TypeOKOutput
  <2> QED BY <1>2, <1>5, <2>1, <2>2 DEF Descriptors, TypeOKOutput
<1>7. ASSUME NEW q \in procs, q # p, pfd[q] # NoFd
      PROVE  pfd[q] \in Fds /\ pfd[q] # pfd[p] /\ pfd[q] # new /\ fd'[pfd[q]] = fd[pfd[q]]
             /\ fd[pfd[q]] = <<"r", pid[q]>>
  <2>1. pfd[q] \in Fds
    BY <1>7, Known DEF Descriptors, TypeOKOutput, NoFd
  <2>2. fd[pfd[q]] = <<"r", pid[q]>>
    BY <1>1, <1>7, Known DEF Descriptors, Held
  <2>3. pfd[q] # pfd[p]
    BY <1>1, <1>7, OwnNumbers
  <2>4. pfd[q] # new
    BY <1>3, <1>4, <2>1, <2>2, <2>3, EndsDiffer
  <2> QED BY <1>3, <1>5, <2>1, <2>2, <2>3, <2>4
<1>8. pfd'[p] = new /\ \A q \in Ids \ {p} : pfd'[q] = pfd[q] /\ pid'[q] = pid[q]
  BY <1>2 DEF Descriptors, TypeOKOutput, TypeOK
<1>9. Held'
  <2>1. pid'[p] = k BY <1>2 DEF TypeOK
  <2>2. ASSUME NEW q \in procs, pfd'[q] # NoFd
        PROVE  fd'[pfd'[q]] = <<"r", pid'[q]>>
    <3>1. CASE q = p BY <1>4, <1>5, <1>8, <2>1, <3>1
    <3>2. CASE q # p BY <1>7, <1>8, <2>2, <3>2, Known
    <3> QED BY <3>1, <3>2
  <2> QED BY <1>2, <2>2 DEF Held
<1>10. Launched'
  <2>1. /\ \A j \in Live' : j = k \/ (j \in Live /\ kid'[j] = kid[j])
        /\ kid'[k].owner = p
    BY <1>2 DEF Live, TypeOK
  <2> QED BY <1>1, <1>2, <1>4, <1>8, <2>1, Known, FdsAre DEF Descriptors, Launched
<1>11. Table'
  <2>1. <<"r", k>> \in {"r"} \X Pids OBVIOUS
  <2>2. \A n \in Fds : fd'[n] \in {Closed, Log} \cup ({"r"} \X Pids)
    BY <1>3, <1>5, <2>1 DEF Descriptors, Table
  <2> QED BY <1>1, <1>2, <2>2 DEF Table
<1>12. NoLeak'
  <2>1. ASSUME NEW n \in Fds, fd'[n] \notin {Closed, Log}
        PROVE  \E q \in procs' : pfd'[q] = n
    <3>1. CASE n = new BY <1>1, <1>2, <1>8, <3>1
    <3>2. CASE n # new
      <4>1. fd[n] \notin {Closed, Log} /\ n # pfd[p]
        BY <1>3, <1>5, <2>1, <3>2
      <4>2. PICK q \in procs : pfd[q] = n
        BY <4>1 DEF Descriptors, NoLeak
      <4> QED BY <1>2, <1>8, <4>1, <4>2, Known
    <3> QED BY <3>1, <3>2
  <2>2. ASSUME NEW n \in Fds, fd'[n] = Log PROVE FALSE
    BY <1>1, <1>3, <1>5, <2>2, EndsDiffer DEF Descriptors, NoLeak
  <2> QED BY <2>1, <2>2 DEF NoLeak
<1> QED BY <1>6, <1>9, <1>10, <1>11, <1>12 DEF Descriptors

\* The daemon exits: nothing is open, and nobody is left to hold anything.
LEMMA DieDescriptors ==
  ASSUME TypeOK, Descriptors, Fail, Die
  PROVE  Descriptors'
<1>1. /\ fd' = [n \in Fds |-> Closed] /\ pfd' = [p \in Ids |-> NoFd] /\ own' = NoOne
      /\ helper' = {} /\ reading' = NoPid
      /\ unsent' = [k \in Pids |-> 0] /\ level' = [k \in Pids |-> 0]
      /\ pc' = "failed" /\ procs' = {}
  BY DEF Die, Fail
<1>2. Live' = {}
  BY NoKidType DEF Fail, Live
<1>3. TypeOKOutput'
  BY <1>1, OutputAssumption DEF TypeOKOutput, NoFd
<1> QED BY <1>1, <1>2, <1>3, EndsDiffer DEF Descriptors, Held, Launched, Table, NoLeak

\* A step after which every object, pid and number is as before.
LEMMA FrameDescriptors ==
  ASSUME TypeOK, Bookkeeping, Descriptors,
         UNCHANGED <<fd, pfd, own, reading>>, TypeOKOutput',
         procs' = procs, pid' = pid,
         own \in starting => own \in starting',
         reading # NoPid => pc' = pc /\ starting' = starting,
         pc' = "launch" => procs = {},
         \A k \in Live' : k \in Live /\ kid'[k].owner = kid[k].owner
  PROVE  Descriptors'
<1>1. Held' /\ Launched' /\ NoLeak'
  BY DEF Descriptors, Held, Launched, NoLeak
<1>2. Table'
  BY DEF Descriptors, Table
<1> QED BY <1>1, <1>2 DEF Descriptors

LEMMA ChildDescriptors ==
  ASSUME TypeOK, Bookkeeping, Descriptors,
         NEW k \in Pids, ChildPiped(k) \/ HelperEnds(k)
  PROVE  Descriptors'
<1>1. UNCHANGED <<fd, pfd, own, reading, pc, procs, pid, starting>>
  BY DEF ChildPiped, Exec, ExecFails, WriteOut, ExitPiped, Exit, HelperEnds,
         childUnchanged, ioVars, vars, procVars
<1>2. \A j \in Live' : j \in Live /\ kid'[j].owner = kid[j].owner
  <2>1. kid' = kid \/ (k \in Live /\ (kid' = [kid EXCEPT ![k].st = "execed"]
                                       \/ \E code : kid' = Exited(k, code)))
    BY DEF ChildPiped, Exec, ExecFails, WriteOut, ExitPiped, Exit, HelperEnds, vars, Live
  <2>2. CASE kid' = kid BY <2>2 DEF Live
  <2>3. CASE k \in Live /\ kid' = [kid EXCEPT ![k].st = "execed"]
    BY <2>3 DEF Live, TypeOK
  <2>4. ASSUME k \in Live, NEW code, kid' = Exited(k, code)
        PROVE  \A j \in Live' : j \in Live /\ kid'[j].owner = kid[j].owner
    BY <2>4 DEF Live, TypeOK, Exited
  <2> QED BY <2>1, <2>2, <2>3, <2>4
<1>3. TypeOKOutput'
  <2>1. CASE UNCHANGED ioVars
    BY <2>1 DEF ioVars, Descriptors, TypeOKOutput
  <2>2. CASE WriteOut(k)
    <3>1. unsent[k] \in Nat /\ level[k] \in 0..PipeSize /\ PipeSize \in Nat
          /\ unsent[k] > 0 /\ level[k] < PipeSize
      BY <2>2, OutputAssumption DEF WriteOut, Descriptors, TypeOKOutput
    <3>2. unsent[k] - 1 \in Nat /\ level[k] + 1 \in 0..PipeSize
      BY <3>1
    <3>3. unsent' \in [Pids -> Nat] /\ level' \in [Pids -> 0..PipeSize]
      BY <2>2, <3>2 DEF WriteOut, Descriptors, TypeOKOutput
    <3> QED BY <2>2, <3>3 DEF WriteOut, Descriptors, TypeOKOutput
  <2>3. ASSUME NEW code \in ExitCodes, ExitPiped(k, code) PROVE TypeOKOutput'
    <3>1. /\ unsent' = [unsent EXCEPT ![k] = 0] /\ level' = [level EXCEPT ![k] = 0]
          /\ helper' \subseteq Pids /\ UNCHANGED <<fd, pfd, own, reading>>
      BY <2>3 DEF ExitPiped, Descriptors, TypeOKOutput
    <3> QED BY <3>1, OutputAssumption DEF Descriptors, TypeOKOutput
  <2>4. CASE HelperEnds(k)
    BY <2>4 DEF HelperEnds, Descriptors, TypeOKOutput
  <2> QED BY <2>1, <2>2, <2>3, <2>4 DEF ChildPiped
<1>4. pc' = "launch" => procs = {}
  BY <1>1 DEF Descriptors, Table
<1> QED BY <1>1, <1>2, <1>3, <1>4, FrameDescriptors

LEMMA SuccessDescriptors ==
  ASSUME TypeOK, Bookkeeping, Descriptors,
         NEW k \in Pids, NEW p \in Ids, SuccessPiped(k, p)
  PROVE  Descriptors'
<1> USE DEF callVars, procVars
<1>1. /\ reading = NoPid /\ reading' = NoPid /\ pc = "wait" /\ pc' = "wait"
      /\ p \in procs /\ pid[p] = k /\ pid' = pid /\ pfd' = pfd /\ starting = {}
      /\ kid' = Forget(k) /\ fd' = CloseFd(fd, pfd[p])
      /\ own' = IF p \in procs' THEN p ELSE NoOne
      /\ UNCHANGED <<unsent, level, helper>>
  BY DEF SuccessPiped, Success, Returned, Wait
<1>2. \/ procs' = procs \ {p}
      \/ procs' = procs /\ p \in starting'
  BY DEF SuccessPiped, Success
<1>3. own = NoOne
  BY <1>1 DEF Descriptors, Held
<1>4. /\ fd' \in [Fds -> Ends \cup {Closed, Log}]
      /\ \A n \in Fds : fd'[n] = IF n = pfd[p] THEN Closed ELSE fd[n]
  BY <1>1, CloseFdIs DEF Descriptors, TypeOKOutput
<1>5. TypeOKOutput'
  BY <1>1, <1>4 DEF Descriptors, TypeOKOutput
<1>6. ASSUME NEW q \in procs, q # p, pfd[q] # NoFd
      PROVE  pfd[q] \in Fds /\ pfd[q] # pfd[p] /\ fd'[pfd[q]] = <<"r", pid[q]>>
  <2>1. pfd[q] \in Fds
    BY <1>6, Known DEF Descriptors, TypeOKOutput, NoFd
  <2>2. fd[pfd[q]] = <<"r", pid[q]>>
    BY <1>3, <1>6, Known DEF Descriptors, Held
  <2>3. pfd[q] # pfd[p]
    BY <1>1, <1>6, OwnNumbers
  <2> QED BY <1>4, <2>1, <2>2, <2>3
<1>7. Held'
  <2>1. ASSUME NEW q \in procs', q # own', pfd'[q] # NoFd
        PROVE  fd'[pfd'[q]] = <<"r", pid'[q]>>
    BY <1>1, <1>2, <1>6, <2>1
  <2>2. pfd[p] # NoFd => fd'[pfd[p]] = Closed
    BY <1>4 DEF Descriptors, TypeOKOutput, NoFd
  <2> QED BY <1>1, <1>2, <2>1, <2>2, Known DEF Held
<1>8. Launched'
  <2>1. \A j \in Live' : j \in Live /\ j # k /\ kid'[j] = kid[j]
    BY <1>1, ForgetLive
  <2>2. \A j \in Live' : kid[j].owner # p
    BY <1>1, <2>1, Known
  <2> QED BY <1>1, <2>1, <2>2, Known DEF Descriptors, Launched
<1>9. Table'
  BY <1>1, <1>4 DEF Descriptors, Table
<1>10. NoLeak'
  <2>1. ASSUME NEW n \in Fds, fd'[n] \notin {Closed, Log} PROVE \E q \in procs' : pfd'[q] = n
    <3>1. fd[n] \notin {Closed, Log} /\ n # pfd[p]
      BY <1>4, <2>1
    <3>2. PICK q \in procs : pfd[q] = n
      BY <3>1 DEF Descriptors, NoLeak
    <3> QED BY <1>1, <1>2, <3>1, <3>2
  <2>2. ASSUME NEW n \in Fds, fd'[n] = Log PROVE FALSE
    BY <1>1, <1>4, <2>2, EndsDiffer DEF Descriptors, NoLeak
  <2> QED BY <2>1, <2>2 DEF NoLeak
<1> QED BY <1>5, <1>7, <1>8, <1>9, <1>10 DEF Descriptors

\* log_errors: the log gets a number that is nobody's.
LEMMA LogDescriptors ==
  ASSUME TypeOK, Bookkeeping, Descriptors,
         NEW k \in Pids, NEW p \in Ids, LogErrors(k, p)
  PROVE  Descriptors'
<1>1. /\ reading = NoPid /\ reading' = k /\ pc = "wait" /\ starting = {} /\ procs # {}
      /\ fd' = Open(fd, Log) /\ UNCHANGED <<vars, pfd, own, unsent, level, helper>>
  BY DEF LogErrors, SyncError, Returned, Wait
<1>2. UNCHANGED <<pc, procs, pid, starting, kid>>
  BY <1>1 DEF vars, procVars
<1>3. /\ fd' \in [Fds -> Ends \cup {Closed, Log}]
      /\ \A n \in Fds : fd'[n] = fd[n] \/ (fd[n] = Closed /\ fd'[n] = Log)
  <2>1. Log \in Ends \cup {Closed, Log} /\ fd \in [Fds -> Ends \cup {Closed, Log}]
    BY DEF Descriptors, TypeOKOutput
  <2> QED BY <1>1, <2>1, OpenIs, LowestIs
<1>4. own = NoOne /\ k # NoPid
  BY <1>1, Known DEF Descriptors, Held
<1>5. TypeOKOutput'
  BY <1>1, <1>3 DEF Descriptors, TypeOKOutput
<1>6. Held'
  <2>1. ASSUME NEW q \in procs, pfd[q] # NoFd PROVE fd'[pfd[q]] = <<"r", pid[q]>>
    <3>1. pfd[q] \in Fds /\ fd[pfd[q]] = <<"r", pid[q]>>
      BY <1>4, <2>1, Known DEF Descriptors, TypeOKOutput, NoFd, Held
    <3> QED BY <1>3, <3>1, EndsDiffer
  <2> QED BY <1>1, <1>2, <1>4, <2>1 DEF Held
<1>7. Launched'
  BY <1>1, <1>2 DEF Descriptors, Launched, Live
<1>8. Table'
  BY <1>1, <1>2, <1>3 DEF Descriptors, Table
<1>9. NoLeak'
  BY <1>1, <1>2, <1>3, <1>4 DEF Descriptors, NoLeak
<1> QED BY <1>5, <1>6, <1>7, <1>8, <1>9 DEF Descriptors

LEMMA AfterLogDescriptors ==
  ASSUME TypeOK, Bookkeeping, Descriptors,
         NEW k \in Pids, NEW p \in Ids, AfterLog(k, p)
  PROVE  Descriptors'
<1> USE DEF callVars, procVars
<1>1. /\ reading' = NoPid /\ pc = "wait" /\ pc' = "wait" /\ starting = {}
      /\ fd' = [n \in Fds |-> IF fd[n] = Log THEN Closed ELSE fd[n]]
      /\ UNCHANGED <<pfd, own, unsent, level, helper, procs, pid>> /\ kid' = Forget(k)
  BY DEF AfterLog, TryAgain, SshFails, Failover, SyncError, Returned, Wait
<1>2. own = NoOne
  BY <1>1 DEF Descriptors, Held
<1>3. fd' \in [Fds -> Ends \cup {Closed, Log}]
  BY <1>1 DEF Descriptors, TypeOKOutput
<1>4. TypeOKOutput'
  BY <1>1, <1>3 DEF Descriptors, TypeOKOutput
<1>5. Held'
  <2>1. ASSUME NEW q \in procs, pfd[q] # NoFd PROVE fd'[pfd[q]] = <<"r", pid[q]>>
    <3>1. pfd[q] \in Fds /\ fd[pfd[q]] = <<"r", pid[q]>>
      BY <1>2, <2>1, Known DEF Descriptors, TypeOKOutput, NoFd, Held
    <3> QED BY <1>1, <3>1, EndsDiffer
  <2> QED BY <1>1, <1>2, <2>1 DEF Held
<1>6. Launched'
  <2>1. \A j \in Live' : j \in Live /\ kid'[j] = kid[j]
    BY <1>1, ForgetLive
  <2> QED BY <1>1, <2>1 DEF Descriptors, Launched
<1>7. Table'
  BY <1>1 DEF Descriptors, Table
<1>8. NoLeak'
  BY <1>1, EndsDiffer DEF Descriptors, NoLeak
<1> QED BY <1>4, <1>5, <1>6, <1>7, <1>8 DEF Descriptors

\* New objects hold nothing, and nothing is left of old ones.
LEMMA LaunchDescriptors ==
  ASSUME TypeOK, Bookkeeping, Descriptors, LaunchUnpiped
  PROVE  Descriptors'
<1> USE DEF callVars, procVars
<1>1. /\ pc = "launch" /\ pc' = "wait" /\ kid' = kid /\ pfd' = [p \in Ids |-> NoFd]
      /\ UNCHANGED <<fd, own, unsent, level, helper, reading>>
  BY DEF LaunchUnpiped, LaunchProcs
<1>2. procs = {} /\ reading = NoPid /\ own = NoOne /\ Live = {} /\ Live' = {}
  BY <1>1, Known DEF Descriptors, Table, Held, Active, Live
<1>3. \A n \in Fds : fd[n] = Closed
  BY <1>2 DEF Descriptors, NoLeak
<1>4. procs' \subseteq Ids
  BY TypeStep DEF LaunchUnpiped, Next, Parent, TypeOK
<1>5. TypeOKOutput'
  BY <1>1 DEF Descriptors, TypeOKOutput, NoFd
<1> QED BY <1>1, <1>2, <1>3, <1>4, <1>5, EndsDiffer
        DEF Descriptors, Held, Launched, Table, NoLeak

\* The objects of the list are destroyed, and with them what they hold.
LEMMA RestartListDescriptors ==
  ASSUME TypeOK, Bookkeeping, Descriptors, RestartList
  PROVE  Descriptors'
<1>1. /\ pc = "drain" /\ Live' = {} /\ procs' = {} /\ fd' = DestroyAll(fd)
      /\ UNCHANGED <<pfd, own, unsent, level, helper, reading>>
  BY DEF RestartList, IncHeadroom, Live
<1>2. reading = NoPid /\ own = NoOne
  BY <1>1, Known DEF Descriptors, Table, Held
<1>3. \A n \in Fds : fd'[n] = Closed
  BY <1>1, <1>2 DEF Descriptors, NoLeak, DestroyAll
<1>4. TypeOKOutput'
  BY <1>1 DEF Descriptors, TypeOKOutput, DestroyAll
<1> QED BY <1>1, <1>2, <1>3, <1>4, EndsDiffer
        DEF Descriptors, Held, Launched, Table, NoLeak

\* E2BIG, the draining that follows it, and the ends of a call and of a daemon touch
\* no descriptor.
LEMMA QuietDescriptors ==
  ASSUME TypeOK, Bookkeeping, Descriptors,
         \/ \E k \in Pids, p \in Ids : TooBig(k, p)
         \/ (\E k \in Pids : Drain(k)) /\ UNCHANGED ioVars
         \/ Return /\ UNCHANGED ioVars
         \/ (\E n \in 1..MaxFiles : Sync(n)) /\ UNCHANGED ioVars
         \/ Restart /\ UNCHANGED ioVars
  PROVE  Descriptors'
<1> USE DEF callVars, procVars
<1>1. UNCHANGED <<ioVars, procs, pid, starting>>
  BY DEF TooBig, ArgsTooBig, Drain, Return, Sync, Restart
<1>2. TypeOKOutput' /\ UNCHANGED <<fd, pfd, own, reading>>
  BY <1>1 DEF ioVars, Descriptors, TypeOKOutput
<1>3. reading = NoPid
  BY DEF TooBig, Drain, Return, Sync, Restart, Descriptors, Table
<1>4. pc' = "launch" => procs = {}
  BY Known DEF TooBig, ArgsTooBig, Drain, Return, Sync, Restart
<1>5. \A j \in Live' : j \in Live /\ kid'[j].owner = kid[j].owner
  <2>1. CASE \E k \in Pids, p \in Ids : TooBig(k, p)
    <3>1. PICK k \in Pids, p \in Ids, early \in SUBSET Pids : ArgsTooBig(k, p, early)
      BY <2>1 DEF TooBig
    <3>2. ASSUME NEW j \in Live' PROVE j \in Live /\ kid'[j].owner = kid[j].owner
      <4>1. j \in Pids /\ kid'[j] = IF j = k THEN NoKid
                                  ELSE IF j \in early THEN Exited(j, 0)[j] ELSE kid[j]
        BY <3>1 DEF ArgsTooBig, Live
      <4>2. j # k BY <4>1, NoKidType DEF Live
      <4>3. CASE j \in early
        <5>1. kid[j].st = "forked" BY <3>1, <4>3 DEF ArgsTooBig
        <5>2. kid'[j].owner = kid[j].owner
          BY <4>1, <4>2, <4>3 DEF Exited, TypeOK
        <5> QED BY <4>1, <5>1, <5>2 DEF Live
      <4>4. CASE j \notin early
        BY <4>1, <4>2, <4>4 DEF Live
      <4> QED BY <4>3, <4>4
    <3> QED BY <3>2
  <2>2. ASSUME NEW k \in Pids, Drain(k)
        PROVE  \A j \in Live' : j \in Live /\ kid'[j].owner = kid[j].owner
    BY <2>2, ForgetLive DEF Drain
  <2>3. CASE Return \/ (\E n \in 1..MaxFiles : Sync(n)) \/ Restart
    BY <2>3 DEF Return, Sync, Restart, Live
  <2> QED BY <2>1, <2>2, <2>3
<1> QED BY <1>1, <1>2, <1>3, <1>4, <1>5, FrameDescriptors

LEMMA DescriptorsStep ==
  ASSUME TypeOK, Bookkeeping, Descriptors, [NextOutput]_allVars
  PROVE  Descriptors'
<1>1. CASE \/ \E k \in Pids, p \in Ids : TooBig(k, p)
           \/ (\E k \in Pids : Drain(k)) /\ UNCHANGED ioVars
           \/ Return /\ UNCHANGED ioVars
           \/ (\E n \in 1..MaxFiles : Sync(n)) /\ UNCHANGED ioVars
           \/ Restart /\ UNCHANGED ioVars
  BY <1>1, QuietDescriptors
<1>2. CASE \E p \in Ids, k \in Pids : ForkPiped(p, k)
  BY <1>2, ForkDescriptors
<1>3. CASE LaunchUnpiped \/ RestartList
  BY <1>3, LaunchDescriptors, RestartListDescriptors
<1>4. ASSUME NEW k \in Pids, NEW p \in Ids,
             SuccessPiped(k, p) \/ LogErrors(k, p) \/ AfterLog(k, p)
      PROVE  Descriptors'
  BY <1>4, SuccessDescriptors, LogDescriptors, AfterLogDescriptors
<1>5. CASE Fail /\ Die
  BY <1>5, DieDescriptors
<1>6. ASSUME NEW k \in Pids, NEW p \in Ids, GiveUpPiped(k, p) \/ (ExecError(k, p) /\ Die)
      PROVE  Descriptors'
  BY <1>6, DieDescriptors DEF GiveUpPiped, GiveUp, ExecError
<1>7. CASE (NoChildren \/ OutOfRoom \/ ForkFails) /\ Die
  BY <1>7, DieDescriptors DEF NoChildren, OutOfRoom, ForkFails
<1>8. ASSUME NEW k \in Pids, ChildPiped(k) \/ HelperEnds(k)
      PROVE  Descriptors'
  BY <1>8, ChildDescriptors
<1>9. CASE UNCHANGED allVars
  <2>1. TypeOKOutput'
    BY <1>9 DEF allVars, ioVars, Descriptors, TypeOKOutput
  <2> QED BY <1>9, <2>1, FrameDescriptors
          DEF allVars, vars, ioVars, procVars, Live, Descriptors, Table
<1> QED BY <1>1, <1>2, <1>3, <1>4, <1>6, <1>7, <1>8, <1>9 DEF NextOutput, ParentPiped

LEMMA InitDescriptors == InitOutput => Descriptors
<1> SUFFICES ASSUME InitOutput PROVE Descriptors
  OBVIOUS
<1>1. Live = {} /\ procs = {} /\ pc = "idle"
  BY NoKidType DEF InitOutput, Init, Live
<1>2. TypeOKOutput
  BY OutputAssumption DEF InitOutput, TypeOKOutput, NoFd
<1>3. own = NoOne /\ reading = NoPid /\ \A n \in Fds : fd[n] = Closed
  BY DEF InitOutput
<1>4. Held
  BY <1>1, <1>3 DEF Held
<1>5. Launched
  BY <1>1 DEF Launched
<1>6. Table
  BY <1>1, <1>3 DEF Table
<1>7. NoLeak
  BY <1>3, EndsDiffer DEF NoLeak
<1> QED BY <1>2, <1>4, <1>5, <1>6, <1>7 DEF Descriptors

-----------------------------------------------------------------------------
(* Theorems.                                                               *)

LEMMA OutputInv == SpecOutput => [](TypeOK /\ Bookkeeping /\ Descriptors)
<1>1. InitOutput => TypeOK /\ Bookkeeping /\ Descriptors
  BY InitBookkeeping, InitDescriptors DEF InitOutput
<1>2. TypeOK /\ Bookkeeping /\ Descriptors /\ [NextOutput]_allVars =>
        (TypeOK /\ Bookkeeping /\ Descriptors)'
  BY OutputStep, TypeStep, BookkeepingStep, DescriptorsStep
<1> QED BY <1>1, <1>2, PTL DEF SpecOutput

\* With its pipes, writes and reads sync() does nothing but what Syncer allows: all that
\* is proved of Syncer holds here, too.
THEOREM OutputImplementsSyncer == SpecOutput => Spec
<1>1. InitOutput => Init BY DEF InitOutput
<1>2. TypeOK /\ Bookkeeping /\ Descriptors /\ [NextOutput]_allVars => [Next]_vars
  BY OutputStep
<1> QED BY <1>1, <1>2, OutputInv, PTL DEF SpecOutput, Spec

\* Every variable has its type: the descriptors are read ends or the log's, and what an
\* object remembers is one of the daemon's numbers or none.
THEOREM OutputTypeCorrect == SpecOutput => []TypeOKOutput
<1>1. Descriptors => TypeOKOutput BY DEF Descriptors
<1> QED BY <1>1, OutputInv, PTL

\* No close() of sync_batch(), reset() or a destructor, of a number that may have been
\* given out again, takes away the reader of a running child.
THEOREM ReaderHeldCorrect == SpecOutput => []ReaderHeld
<1>1. ASSUME TypeOK, Bookkeeping, Descriptors PROVE ReaderHeld
  <2>1. ASSUME NEW k \in Live
        PROVE  \E p \in procs : kid[k].owner = p /\ pfd[p] \in Fds /\ fd[pfd[p]] = <<"r", k>>
    <3> DEFINE p == kid[k].owner
    <3>1. p \in procs /\ p \in Ids /\ pid[p] = k
      BY <1>1, <2>1, Known
    <3>2. Held /\ Launched /\ TypeOKOutput
      BY <1>1 DEF Descriptors
    <3>3. p # own /\ pfd[p] # NoFd
      BY <2>1, <3>2 DEF Launched
    <3>4. fd[pfd[p]] = <<"r", k>>
      BY <3>1, <3>2, <3>3 DEF Held
    <3>5. pfd[p] \in Fds
      BY <3>1, <3>2, <3>3 DEF TypeOKOutput, NoFd
    <3> QED BY <3>1, <3>4, <3>5
  <2> QED BY <2>1 DEF ReaderHeld
<1> QED BY <1>1, OutputInv, PTL

\* However often processes are launched, reset, put aside and destroyed, no descriptor
\* stays open but those of the objects in the list.
THEOREM NoLeakCorrect == SpecOutput => []NoLeak
<1>1. Descriptors => NoLeak BY DEF Descriptors
<1> QED BY <1>1, OutputInv, PTL

\* One number more than there are objects is all that the daemon needs for pipe() and for
\* the log to succeed at every launch, relaunch and retry.
THEOREM RoomLeftCorrect == SpecOutput => []RoomLeft
<1> QED BY RoomAlways, OutputInv, PTL
=============================================================================
