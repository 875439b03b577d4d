---------------------------- MODULE SyncerProofs ----------------------------
(***************************************************************************)
(* What Syncer's specification guarantees for every list, number of        *)
(* processes, number of destinations, memory limit and behaviour of the    *)
(* sync program: the types, the bookkeeping of the children, and, when no  *)
(* signal from outside kills one, that no file is lost.                    *)
(***************************************************************************)
EXTENDS Syncer, Extrema, FiniteSetTheorems, TLAPS

-----------------------------------------------------------------------------
(* The inductive invariant.                                                *)

Active == pc \in {"wait", "drain"}

\* No child exists outside the wait loop.
Quiet ==
  /\ ~Active => Live = {}
  /\ pc # "wait" => starting = {}
  /\ pc \in {"idle", "failed"} => procs = {}
  /\ pc \in {"idle", "launch", "failed"} => sshFail = {}

\* The objects in the list, and two sets of them that are disjoint.
Lists ==
  /\ Active => procs \subseteq 0..NumProcs-1
  /\ sshFail \subseteq procs /\ starting \subseteq procs
  /\ sshFail \cap starting = {}
  /\ \A p, q \in procs : p # q /\ pid[p] = pid[q] => pid[p] = NoPid

\* What a child carries is its process's share of the list.
Shares ==
  /\ Active => \A p \in procs : \A f \in batch[p] : f < nfiles /\ f % NumProcs = p
  /\ \A k \in Live : pid[kid[k].owner] = k /\ kid[k].files = batch[kid[k].owner]
                     /\ kid[k].owner \in procs

\* The processes in the list are set to the current destination.
Aimed ==
  pc = "wait" =>
    /\ \A p \in procs : sendTo[p] = dest
    /\ \A k \in Live : kid[k].to = dest

Bookkeeping == Quiet /\ Lists /\ Shares /\ Aimed /\ ChildrenKnown

\* A child that exited with 0 has transferred its files.
Honest ==
  pc = "wait" =>
    \A k \in Pids : kid[k].st = "exited" /\ kid[k].code = SUCCESS => kid[k].files \subseteq delivered

Progressed == Honest /\ NothingLost /\ SuccessMeansDelivered

-----------------------------------------------------------------------------
(* Lemmas about the operators.                                             *)

\* The iterator stops inside the list or at its end, and what consume() takes is
\* what lies between the old and the new position on the process's track.
LEMMA StopIsPosition ==
  ASSUME TypeOK, NEW p \in Ids, NEW i \in Nat
  PROVE  /\ Stop(p, i) \in 0..nfiles
         /\ Taken(p, i) \subseteq 0..nfiles-1
         /\ \A f \in Taken(p, i) : f % NumProcs = p
         /\ \A f \in 0..nfiles-1 : f % NumProcs = p /\ f >= i /\ f < Stop(p, i)
                                   => f \in Taken(p, i)
<1>1. nfiles \in Nat BY SyncerAssumption DEF TypeOK
<1>2. TooMuch(p, i) \subseteq 0..nfiles-1 /\ TooMuch(p, i) \subseteq Nat
  BY <1>1 DEF TooMuch, Track
<1>3. Stop(p, i) \in 0..nfiles
  <2>1. CASE TooMuch(p, i) = {} BY <2>1, <1>1 DEF Stop
  <2>2. CASE TooMuch(p, i) # {}
    <3>1. \E x \in TooMuch(p, i) : \A y \in TooMuch(p, i) : x <= y
      BY <1>2, <2>2, LeastElement
    <3>2. Stop(p, i) \in TooMuch(p, i) BY <3>1, <2>2 DEF Stop
    <3> QED BY <3>2, <1>1, <1>2
  <2> QED BY <2>1, <2>2
<1> QED BY <1>1, <1>3 DEF Taken, Track

\* The number of processes is between 1 and the number of ids.
LEMMA NumProcsRange ==
  ASSUME TypeOK, nfiles > 0
  PROVE  NumProcs \in Nat \ {0} /\ 0..NumProcs-1 \subseteq Ids /\ NumProcs <= nfiles
<1> nfiles \in Nat BY SyncerAssumption DEF TypeOK
<1> QED BY SyncerAssumption DEF NumProcs, Ids

LEMMA ZeroIsId == 0 \in Ids
BY SyncerAssumption DEF Ids

-----------------------------------------------------------------------------
(* Type correctness.                                                       *)

LEMMA NextDestination ==
  ASSUME dest \in 1..NDests
  PROVE  (IF dest = NDests THEN 1 ELSE dest + 1) \in 1..NDests
BY SyncerAssumption

LEMMA NoKidType == NoKid \in KidType /\ NoKid.st = "none"
BY ZeroIsId, SyncerAssumption DEF NoKid, KidType

LEMMA ForgetType ==
  ASSUME TypeOK, NEW k \in Pids
  PROVE  Forget(k) \in [Pids -> KidType]
BY NoKidType DEF TypeOK, Forget

LEMMA ExitedType ==
  ASSUME TypeOK, NEW k \in Pids, NEW code \in 0..255
  PROVE  Exited(k, code) \in [Pids -> KidType]
BY DEF TypeOK, Exited, KidType

LEMMA FailType ==
  ASSUME TypeOK, Fail
  PROVE  TypeOK'
BY NoKidType DEF TypeOK, Fail, callVars

\* Every step of the parent in its wait loop, of a child, and of the daemon keeps
\* the types.
LEMMA TypeStep ==
  ASSUME TypeOK, [Next]_vars
  PROVE  TypeOK'
<1> USE DEF TypeOK, callVars, procVars
<1>1. ASSUME NEW n \in 1..MaxFiles, Sync(n) PROVE TypeOK'
  BY <1>1, SyncerAssumption DEF Sync
<1>2. CASE LaunchProcs
  <2>1. 0..NumProcs-1 \subseteq Ids BY <1>2, NumProcsRange DEF LaunchProcs
  <2>2. ASSUME NEW p \in Ids
        PROVE  Stop(p, p) \in Nat /\ Taken(p, p) \in SUBSET (0..MaxFiles-1)
    <3>1. p \in Nat BY SyncerAssumption DEF Ids
    <3>2. Stop(p, p) \in 0..nfiles /\ Taken(p, p) \subseteq 0..nfiles-1
      BY <3>1, StopIsPosition
    <3> QED BY <3>2, SyncerAssumption
  <2>3. itr' \in [Ids -> Nat]
    BY <1>2, <2>2 DEF LaunchProcs
  <2>4. batch' \in [Ids -> SUBSET (0..MaxFiles-1)]
    BY <1>2, <2>2 DEF LaunchProcs
  <2> QED BY <1>2, <2>1, <2>3, <2>4 DEF LaunchProcs
<1>3. ASSUME NEW p \in Ids, NEW k \in Pids, Fork(p, k) PROVE TypeOK'
  BY <1>3 DEF Fork, KidType
<1>4. CASE Return
  BY <1>4 DEF Return
<1>5. ASSUME NEW k \in Pids, NEW p \in Ids, Success(k, p) PROVE TypeOK'
  <2>1. itr[p] \in Nat OBVIOUS
  <2>2. Stop(p, itr[p]) \in 0..nfiles /\ Taken(p, itr[p]) \subseteq 0..nfiles-1
    BY <2>1, StopIsPosition
  <2>3. itr' \in [Ids -> Nat] /\ batch' \in [Ids -> SUBSET (0..MaxFiles-1)]
    BY <1>5, <2>2, SyncerAssumption DEF Success
  <2>4. starting' \subseteq Ids /\ procs' \subseteq Ids /\ sshFail' = {}
        /\ sendTo' \in [Ids -> 1..NDests]
    BY <1>5 DEF Success
  <2>5. kid' \in [Pids -> KidType] BY <1>5, ForgetType DEF Success
  <2> QED BY <1>5, <2>3, <2>4, <2>5 DEF Success
<1>6. ASSUME NEW k \in Pids, NEW p \in Ids, NEW early \in SUBSET Pids, ArgsTooBig(k, p, early)
      PROVE TypeOK'
  <2>1. nfiles > 0 BY <1>6 DEF ArgsTooBig, ExecFailed, Returned, Wait
  <2>2. kid' \in [Pids -> KidType]
    <3>1. ASSUME NEW c \in Pids PROVE Exited(c, 0)[c] \in KidType
      <4>1. 0 \in 0..255 OBVIOUS
      <4> QED BY <4>1, ExitedType
    <3> QED BY <1>6, <3>1, NoKidType DEF ArgsTooBig
  <2> QED BY <1>6, <2>1, <2>2 DEF ArgsTooBig
<1>7. ASSUME NEW k \in Pids, NEW p \in Ids, TryAgain(k, p) PROVE TypeOK'
  BY <1>7, ForgetType DEF TryAgain
<1>8. ASSUME NEW k \in Pids, NEW p \in Ids, SshFails(k, p) PROVE TypeOK'
  BY <1>8, ForgetType DEF SshFails
<1>9. ASSUME NEW k \in Pids, NEW p \in Ids, Failover(k, p) PROVE TypeOK'
  <2>1. dest' \in 1..NDests BY <1>9, NextDestination DEF Failover
  <2> QED BY <1>9, <2>1, ForgetType DEF Failover
<1>10. ASSUME NEW k \in Pids, Drain(k) PROVE TypeOK'
  BY <1>10, ForgetType DEF Drain
<1>11. CASE IncHeadroom
  BY <1>11, SyncerAssumption DEF IncHeadroom
<1>12. CASE Fail
  BY <1>12, FailType
<1>13. ASSUME NEW k \in Pids, Exec(k) PROVE TypeOK'
  BY <1>13 DEF Exec, KidType, childUnchanged
<1>14. ASSUME NEW k \in Pids, NEW error \in Errnos, ExecFails(k, error) PROVE TypeOK'
  <2>1. kid' \in [Pids -> KidType] BY <1>14, ExitedType DEF ExecFails, CHECK_SHMEM
  <2> QED BY <1>14, <2>1 DEF ExecFails, childUnchanged, KidType
<1>15. ASSUME NEW k \in Pids, NEW code \in ExitCodes, NEW F \in SUBSET (0..nfiles-1),
              Exit(k, code, F)
       PROVE TypeOK'
  <2>1. kid' \in [Pids -> KidType] BY <1>15, ExitedType, SyncerAssumption DEF Exit
  <2> QED BY <1>15, <2>1 DEF Exit, childUnchanged
<1>16. ASSUME NEW k \in Pids, NEW F \in SUBSET (0..nfiles-1), Killed(k, F) PROVE TypeOK'
  <2>1. kid' \in [Pids -> KidType] BY <1>16, ExitedType DEF Killed
  <2> QED BY <1>16, <2>1 DEF Killed, childUnchanged
<1>17. CASE Restart
  BY <1>17, SyncerAssumption DEF Restart
<1>18. CASE UNCHANGED vars
  BY <1>18 DEF vars
<1>19. CASE Parent
  BY <1>19, <1>2, <1>3, <1>4, <1>5, <1>6, <1>7, <1>8, <1>9, <1>10, <1>11, <1>12
     DEF Parent, NoChildren, ExecError, GiveUp, OutOfRoom
<1> QED
  BY <1>1, <1>12, <1>13, <1>14, <1>15, <1>16, <1>17, <1>18, <1>19
     DEF Next, Child, ForkFails

LEMMA InitType ==
  ASSUME Init
  PROVE  TypeOK
<1>1. nfiles \in 0..MaxFiles /\ dest \in 1..NDests /\ maxMem \in Nat /\ 1 \in 1..NDests
  BY SyncerAssumption DEF Init
<1>2. kid \in [Pids -> KidType] BY NoKidType DEF Init
<1>3. /\ itr \in [Ids -> Nat] /\ batch \in [Ids -> SUBSET (0..MaxFiles-1)]
      /\ sendTo \in [Ids -> 1..NDests]
  BY <1>1 DEF Init
<1>4. pid \in [Ids -> Pids \cup {NoPid}] /\ execErr \in [Ids -> Errnos \cup {"none"}]
  BY DEF Init
<1> QED BY <1>1, <1>2, <1>3, <1>4 DEF Init, TypeOK

\* Type correctness: every variable of the syncer keeps its type for ever.
THEOREM TypeCorrect == Spec => []TypeOK
<1>1. Init => TypeOK
  BY InitType
<1>2. TypeOK /\ [Next]_vars => TypeOK'
  BY TypeStep
<1> QED BY <1>1, <1>2, PTL DEF Spec

-----------------------------------------------------------------------------
(* The bookkeeping of the children.                                        *)

\* The object that find_if returns is the one that launched the child.
LEMMA ReturnedOwner ==
  ASSUME TypeOK, Bookkeeping, NEW k \in Pids, NEW p \in Ids, Returned(k, p)
  PROVE  /\ p = kid[k].owner /\ k \in Live /\ p \in procs
         /\ p \notin sshFail /\ p \notin starting
         /\ \A j \in Live : kid[j].owner = p => j = k
<1>1. k \in Live /\ k # NoPid BY SyncerAssumption DEF Returned, Live
<1>2. p \in procs /\ pid[p] = k BY DEF Returned
<1>3. kid[k].owner \in procs /\ pid[kid[k].owner] = k
  BY <1>1 DEF Bookkeeping, Shares
<1>4. p = kid[k].owner BY <1>1, <1>2, <1>3 DEF Bookkeeping, Lists
<1>5. p \notin sshFail /\ p \notin starting
  BY <1>1, <1>4 DEF Bookkeeping, ChildrenKnown, Returned, Wait
<1>6. \A j \in Live : kid[j].owner = p => j = k
  BY <1>2 DEF Bookkeeping, Shares
<1> QED BY <1>1, <1>2, <1>4, <1>5, <1>6

LEMMA ForgetLive ==
  ASSUME TypeOK, NEW k \in Pids, kid' = Forget(k)
  PROVE  /\ Live' = Live \ {k}
         /\ \A j \in Live' : kid'[j] = kid[j]
BY NoKidType DEF TypeOK, Forget, Live

LEMMA ExitedLive ==
  ASSUME TypeOK, NEW k \in Pids, NEW code, k \in Live, kid' = Exited(k, code)
  PROVE  /\ Live' = Live
         /\ \A j \in Live' : /\ kid'[j].owner = kid[j].owner
                             /\ kid'[j].files = kid[j].files
                             /\ kid'[j].to = kid[j].to
BY DEF TypeOK, Exited, Live

LEMMA FailBookkeeping ==
  ASSUME TypeOK, Fail
  PROVE  Bookkeeping'
<1>1. Live' = {} BY NoKidType DEF Fail, Live
<1>2. pc' = "failed" /\ starting' = {} /\ sshFail' = {} /\ procs' = {} BY DEF Fail
<1> QED
  BY <1>1, <1>2 DEF Bookkeeping, Quiet, Lists, Shares, Aimed, ChildrenKnown, Active

\* A step of a child leaves the bookkeeping alone: it changes only the child's
\* state, its exit code and what is shared with the parent.
LEMMA ChildFrame ==
  ASSUME TypeOK, Bookkeeping,
         UNCHANGED <<pc, nfiles, dest, procs, batch, sendTo, pid, sshFail, starting>>,
         Live' = Live,
         \A j \in Live' : /\ kid'[j].owner = kid[j].owner
                          /\ kid'[j].files = kid[j].files
                          /\ kid'[j].to = kid[j].to
  PROVE  Bookkeeping'
<1> USE DEF Bookkeeping
<1>1. NumProcs' = NumProcs BY DEF NumProcs
<1>2. Quiet' BY DEF Quiet, Active
<1>3. Lists' BY <1>1 DEF Lists, Active
<1>4. Shares' BY <1>1 DEF Shares, Active
<1>5. Aimed' BY DEF Aimed
<1>6. ChildrenKnown'
  <2>1. ASSUME pc' = "wait", NEW k \in Live'
        PROVE  LET p == kid'[k].owner IN
               /\ p \in procs' /\ pid'[p] = k /\ p \notin sshFail' \cup starting'
               /\ kid'[k].files = batch'[p]
    BY <2>1 DEF ChildrenKnown
  <2>2. ASSUME pc' = "wait", NEW p \in procs' \ (sshFail' \cup starting')
        PROVE  pid'[p] \in Live' /\ kid'[pid'[p]].owner = p
    BY <2>2 DEF ChildrenKnown
  <2> QED BY <2>1, <2>2 DEF ChildrenKnown
<1> QED BY <1>2, <1>3, <1>4, <1>5, <1>6

\* wait() takes a child away, and what is left is as it was.
LEMMA Reaped ==
  ASSUME TypeOK, Bookkeeping, NEW k \in Pids, NEW p \in Ids, Returned(k, p), kid' = Forget(k)
  PROVE  /\ pc = "wait" /\ starting = {} /\ p \in procs /\ p \notin sshFail
         /\ \A j \in Live' : /\ j \in Live /\ j # k
                             /\ kid'[j] = kid[j]
                             /\ kid[j].owner \in procs /\ kid[j].owner # p
                             /\ pid[kid[j].owner] = j
                             /\ kid[j].owner \notin sshFail
                             /\ kid[j].files = batch[kid[j].owner]
                             /\ kid[j].to = dest
         /\ \A q \in procs : q # p /\ q \notin sshFail =>
                pid[q] \in Live' /\ kid'[pid[q]].owner = q
<1>1. /\ p = kid[k].owner /\ k \in Live /\ p \in procs /\ p \notin sshFail
      /\ \A j \in Live : kid[j].owner = p => j = k
  BY ReturnedOwner
<1>2. pc = "wait" /\ starting = {} BY DEF Returned, Wait
<1>3. Live' = Live \ {k} /\ \A j \in Live' : kid'[j] = kid[j] BY ForgetLive
<1>4. \A j \in Live : /\ kid[j].owner \in procs /\ pid[kid[j].owner] = j
                      /\ kid[j].owner \notin sshFail
                      /\ kid[j].files = batch[kid[j].owner]
  BY <1>2 DEF Bookkeeping, ChildrenKnown
<1>5. \A j \in Live : kid[j].to = dest BY <1>2 DEF Bookkeeping, Aimed
<1>6. ASSUME NEW q \in procs, q # p, q \notin sshFail
      PROVE  pid[q] \in Live' /\ kid'[pid[q]].owner = q
  <2>1. pid[q] \in Live /\ kid[pid[q]].owner = q
    BY <1>2, <1>6 DEF Bookkeeping, ChildrenKnown
  <2> QED BY <2>1, <1>1, <1>3, <1>6
<1> QED BY <1>1, <1>2, <1>3, <1>4, <1>5, <1>6

LEMMA TryAgainBookkeeping ==
  ASSUME TypeOK, Bookkeeping, NEW k \in Pids, NEW p \in Ids, TryAgain(k, p)
  PROVE  Bookkeeping'
<1> USE DEF procVars, callVars
<1>1. Returned(k, p) /\ kid' = Forget(k) BY DEF TryAgain, SyncError
<1>2. /\ UNCHANGED <<pc, nfiles, dest, procs, batch, sendTo, pid, sshFail>>
      /\ starting' = {p}
  BY DEF TryAgain
<1>3. NumProcs' = NumProcs BY <1>2 DEF NumProcs
<1>4. Quiet' BY <1>1, <1>2, Reaped DEF Quiet, Active, Bookkeeping
<1>5. Lists' BY <1>1, <1>2, <1>3, Reaped DEF Lists, Active, Bookkeeping
<1>6. Shares' BY <1>1, <1>2, <1>3, Reaped DEF Shares, Active, Bookkeeping
<1>7. Aimed' BY <1>1, <1>2, Reaped DEF Aimed, Bookkeeping
<1>8. ChildrenKnown' BY <1>1, <1>2, Reaped DEF ChildrenKnown
<1> QED BY <1>4, <1>5, <1>6, <1>7, <1>8 DEF Bookkeeping

LEMMA SshFailsBookkeeping ==
  ASSUME TypeOK, Bookkeeping, NEW k \in Pids, NEW p \in Ids, SshFails(k, p)
  PROVE  Bookkeeping'
<1> USE DEF procVars, callVars
<1>1. Returned(k, p) /\ kid' = Forget(k) BY DEF SshFails, SyncError
<1>2. /\ UNCHANGED <<pc, nfiles, dest, procs, batch, sendTo, pid, starting>>
      /\ sshFail' = sshFail \cup {p}
  BY DEF SshFails
<1>3. NumProcs' = NumProcs BY <1>2 DEF NumProcs
<1>4. Quiet' BY <1>1, <1>2, Reaped DEF Quiet, Active, Bookkeeping
<1>5. Lists' BY <1>1, <1>2, <1>3, Reaped DEF Lists, Active, Bookkeeping
<1>6. Shares' BY <1>1, <1>2, <1>3, Reaped DEF Shares, Active, Bookkeeping
<1>7. Aimed' BY <1>1, <1>2, Reaped DEF Aimed, Bookkeeping
<1>8. ChildrenKnown' BY <1>1, <1>2, Reaped DEF ChildrenKnown
<1> QED BY <1>4, <1>5, <1>6, <1>7, <1>8 DEF Bookkeeping

\* The last to fail: every process of the call is put aside, so no child is left.
LEMMA AllAside ==
  ASSUME TypeOK, Bookkeeping, NEW k \in Pids, NEW p \in Ids, Returned(k, p), LastToFail(p),
         kid' = Forget(k)
  PROVE  /\ sshFail \cup {p} = procs
         /\ procs = 0..NumProcs-1
         /\ Live' = {}
<1>1. pc = "wait" /\ p \in procs BY Reaped
<1>2. NumProcs \in Nat \ {0} BY <1>1, NumProcsRange DEF TypeOK
<1>3. procs \subseteq 0..NumProcs-1 /\ sshFail \subseteq procs
  BY <1>1 DEF Bookkeeping, Lists, Active
<1>4. IsFiniteSet(0..NumProcs-1) /\ Cardinality(0..NumProcs-1) = NumProcs
  BY <1>2, FS_Interval
<1>5. sshFail \cup {p} \in SUBSET (0..NumProcs-1) BY <1>1, <1>3
<1>6. /\ IsFiniteSet(sshFail \cup {p})
      /\ Cardinality(sshFail \cup {p}) <= Cardinality(0..NumProcs-1)
      /\ Cardinality(0..NumProcs-1) = Cardinality(sshFail \cup {p})
           => 0..NumProcs-1 = sshFail \cup {p}
  BY <1>4, <1>5, FS_Subset
<1>7. Cardinality(sshFail \cup {p}) \in Nat BY <1>6, FS_CardinalityType
<1>8. 0..NumProcs-1 = sshFail \cup {p}
  BY <1>2, <1>4, <1>6, <1>7 DEF LastToFail
<1>9. Live' = {}
  <2>1. \A j \in Live' : kid[j].owner \in procs \ (sshFail \cup {p}) BY Reaped
  <2> QED BY <1>3, <1>8, <2>1
<1> QED BY <1>1, <1>3, <1>8, <1>9

LEMMA FailoverBookkeeping ==
  ASSUME TypeOK, Bookkeeping, NEW k \in Pids, NEW p \in Ids, Failover(k, p)
  PROVE  Bookkeeping'
<1> USE DEF procVars, callVars
<1>1. Returned(k, p) /\ kid' = Forget(k) /\ LastToFail(p) BY DEF Failover, SyncError
<1>2. /\ UNCHANGED <<pc, nfiles, procs, batch, pid>>
      /\ sshFail' = {} /\ starting' = procs
      /\ sendTo' = [q \in Ids |-> IF q \in procs THEN dest' ELSE sendTo[q]]
  BY DEF Failover
<1>3. NumProcs' = NumProcs BY <1>2 DEF NumProcs
<1>4. pc = "wait" /\ Live' = {} /\ p \in procs BY <1>1, AllAside, Reaped
<1>5. Quiet' BY <1>2, <1>4 DEF Quiet, Active, Bookkeeping
<1>6. Lists' BY <1>2, <1>3, <1>4 DEF Lists, Active, Bookkeeping
<1>7. Shares' BY <1>2, <1>3, <1>4 DEF Shares, Active, Bookkeeping
<1>8. Aimed' BY <1>2, <1>4 DEF Aimed, Bookkeeping, TypeOK
<1>9. ChildrenKnown' BY <1>2, <1>4 DEF ChildrenKnown
<1> QED BY <1>5, <1>6, <1>7, <1>8, <1>9 DEF Bookkeeping

LEMMA SuccessBookkeeping ==
  ASSUME TypeOK, Bookkeeping, NEW k \in Pids, NEW p \in Ids, Success(k, p)
  PROVE  Bookkeeping'
<1> USE DEF procVars, callVars
<1>1. Returned(k, p) /\ kid' = Forget(k) BY DEF Success
<1>2. UNCHANGED <<pc, nfiles, dest, pid>> /\ sshFail' = {}
  BY DEF Success
<1>3. NumProcs' = NumProcs BY <1>2 DEF NumProcs
<1>4. pc = "wait" /\ starting = {} /\ p \in procs /\ p \notin sshFail BY <1>1, Reaped
<1>5. CASE Done(p)
  <2>1. /\ procs' = procs \ {p} /\ batch' = [batch EXCEPT ![p] = {}] /\ starting' = sshFail
        /\ sendTo' = sendTo
    BY <1>5 DEF Success
  <2>2. Quiet' BY <1>1, <1>2, <1>4, <2>1 DEF Quiet, Active, Bookkeeping
  <2>3. Lists' BY <1>2, <1>3, <1>4, <2>1 DEF Lists, Active, Bookkeeping
  <2>4. Shares' BY <1>1, <1>2, <1>3, <1>4, <2>1, Reaped DEF Shares, Active, Bookkeeping, TypeOK
  <2>5. Aimed' BY <1>1, <1>2, <2>1, Reaped DEF Aimed, Bookkeeping
  <2>6. ChildrenKnown' BY <1>1, <1>2, <2>1, Reaped DEF ChildrenKnown, TypeOK
  <2> QED BY <2>2, <2>3, <2>4, <2>5, <2>6 DEF Bookkeeping
<1>6. CASE ~Done(p)
  <2>1. /\ procs' = procs /\ batch' = [batch EXCEPT ![p] = Taken(p, itr[p])]
        /\ starting' = sshFail \cup {p} /\ sendTo' = [sendTo EXCEPT ![p] = dest]
    BY <1>6 DEF Success
  <2>2. Quiet' BY <1>1, <1>2, <1>4, <2>1 DEF Quiet, Active, Bookkeeping
  <2>3. Lists' BY <1>2, <1>3, <1>4, <2>1 DEF Lists, Active, Bookkeeping
  <2>4. \A f \in Taken(p, itr[p]) : f < nfiles /\ f % NumProcs = p
    BY StopIsPosition DEF TypeOK
  <2>5. Shares' BY <1>1, <1>2, <1>3, <1>4, <2>1, <2>4, Reaped DEF Shares, Active, Bookkeeping, TypeOK
  <2>6. Aimed' BY <1>1, <1>2, <2>1, Reaped DEF Aimed, Bookkeeping, TypeOK
  <2>7. ChildrenKnown' BY <1>1, <1>2, <2>1, Reaped DEF ChildrenKnown, TypeOK
  <2> QED BY <2>2, <2>3, <2>5, <2>6, <2>7 DEF Bookkeeping
<1> QED BY <1>5, <1>6

LEMMA LaunchBookkeeping ==
  ASSUME TypeOK, Bookkeeping, LaunchProcs
  PROVE  Bookkeeping'
<1> USE DEF procVars, callVars
<1>1. /\ pc = "launch" /\ pc' = "wait" /\ UNCHANGED <<nfiles, dest, kid>>
      /\ procs' = 0..NumProcs-1 /\ starting' = procs' /\ sshFail' = {}
      /\ pid' = [p \in Ids |-> NoPid] /\ sendTo' = [p \in Ids |-> dest]
      /\ batch' = [p \in Ids |-> IF p \in procs' THEN Taken(p, p) ELSE {}]
  BY DEF LaunchProcs
<1>2. NumProcs' = NumProcs BY <1>1 DEF NumProcs
<1>3. procs' \subseteq Ids BY <1>1, NumProcsRange DEF TypeOK
<1>4. Live' = {} BY <1>1 DEF Live, Bookkeeping, Quiet, Active
<1>5. ASSUME NEW p \in procs', NEW f \in batch'[p] PROVE f < nfiles /\ f % NumProcs = p
  <2>1. p \in Ids /\ p \in Nat /\ batch'[p] = Taken(p, p)
    BY <1>1, <1>3, SyncerAssumption DEF Ids
  <2> QED BY <1>5, <2>1, StopIsPosition DEF TypeOK
<1>6. Quiet' BY <1>1 DEF Quiet, Active
<1>7. Lists' BY <1>1, <1>2, <1>3 DEF Lists, Active
<1>8. Shares' BY <1>1, <1>2, <1>4, <1>5 DEF Shares, Active
<1>9. Aimed' BY <1>1, <1>3, <1>4 DEF Aimed
<1>10. ChildrenKnown' BY <1>1, <1>4 DEF ChildrenKnown
<1> QED BY <1>6, <1>7, <1>8, <1>9, <1>10 DEF Bookkeeping

LEMMA ForkBookkeeping ==
  ASSUME TypeOK, Bookkeeping, NEW p \in Ids, NEW k \in Pids, Fork(p, k)
  PROVE  Bookkeeping'
<1> USE DEF procVars, callVars
<1>1. /\ UNCHANGED <<pc, nfiles, dest, procs, batch, sendTo, sshFail>>
      /\ p \in starting /\ starting' = starting \ {p}
      /\ pid' = [pid EXCEPT ![p] = k]
      /\ \A q \in procs : pid[q] # k
  BY DEF Fork
<1>2. NumProcs' = NumProcs BY <1>1 DEF NumProcs
<1>3. /\ kid'[k].owner = p /\ kid'[k].files = batch[p] /\ kid'[k].to = sendTo[p]
      /\ \A j \in Pids : j # k => kid'[j] = kid[j]
      /\ k \notin Live /\ Live' = Live \cup {k}
  BY DEF Fork, TypeOK, Live
<1>4. pc = "wait" /\ p \in procs /\ p \notin sshFail
  BY <1>1 DEF Bookkeeping, Quiet, Lists
<1>5. ASSUME NEW j \in Live
      PROVE  /\ j \in Pids /\ j # k
             /\ kid[j].owner \in procs /\ pid[kid[j].owner] = j
             /\ kid[j].files = batch[kid[j].owner] /\ kid[j].to = dest
             /\ kid[j].owner \notin sshFail \cup starting /\ kid[j].owner # p
  BY <1>1, <1>3, <1>4 DEF Bookkeeping, ChildrenKnown, Aimed, Live
<1>6. pid' \in [Ids -> Pids \cup {NoPid}] /\ pid'[p] = k
      /\ \A q \in procs : q # p => pid'[q] = pid[q]
  BY <1>1 DEF TypeOK
<1>7. Quiet' BY <1>1, <1>4 DEF Quiet, Active, Bookkeeping
<1>8. Lists' BY <1>1, <1>2, <1>6 DEF Lists, Active, Bookkeeping
<1>9. Shares' BY <1>1, <1>2, <1>3, <1>4, <1>5, <1>6 DEF Shares, Active, Bookkeeping
<1>10. Aimed' BY <1>1, <1>3, <1>4, <1>5 DEF Aimed, Bookkeeping
<1>11. ChildrenKnown'
  <2>1. ASSUME NEW j \in Live'
        PROVE  /\ kid'[j].owner \in procs' /\ pid'[kid'[j].owner] = j
               /\ kid'[j].owner \notin sshFail' \cup starting'
               /\ kid'[j].files = batch'[kid'[j].owner]
    BY <1>1, <1>3, <1>4, <1>5, <1>6
  <2>2. ASSUME NEW q \in procs' \ (sshFail' \cup starting')
        PROVE  pid'[q] \in Live' /\ kid'[pid'[q]].owner = q
    <3>1. CASE q = p BY <3>1, <1>3, <1>6
    <3>2. CASE q # p
      <4>1. pid[q] \in Live /\ kid[pid[q]].owner = q
        BY <3>2, <2>2, <1>1, <1>4 DEF Bookkeeping, ChildrenKnown
      <4> QED BY <4>1, <3>2, <2>2, <1>1, <1>3, <1>5, <1>6
    <3> QED BY <3>1, <3>2
  <2> QED BY <2>1, <2>2 DEF ChildrenKnown
<1> QED BY <1>7, <1>8, <1>9, <1>10, <1>11 DEF Bookkeeping

LEMMA ArgsTooBigBookkeeping ==
  ASSUME TypeOK, Bookkeeping, NEW k \in Pids, NEW p \in Ids, NEW early \in SUBSET Pids,
         ArgsTooBig(k, p, early)
  PROVE  Bookkeeping'
<1> USE DEF procVars, callVars
<1>1. /\ UNCHANGED <<nfiles, dest, procs, batch, sendTo, pid, sshFail, starting>>
      /\ pc = "wait" /\ pc' = "drain" /\ starting = {}
  BY DEF ArgsTooBig, ExecFailed, Returned, Wait
<1>2. NumProcs' = NumProcs BY <1>1 DEF NumProcs
<1>3. ASSUME NEW j \in Live'
      PROVE  j \in Live /\ kid'[j].owner = kid[j].owner /\ kid'[j].files = kid[j].files
  <2>1. j \in Pids /\ kid'[j].st # "none" BY <1>3 DEF Live
  <2>2. j # k BY <2>1, NoKidType DEF ArgsTooBig
  <2>3. CASE j \in early
    <3>1. kid'[j] = Exited(j, 0)[j] /\ kid[j].st = "forked" BY <2>1, <2>2, <2>3 DEF ArgsTooBig
    <3> QED BY <2>1, <3>1 DEF Exited, TypeOK, Live
  <2>4. CASE j \notin early
    <3>1. kid'[j] = kid[j] BY <2>1, <2>2, <2>4 DEF ArgsTooBig
    <3> QED BY <2>1, <3>1 DEF Live
  <2> QED BY <2>3, <2>4
<1>4. Quiet' BY <1>1 DEF Quiet, Active, Bookkeeping
<1>5. Lists' BY <1>1, <1>2 DEF Lists, Active, Bookkeeping
<1>6. Shares' BY <1>1, <1>2, <1>3 DEF Shares, Active, Bookkeeping
<1>7. Aimed' /\ ChildrenKnown' BY <1>1 DEF Aimed, ChildrenKnown
<1> QED BY <1>4, <1>5, <1>6, <1>7 DEF Bookkeeping

LEMMA DrainBookkeeping ==
  ASSUME TypeOK, Bookkeeping, NEW k \in Pids, Drain(k)
  PROVE  Bookkeeping'
<1> USE DEF procVars, callVars
<1>1. /\ UNCHANGED <<pc, nfiles, dest, procs, batch, sendTo, pid, sshFail, starting>>
      /\ pc = "drain" /\ kid' = Forget(k)
  BY DEF Drain
<1>2. NumProcs' = NumProcs BY <1>1 DEF NumProcs
<1>3. Live' \subseteq Live /\ \A j \in Live' : kid'[j] = kid[j] BY <1>1, ForgetLive
<1>4. Quiet' BY <1>1 DEF Quiet, Active, Bookkeeping
<1>5. Lists' BY <1>1, <1>2 DEF Lists, Active, Bookkeeping
<1>6. Shares' BY <1>1, <1>2, <1>3 DEF Shares, Active, Bookkeeping
<1>7. Aimed' /\ ChildrenKnown' BY <1>1 DEF Aimed, ChildrenKnown
<1> QED BY <1>4, <1>5, <1>6, <1>7 DEF Bookkeeping

LEMMA BookkeepingStep ==
  ASSUME TypeOK, Bookkeeping, [Next]_vars
  PROVE  Bookkeeping'
<1> USE DEF callVars, procVars
<1>1. ASSUME NEW n \in 1..MaxFiles, Sync(n) PROVE Bookkeeping'
  BY <1>1 DEF Sync, Bookkeeping, Quiet, Lists, Shares, Aimed, ChildrenKnown, Active, Live
<1>2. CASE LaunchProcs
  BY <1>2, LaunchBookkeeping
<1>3. ASSUME NEW p \in Ids, NEW k \in Pids, Fork(p, k) PROVE Bookkeeping'
  BY <1>3, ForkBookkeeping
<1>4. CASE Return
  BY <1>4 DEF Return, Bookkeeping, Quiet, Lists, Shares, Aimed, ChildrenKnown, Active, Live
<1>5. ASSUME NEW k \in Pids, NEW p \in Ids, Success(k, p) PROVE Bookkeeping'
  BY <1>5, SuccessBookkeeping
<1>6. ASSUME NEW k \in Pids, NEW p \in Ids, NEW early \in SUBSET Pids, ArgsTooBig(k, p, early)
      PROVE Bookkeeping'
  BY <1>6, ArgsTooBigBookkeeping
<1>7. ASSUME NEW k \in Pids, NEW p \in Ids, TryAgain(k, p) PROVE Bookkeeping'
  BY <1>7, TryAgainBookkeeping
<1>8. ASSUME NEW k \in Pids, NEW p \in Ids, SshFails(k, p) PROVE Bookkeeping'
  BY <1>8, SshFailsBookkeeping
<1>9. ASSUME NEW k \in Pids, NEW p \in Ids, Failover(k, p) PROVE Bookkeeping'
  BY <1>9, FailoverBookkeeping
<1>10. ASSUME NEW k \in Pids, Drain(k) PROVE Bookkeeping'
  BY <1>10, DrainBookkeeping
<1>11. CASE IncHeadroom
  BY <1>11 DEF IncHeadroom, Bookkeeping, Quiet, Lists, Shares, Aimed, ChildrenKnown, Active, Live
<1>12. CASE Fail
  BY <1>12, FailBookkeeping
<1>13. ASSUME NEW k \in Pids, Exec(k) PROVE Bookkeeping'
  <2>1. /\ Live' = Live
        /\ \A j \in Live' : /\ kid'[j].owner = kid[j].owner
                            /\ kid'[j].files = kid[j].files
                            /\ kid'[j].to = kid[j].to
    BY <1>13 DEF Exec, Live, TypeOK, KidType
  <2> QED BY <1>13, <2>1, ChildFrame DEF Exec, childUnchanged
<1>14. ASSUME NEW k \in Pids, NEW error \in Errnos, ExecFails(k, error) PROVE Bookkeeping'
  <2>1. k \in Live /\ kid' = Exited(k, CHECK_SHMEM) BY <1>14 DEF ExecFails, Live
  <2> QED BY <1>14, <2>1, ExitedLive, ChildFrame DEF ExecFails, childUnchanged
<1>15. ASSUME NEW k \in Pids, NEW code \in ExitCodes, NEW F \in SUBSET (0..nfiles-1),
              Exit(k, code, F)
       PROVE Bookkeeping'
  <2>1. k \in Live /\ kid' = Exited(k, code) BY <1>15 DEF Exit, Live
  <2> QED BY <1>15, <2>1, ExitedLive, ChildFrame DEF Exit, childUnchanged
<1>16. ASSUME NEW k \in Pids, NEW F \in SUBSET (0..nfiles-1), Killed(k, F) PROVE Bookkeeping'
  <2>1. k \in Live /\ kid' = Exited(k, 0) BY <1>16 DEF Killed, Live
  <2> QED BY <1>16, <2>1, ExitedLive, ChildFrame DEF Killed, childUnchanged
<1>17. CASE Restart
  BY <1>17 DEF Restart, Bookkeeping, Quiet, Lists, Shares, Aimed, ChildrenKnown, Active, Live
<1>18. CASE UNCHANGED vars
  BY <1>18, ChildFrame DEF vars, Live
<1>19. CASE Parent
  BY <1>19, <1>2, <1>3, <1>4, <1>5, <1>6, <1>7, <1>8, <1>9, <1>10, <1>11, <1>12
     DEF Parent, NoChildren, ExecError, GiveUp, OutOfRoom
<1> QED
  BY <1>1, <1>12, <1>13, <1>14, <1>15, <1>16, <1>17, <1>18, <1>19
     DEF Next, Child, ForkFails

LEMMA InitBookkeeping == Init => TypeOK /\ Bookkeeping
<1>1. Init => Live = {} BY NoKidType DEF Init, Live
<1>2. Init => Bookkeeping
  BY <1>1 DEF Init, Bookkeeping, Quiet, Lists, Shares, Aimed, ChildrenKnown, Active
<1> QED BY <1>2, InitType

LEMMA BookkeepingInv == Spec => [](TypeOK /\ Bookkeeping)
<1>1. Init => TypeOK /\ Bookkeeping
  BY InitBookkeeping
<1>2. TypeOK /\ Bookkeeping /\ [Next]_vars => (TypeOK /\ Bookkeeping)'
  BY TypeStep, BookkeepingStep
<1> QED BY <1>1, <1>2, PTL DEF Spec

\* Bookkeeping of handle_returned_procs: while the parent waits, every child is
\* known to exactly the object that launched it, and no object is forgotten.
THEOREM ChildrenKnownCorrect == Spec => []ChildrenKnown
<1>1. Bookkeeping => ChildrenKnown BY DEF Bookkeeping
<1> QED BY <1>1, BookkeepingInv, PTL

\* No file is ever with two running sync programs, whatever fails and is retried.
THEOREM NoFileTwiceCorrect == Spec => []NoFileTwice
<1>1. ASSUME TypeOK, Bookkeeping PROVE NoFileTwice
  <2>1. SUFFICES ASSUME NEW j \in Live, NEW k \in Live, NEW f \in kid[j].files, f \in kid[k].files
                 PROVE  j = k
    BY DEF NoFileTwice
  <2>2. Active BY <1>1 DEF Bookkeeping, Quiet
  <2>3. f % NumProcs = kid[j].owner /\ pid[kid[j].owner] = j
    BY <1>1, <2>1, <2>2 DEF Bookkeeping, Shares
  <2>4. f % NumProcs = kid[k].owner /\ pid[kid[k].owner] = k
    BY <1>1, <2>1, <2>2 DEF Bookkeeping, Shares
  <2> QED BY <2>3, <2>4
<1> QED BY <1>1, BookkeepingInv, PTL

\* Every running child sends to the current destination, also after failover.
THEOREM FailoverCoherentCorrect == Spec => []FailoverCoherent
<1>1. Bookkeeping => FailoverCoherent BY DEF Bookkeeping, Aimed, FailoverCoherent
<1> QED BY <1>1, BookkeepingInv, PTL

\* The destination and the memory limit change only when no child runs, and the
\* destination only after every process of the call has failed to connect.
THEOREM QuietChangeCorrect == Spec => QuietChange
<1> DEFINE Keeps == maxMem' = maxMem /\ dest' = dest
           Step == /\ maxMem' # maxMem \/ dest' # dest => Live' = {}
                   /\ dest' # dest /\ pc = "wait" =>
                        procs = 0..NumProcs-1 /\ starting' = procs /\ procs' = procs
<1>1. Keeps => Step OBVIOUS
<1> HIDE DEF Step, Keeps
<1>2. ASSUME TypeOK, Bookkeeping, [Next]_vars PROVE Step
  <2> USE DEF callVars, procVars
  <2>1. ASSUME NEW k \in Pids, NEW p \in Ids, Failover(k, p) PROVE Step
    <3>1. Returned(k, p) /\ LastToFail(p) /\ kid' = Forget(k)
      BY <2>1 DEF Failover, SyncError
    <3>2. procs = 0..NumProcs-1 /\ Live' = {} BY <1>2, <3>1, AllAside
    <3>3. procs' = procs /\ starting' = procs BY <2>1 DEF Failover
    <3> QED BY <3>2, <3>3 DEF Step
  <2>2. CASE IncHeadroom
    <3>1. pc = "drain" /\ dest' = dest /\ Live' = {} BY <2>2 DEF IncHeadroom, Live
    <3> QED BY <3>1 DEF Step
  <2>3. CASE Restart
    <3>1. pc = "failed" /\ kid' = kid BY <2>3 DEF Restart
    <3>2. Live = {} BY <1>2, <3>1 DEF Bookkeeping, Quiet, Active
    <3>3. Live' = {} BY <3>1, <3>2 DEF Live
    <3> QED BY <3>1, <3>3 DEF Step
  <2>4. Fail => Keeps BY DEF Fail, Keeps
  <2>5. LaunchProcs \/ Return => Keeps BY DEF LaunchProcs, Return, Keeps
  <2>6. ASSUME NEW k \in Pids, NEW p \in Ids,
               \/ Fork(p, k) \/ Success(k, p) \/ TryAgain(k, p) \/ SshFails(k, p)
               \/ Drain(k) \/ \E early \in SUBSET Pids : ArgsTooBig(k, p, early)
        PROVE  Keeps
    BY <2>6 DEF Fork, Success, TryAgain, SshFails, Drain, ArgsTooBig, Keeps
  <2>7. ASSUME NEW k \in Pids, Child(k) \/ \E F \in SUBSET (0..nfiles-1) : Killed(k, F)
        PROVE  Keeps
    BY <2>7 DEF Child, Exec, ExecFails, Exit, Killed, childUnchanged, Keeps
  <2>8. (\E n \in 1..MaxFiles : Sync(n)) \/ UNCHANGED vars => Keeps
    BY DEF Sync, vars, Keeps
  <2>9. ASSUME NEW k \in Pids, Drain(k) PROVE Keeps
    BY <2>9 DEF Drain, Keeps
  <2>10. CASE Parent
    BY <1>1, <2>1, <2>2, <2>4, <2>5, <2>6, <2>9, <2>10
    DEF Parent, NoChildren, ExecError, GiveUp, OutOfRoom
  <2> QED BY <1>1, <1>2, <2>3, <2>4, <2>7, <2>8, <2>10 DEF Next, ForkFails
<1>3. TypeOK /\ Bookkeeping /\ [Next]_vars => [Step]_vars BY <1>2
<1>4. Spec => [][Step]_vars BY <1>3, BookkeepingInv, PTL DEF Spec
<1> QED BY <1>4 DEF Step, QuietChange

-----------------------------------------------------------------------------
(* The limit for the arguments.                                            *)

\* What an object in the list holds for its child is below the limit in force.
Fitting ==
  /\ Active => \A p \in procs :
       batch[p] # {} => StartMem + SumFunctionOnSet(mem, batch[p]) < maxMem
  /\ pc = "launch" => procs = {}

\* The last file that consume() has taken was tested with all that it had taken before.
LEMMA TakenFits ==
  ASSUME TypeOK, NEW p \in Ids, NEW i \in Nat, Taken(p, i) # {}
  PROVE  StartMem + SumFunctionOnSet(mem, Taken(p, i)) < maxMem
<1>1. Taken(p, i) \subseteq 0..nfiles-1 /\ nfiles \in Nat
  BY StopIsPosition, SyncerAssumption DEF TypeOK
<1>2. PICK f \in Taken(p, i) : \A g \in Taken(p, i) : g <= f
  <2> DEFINE S == {nfiles - g : g \in Taken(p, i)}
  <2>1. S \subseteq Nat /\ S # {} BY <1>1
  <2>2. PICK x \in S : \A y \in S : x <= y
    <3> HIDE DEF S
    <3> QED BY <2>1, LeastElement
  <2>3. PICK f \in Taken(p, i) : x = nfiles - f OBVIOUS
  <2>4. ASSUME NEW g \in Taken(p, i) PROVE g <= f
    <3>1. nfiles - g \in S OBVIOUS
    <3>2. f \in 0..nfiles-1 /\ g \in 0..nfiles-1 BY <1>1
    <3>3. nfiles - f <= nfiles - g
      <4> HIDE DEF S
      <4> QED BY <2>2, <2>3, <3>1
    <3> QED BY <1>1, <3>2, <3>3
  <2> QED BY <2>4
<1>3. Stop(p, i) \in 0..nfiles BY StopIsPosition
<1>4. Fits(p, i, f)
  <2>1. f \in Track(p, i) /\ f < Stop(p, i) BY DEF Taken
  <2>2. f \in Nat BY <1>1
  <2>3. SUFFICES ASSUME f \in TooMuch(p, i) PROVE FALSE
    BY <2>1 DEF TooMuch
  <2>4. TooMuch(p, i) \subseteq Nat BY DEF TooMuch, Track
  <2>5. \E x \in TooMuch(p, i) : \A y \in TooMuch(p, i) : x <= y
    BY <2>3, <2>4, LeastElement
  <2>6. Stop(p, i) <= f BY <2>3, <2>5 DEF Stop
  <2> QED BY <1>3, <2>1, <2>2, <2>6
<1>5. {g \in Track(p, i) : g <= f} = Taken(p, i)
  <2>1. f < Stop(p, i) /\ f \in Nat BY <1>1 DEF Taken
  <2>2. Track(p, i) \subseteq Nat BY DEF Track
  <2>3. ASSUME NEW g \in Track(p, i), g <= f PROVE g < Stop(p, i)
    BY <1>3, <2>1, <2>2, <2>3
  <2> QED BY <1>2, <2>3 DEF Taken
<1> QED BY <1>4, <1>5 DEF Fits

LEMMA FittingStep ==
  ASSUME TypeOK, Bookkeeping, Fitting, [Next]_vars
  PROVE  Fitting'
<1> USE DEF callVars, procVars
<1> DEFINE Frame == UNCHANGED <<mem, maxMem, procs, batch>> /\ (Active' => Active)
                    /\ (pc' = "launch" => pc = "launch")
<1>1. Frame => Fitting' BY DEF Fitting
<1> HIDE DEF Frame
<1>2. ASSUME NEW n \in 1..MaxFiles, Sync(n) PROVE Fitting'
  BY <1>2 DEF Sync, Fitting, Active, Bookkeeping, Quiet
<1>3. CASE LaunchProcs
  <2>1. procs' = 0..NumProcs-1 /\ pc' = "wait" /\ UNCHANGED <<nfiles, mem, maxMem>>
        /\ batch' = [p \in Ids |-> IF p \in procs' THEN Taken(p, p) ELSE {}]
    BY <1>3 DEF LaunchProcs
  <2>2. procs' \subseteq Ids BY <1>3, <2>1, NumProcsRange DEF LaunchProcs, TypeOK
  <2>3. ASSUME NEW p \in procs', batch'[p] # {}
        PROVE  StartMem + SumFunctionOnSet(mem', batch'[p]) < maxMem'
    <3>1. p \in Ids /\ p \in Nat /\ batch'[p] = Taken(p, p)
      BY <2>1, <2>2, SyncerAssumption DEF Ids
    <3> QED BY <2>1, <2>3, <3>1, TakenFits
  <2> QED BY <2>1, <2>3 DEF Fitting
<1>4. ASSUME NEW k \in Pids, NEW p \in Ids, Success(k, p) PROVE Fitting'
  <2>1. pc = "wait" /\ p \in procs /\ UNCHANGED <<pc, mem, maxMem>>
    BY <1>4 DEF Success, Returned, Wait
  <2>2. itr[p] \in Nat BY DEF TypeOK
  <2>3. ASSUME NEW q \in procs', batch'[q] # {}
        PROVE  StartMem + SumFunctionOnSet(mem', batch'[q]) < maxMem'
    <3>1. q \in procs /\ q \in Ids BY <1>4 DEF Success, TypeOK
    <3>2. CASE q # p
      <4>1. batch'[q] = batch[q] BY <1>4, <3>1, <3>2 DEF Success, TypeOK
      <4> QED BY <2>1, <2>3, <3>1, <4>1 DEF Fitting, Active
    <3>3. CASE q = p
      <4>1. ~Done(p) BY <1>4, <2>3, <3>3 DEF Success, TypeOK
      <4>2. batch'[p] = Taken(p, itr[p]) BY <1>4, <4>1 DEF Success, TypeOK
      <4> QED BY <2>1, <2>2, <2>3, <3>3, <4>2, TakenFits
    <3> QED BY <3>2, <3>3
  <2> QED BY <2>1, <2>3 DEF Fitting
<1>5. CASE Fail \/ IncHeadroom \/ Restart
  BY <1>5 DEF Fail, IncHeadroom, Restart, Fitting, Active
<1>6. ASSUME NEW k \in Pids, NEW p \in Ids,
             \/ Fork(p, k) \/ TryAgain(k, p) \/ SshFails(k, p) \/ Failover(k, p)
             \/ Drain(k) \/ \E early \in SUBSET Pids : ArgsTooBig(k, p, early)
      PROVE  Fitting'
  <2>1. Fork(p, k) \/ TryAgain(k, p) \/ SshFails(k, p) \/ Failover(k, p) \/ Drain(k) => Frame
    BY DEF Fork, TryAgain, SshFails, Failover, Drain, Active, Frame
  <2>2. ASSUME NEW early \in SUBSET Pids, ArgsTooBig(k, p, early) PROVE Frame
    BY <2>2 DEF ArgsTooBig, ExecFailed, Returned, Wait, Active, Frame
  <2> QED BY <1>1, <1>6, <2>1, <2>2
<1>7. ASSUME NEW k \in Pids, Drain(k) PROVE Frame
  BY <1>7 DEF Drain, Active, Frame
<1>8. ASSUME NEW k \in Pids, Child(k) \/ \E F \in SUBSET (0..nfiles-1) : Killed(k, F)
      PROVE  Frame
  BY <1>8 DEF Child, Exec, ExecFails, Exit, Killed, childUnchanged, Active, Frame
<1>9. CASE UNCHANGED vars
  BY <1>1, <1>9 DEF vars, Active, Frame
<1>10. Return => Fitting'
  BY DEF Return, Fitting, Active
<1>11. CASE Parent
  BY <1>1, <1>3, <1>4, <1>5, <1>6, <1>7, <1>10, <1>11
     DEF Parent, NoChildren, ExecError, GiveUp, OutOfRoom
<1> QED BY <1>1, <1>2, <1>5, <1>8, <1>9, <1>11 DEF Next, ForkFails

\* A child's arguments never exceed the limit in force when it was launched, or the
\* lower one after E2BIG, for any sizes of the paths: consume()'s test is not off by one.
THEOREM BatchFitsCorrect == Spec => []BatchFits
<1>1. Init => Fitting BY DEF Init, Fitting, Active
<1>2. TypeOK /\ Bookkeeping /\ Fitting /\ [Next]_vars => Fitting' BY FittingStep
<1>3. ASSUME Bookkeeping, Fitting PROVE BatchFits
  <2>1. \A k \in Live : Active /\ kid[k].owner \in procs /\ kid[k].files = batch[kid[k].owner]
    BY <1>3 DEF Bookkeeping, Quiet, Shares
  <2> QED BY <1>3, <2>1 DEF BatchFits, Fitting
<1> QED BY <1>1, <1>2, <1>3, BookkeepingInv, PTL DEF Spec

-----------------------------------------------------------------------------
(* Failover.                                                               *)

LEMMA FailoverInTimeStep ==
  ASSUME TypeOK, Bookkeeping, FailoverInTime, [Next]_vars
  PROVE  FailoverInTime'
<1> USE DEF callVars, procVars
<1> DEFINE Frame == UNCHANGED <<nfiles, procs, sshFail>> /\ (pc' = "wait" => pc = "wait")
           Cleared == sshFail' = {} /\ (pc' = "wait" => nfiles' = nfiles /\ nfiles > 0)
<1>1. Frame => FailoverInTime' BY DEF FailoverInTime, NumProcs
<1>2. ASSUME Cleared PROVE FailoverInTime'
  <2>1. ASSUME pc' = "wait" PROVE 0..NumProcs'-1 # {}
    <3>1. NumProcs' = NumProcs /\ NumProcs \in Nat \ {0}
      BY <1>2, <2>1, NumProcsRange DEF NumProcs
    <3> QED BY <3>1
  <2> QED BY <1>2, <2>1 DEF FailoverInTime
<1>3. ASSUME NEW k \in Pids, NEW p \in Ids, SshFails(k, p) PROVE FailoverInTime'
  <2>1. UNCHANGED <<pc, nfiles, procs>> /\ sshFail' = sshFail \cup {p} /\ ~LastToFail(p)
        /\ pc = "wait"
    BY <1>3 DEF SshFails, SyncError, Returned, Wait
  <2>2. NumProcs' = NumProcs /\ NumProcs \in Nat \ {0}
    BY <2>1, NumProcsRange DEF NumProcs, TypeOK
  <2>3. SUFFICES ASSUME sshFail' = 0..NumProcs-1 PROVE FALSE
    BY <2>1, <2>2 DEF FailoverInTime
  <2>4. Cardinality(0..NumProcs-1) = NumProcs BY <2>2, FS_Interval
  <2>5. Cardinality(sshFail \cup {p}) = NumProcs
    <3> HIDE DEF NumProcs
    <3> QED BY <2>1, <2>3, <2>4, Zenon
  <2> QED BY <2>1, <2>2, <2>5 DEF LastToFail
<1>4. ASSUME NEW k \in Pids, NEW p \in Ids, Success(k, p) \/ Failover(k, p)
      PROVE  FailoverInTime'
  <2>1. Cleared BY <1>4 DEF Success, Failover, SyncError, Returned, Wait, TypeOK
  <2> QED BY <1>2, <2>1
<1>5. CASE LaunchProcs \/ IncHeadroom \/ Fail \/ Restart \/ \E n \in 1..MaxFiles : Sync(n)
  <2>1. LaunchProcs => Cleared BY DEF LaunchProcs, TypeOK
  <2>2. IncHeadroom \/ Fail \/ Restart \/ (\E n \in 1..MaxFiles : Sync(n)) => pc' # "wait"
    BY DEF IncHeadroom, Fail, Restart, Sync
  <2> QED BY <1>2, <1>5, <2>1, <2>2 DEF FailoverInTime
<1> HIDE DEF Frame, Cleared
<1>6. ASSUME NEW k \in Pids, NEW p \in Ids,
             \/ Fork(p, k) \/ TryAgain(k, p)
             \/ \E early \in SUBSET Pids : ArgsTooBig(k, p, early)
      PROVE  Frame
  <2>1. Fork(p, k) \/ TryAgain(k, p) => Frame
    BY DEF Fork, TryAgain, Frame
  <2>2. ASSUME NEW early \in SUBSET Pids, ArgsTooBig(k, p, early) PROVE Frame
    BY <2>2 DEF ArgsTooBig, Frame
  <2> QED BY <1>6, <2>1, <2>2
<1>7. ASSUME NEW k \in Pids, Drain(k) PROVE Frame
  BY <1>7 DEF Drain, Frame
<1>8. ASSUME NEW k \in Pids, Child(k) \/ \E F \in SUBSET (0..nfiles-1) : Killed(k, F)
      PROVE  Frame
  BY <1>8 DEF Child, Exec, ExecFails, Exit, Killed, childUnchanged, Frame
<1>9. Return \/ UNCHANGED vars => Frame
  BY DEF Return, vars, Frame
<1>10. CASE Parent
  BY <1>1, <1>3, <1>4, <1>5, <1>6, <1>7, <1>9, <1>10
     DEF Parent, NoChildren, ExecError, GiveUp, OutOfRoom
<1> QED BY <1>1, <1>5, <1>8, <1>9, <1>10 DEF Next, ForkFails

\* Whatever the number of processes, the next destination is tried as soon as all have
\* failed to connect, unless one of them has finished.
THEOREM FailoverInTimeCorrect == Spec => []FailoverInTime
<1>1. Init => FailoverInTime BY DEF Init, FailoverInTime
<1>2. TypeOK /\ Bookkeeping /\ FailoverInTime /\ [Next]_vars => FailoverInTime'
  BY FailoverInTimeStep
<1> QED BY <1>1, <1>2, BookkeepingInv, PTL DEF Spec

-----------------------------------------------------------------------------
(* No file is lost.  This needs that no signal from outside kills a child: *)
(* the exit code 0 of such a child is not to be believed.                  *)

LEMMA ModRange ==
  ASSUME NEW f \in Nat, NEW n \in Nat \ {0}
  PROVE  f % n \in 0..n-1 /\ f % n <= f
OBVIOUS

LEMMA FailProgress ==
  ASSUME Fail
  PROVE  Progressed'
BY DEF Fail, Progressed, Honest, NothingLost, SuccessMeansDelivered

\* What a reaped step with the same lists and batches keeps.
LEMMA ProgressFrame ==
  ASSUME TypeOK, TypeOK', Progressed,
         UNCHANGED <<pc, nfiles, procs, itr, batch>>, delivered \subseteq delivered',
         pc # "idle",
         \A j \in Pids : kid'[j].st = "exited" /\ kid'[j].code = SUCCESS =>
                           \/ kid'[j] = kid[j]
                           \/ kid'[j].files \subseteq delivered'
  PROVE  Progressed'
<1>1. NumProcs' = NumProcs BY DEF NumProcs
<1>2. Honest' BY DEF Progressed, Honest
<1>3. NothingLost' BY <1>1 DEF Progressed, NothingLost
<1>4. SuccessMeansDelivered' BY DEF SuccessMeansDelivered
<1> QED BY <1>2, <1>3, <1>4 DEF Progressed

LEMMA LaunchProgress ==
  ASSUME TypeOK, Bookkeeping, LaunchProcs
  PROVE  Progressed'
<1> USE DEF procVars, callVars
<1>1. /\ pc = "launch" /\ pc' = "wait" /\ UNCHANGED <<nfiles, kid>> /\ procs' = 0..NumProcs-1
      /\ itr' = [p \in Ids |-> IF p \in procs' THEN Stop(p, p) ELSE 0]
      /\ batch' = [p \in Ids |-> IF p \in procs' THEN Taken(p, p) ELSE {}]
  BY DEF LaunchProcs
<1>2. NumProcs' = NumProcs BY <1>1 DEF NumProcs
<1>3. NumProcs \in Nat \ {0} /\ procs' \subseteq Ids /\ nfiles \in Nat
  BY <1>1, NumProcsRange, SyncerAssumption DEF TypeOK
<1>4. Honest'
  <2>1. Live = {} BY <1>1 DEF Bookkeeping, Quiet, Active
  <2> QED BY <1>1, <2>1 DEF Honest, Live
<1>5. ASSUME NEW f \in 0..nfiles-1
      PROVE  LET p == f % NumProcs IN p \in procs' /\ (f \in batch'[p] \/ f >= itr'[p])
  <2> DEFINE p == f % NumProcs
  <2>0. f \in Nat /\ f <= nfiles-1 BY <1>3
  <2>1. p \in 0..NumProcs-1 /\ p <= f BY <1>3, <2>0, ModRange
  <2>2. p \in procs' /\ p \in Ids /\ p \in Nat BY <1>1, <1>3, <2>1
  <2>3. itr'[p] = Stop(p, p) /\ batch'[p] = Taken(p, p) BY <1>1, <2>2
  <2>4. Stop(p, p) \in Nat BY <2>2, StopIsPosition DEF TypeOK
  <2>5. f \in Track(p, p) BY <1>3, <2>1 DEF Track
  <2>6. f \in Taken(p, p) \/ f >= Stop(p, p) BY <2>4, <2>5 DEF Taken
  <2> QED BY <2>2, <2>3, <2>6
<1>6. NothingLost' BY <1>1, <1>2, <1>5 DEF NothingLost
<1>7. SuccessMeansDelivered' BY <1>1 DEF SuccessMeansDelivered
<1> QED BY <1>4, <1>6, <1>7 DEF Progressed

LEMMA SuccessProgress ==
  ASSUME TypeOK, Bookkeeping, Progressed, NEW k \in Pids, NEW p \in Ids, Success(k, p)
  PROVE  Progressed'
<1> USE DEF procVars, callVars
<1>1. Returned(k, p) /\ kid[k].code = SUCCESS /\ kid' = Forget(k)
      /\ UNCHANGED <<pc, nfiles, delivered>>
  BY DEF Success
<1>2. NumProcs' = NumProcs BY <1>1 DEF NumProcs
<1>3. pc = "wait" /\ p \in procs /\ kid[k].files = batch[p] /\ kid[k].st = "exited"
  BY <1>1, ReturnedOwner DEF Returned, Wait, Live, Bookkeeping, Shares
<1>4. batch[p] \subseteq delivered BY <1>1, <1>3 DEF Progressed, Honest
<1>5. Honest'
  <2>1. \A j \in Pids : kid'[j].st # "none" => kid'[j] = kid[j]
    BY <1>1, ForgetLive DEF Live
  <2> QED BY <1>1, <2>1 DEF Progressed, Honest
<1>6. ASSUME NEW f \in 0..nfiles-1, f \notin delivered
      PROVE  LET q == f % NumProcs IN q \in procs' /\ (f \in batch'[q] \/ f >= itr'[q])
  <2> DEFINE q == f % NumProcs
  <2>1. q \in procs /\ (f \in batch[q] \/ f >= itr[q])
    BY <1>3, <1>6 DEF Progressed, NothingLost
  <2>2. q \in Ids BY <2>1 DEF TypeOK
  <2>3. CASE q # p
    <3>1. itr'[q] = itr[q] /\ batch'[q] = batch[q] /\ q \in procs'
      BY <2>1, <2>2, <2>3 DEF Success, TypeOK
    <3> QED BY <2>1, <3>1
  <2>4. CASE q = p
    <3>1. f >= itr[p] BY <1>4, <1>6, <2>1, <2>4
    <3>2. itr[p] \in Nat /\ nfiles \in Nat BY SyncerAssumption DEF TypeOK
    <3>3. ~Done(p) BY <1>6, <3>1, <3>2 DEF Done
    <3>4. itr'[p] = Stop(p, itr[p]) /\ batch'[p] = Taken(p, itr[p]) /\ p \in procs'
      BY <1>3, <3>3 DEF Success, TypeOK
    <3>5. f \in Track(p, itr[p]) BY <2>4, <3>1, <3>2 DEF Track
    <3>6. Stop(p, itr[p]) \in Nat BY <3>2, StopIsPosition DEF TypeOK
    <3>7. f \in Taken(p, itr[p]) \/ f >= Stop(p, itr[p]) BY <3>5, <3>6 DEF Taken
    <3> QED BY <2>4, <3>4, <3>7
  <2> QED BY <2>3, <2>4
<1>7. NothingLost' BY <1>1, <1>2, <1>6 DEF NothingLost
<1>8. SuccessMeansDelivered' BY <1>1, <1>3 DEF SuccessMeansDelivered
<1> QED BY <1>5, <1>7, <1>8 DEF Progressed

LEMMA ReturnProgress ==
  ASSUME TypeOK, Progressed, Return
  PROVE  Progressed'
<1>1. pc = "wait" /\ procs = {} /\ pc' = "idle" /\ UNCHANGED <<nfiles, delivered>>
  BY DEF Return, callVars
<1>2. delivered = 0..nfiles-1 BY <1>1 DEF Progressed, NothingLost, TypeOK
<1> QED BY <1>1, <1>2 DEF Progressed, Honest, NothingLost, SuccessMeansDelivered

LEMMA ProgressedStep ==
  ASSUME TypeOK, TypeOK', Bookkeeping, Progressed, ~Signals, [Next]_vars
  PROVE  Progressed'
<1>1. ASSUME NEW n \in 1..MaxFiles, Sync(n) PROVE Progressed'
  BY <1>1 DEF Sync, Progressed, Honest, NothingLost, SuccessMeansDelivered
<1>2. ASSUME NEW p \in Ids, NEW k \in Pids, Fork(p, k) PROVE Progressed'
  <2>1. UNCHANGED <<pc, nfiles, procs, itr, batch, delivered>> /\ p \in starting
    BY <1>2 DEF Fork, callVars
  <2>2. pc # "idle" BY <2>1 DEF Bookkeeping, Quiet
  <2>3. kid'[k].st = "forked" /\ \A j \in Pids : j # k => kid'[j] = kid[j]
    BY <1>2 DEF Fork, TypeOK
  <2> QED BY <2>1, <2>2, <2>3, ProgressFrame
<1>3. ASSUME NEW k \in Pids, NEW p \in Ids, TryAgain(k, p) \/ SshFails(k, p) \/ Failover(k, p)
      PROVE Progressed'
  <2>1. Returned(k, p) /\ kid' = Forget(k)
        /\ UNCHANGED <<pc, nfiles, procs, itr, batch, delivered>>
    BY <1>3 DEF TryAgain, SshFails, Failover, SyncError, callVars, procVars
  <2>2. pc # "idle" BY <2>1 DEF Returned, Wait
  <2>3. \A j \in Pids : kid'[j].st # "none" => kid'[j] = kid[j]
    BY <2>1, ForgetLive DEF Live
  <2> QED BY <2>1, <2>2, <2>3, ProgressFrame
<1>4. CASE \/ \E k \in Pids, p \in Ids, early \in SUBSET Pids : ArgsTooBig(k, p, early)
           \/ \E k \in Pids : Drain(k)
           \/ IncHeadroom
  BY <1>4 DEF ArgsTooBig, Drain, IncHeadroom, Progressed, Honest, NothingLost,
              SuccessMeansDelivered
<1>5. ASSUME NEW k \in Pids, Exec(k) PROVE Progressed'
  <2>1. UNCHANGED <<pc, nfiles, procs, itr, batch, delivered>> /\ k \in Live
    BY <1>5 DEF Exec, childUnchanged, callVars, Live
  <2>2. pc # "idle" BY <2>1 DEF Bookkeeping, Quiet, Active
  <2>3. kid'[k].st = "execed" /\ \A j \in Pids : j # k => kid'[j] = kid[j]
    BY <1>5 DEF Exec, TypeOK, KidType
  <2> QED BY <2>1, <2>2, <2>3, ProgressFrame
<1>6. ASSUME NEW k \in Pids, NEW error \in Errnos, ExecFails(k, error) PROVE Progressed'
  <2>1. UNCHANGED <<pc, nfiles, procs, itr, batch, delivered>> /\ k \in Live
    BY <1>6 DEF ExecFails, childUnchanged, callVars, Live
  <2>2. pc # "idle" BY <2>1 DEF Bookkeeping, Quiet, Active
  <2>3. kid'[k].code # SUCCESS /\ \A j \in Pids : j # k => kid'[j] = kid[j]
    BY <1>6 DEF ExecFails, Exited, TypeOK, CHECK_SHMEM, SUCCESS
  <2> QED BY <2>1, <2>2, <2>3, ProgressFrame
<1>7. ASSUME NEW k \in Pids, NEW code \in ExitCodes, NEW F \in SUBSET (0..nfiles-1),
             Exit(k, code, F)
      PROVE Progressed'
  <2>1. UNCHANGED <<pc, nfiles, procs, itr, batch>> /\ k \in Live
        /\ delivered' = delivered \cup F
    BY <1>7 DEF Exit, childUnchanged, callVars, Live
  <2>2. pc # "idle" BY <2>1 DEF Bookkeeping, Quiet, Active
  <2>3. /\ kid'[k].code = SUCCESS => kid'[k].files \subseteq F
        /\ \A j \in Pids : j # k => kid'[j] = kid[j]
    BY <1>7 DEF Exit, Exited, TypeOK
  <2> QED BY <2>1, <2>2, <2>3, ProgressFrame
<1>8. CASE Restart
  BY <1>8 DEF Restart, Progressed, Honest, NothingLost, SuccessMeansDelivered
<1>9. CASE UNCHANGED vars
  BY <1>9 DEF vars, callVars, procVars, Progressed, Honest, NothingLost, SuccessMeansDelivered,
             NumProcs
<1>10. CASE Parent
  BY <1>10, <1>2, <1>3, <1>4, LaunchProgress, SuccessProgress, ReturnProgress, FailProgress
     DEF Parent, NoChildren, ExecError, GiveUp, OutOfRoom
<1> QED
  BY <1>1, <1>5, <1>6, <1>7, <1>8, <1>9, <1>10, FailProgress
     DEF Next, Child, ForkFails, Killed

LEMMA ProgressedInv ==
  ASSUME ~Signals
  PROVE  Spec => []Progressed
<1>1. Init => Progressed
  BY DEF Init, Progressed, Honest, NothingLost, SuccessMeansDelivered
<1>2. TypeOK /\ TypeOK' /\ Bookkeeping /\ Progressed /\ [Next]_vars => Progressed'
  BY ProgressedStep
<1> QED BY <1>1, <1>2, BookkeepingInv, PTL DEF Spec

\* No file is lost on the way through batches, retries, failover and E2BIG
\* relaunches, provided that no signal from outside kills a sync program.
THEOREM NothingLostCorrect ==
  ASSUME ~Signals
  PROVE  Spec => []NothingLost
<1>1. Progressed => NothingLost BY DEF Progressed
<1> QED BY <1>1, ProgressedInv, PTL

\* When sync() returns, the sync program has transferred every file of the call,
\* under the same provision.
THEOREM SuccessMeansDeliveredCorrect ==
  ASSUME ~Signals
  PROVE  Spec => []SuccessMeansDelivered
<1>1. Progressed => SuccessMeansDelivered BY DEF Progressed
<1> QED BY <1>1, ProgressedInv, PTL

-----------------------------------------------------------------------------
(* Syncer implements SyncContract.                                         *)

LEMMA CallStates ==
  /\ pc = "idle" <=> callState = "idle"
  /\ pc = "failed" <=> callState = "failed"
  /\ pc \in {"launch", "wait", "drain"} => callState = "syncing"
BY DEF callState

LEMMA FailContract ==
  ASSUME Fail, pc \in {"launch", "wait", "drain"}
  PROVE  Contract!Fail
BY CallStates DEF Fail, Contract!Fail, callState, callVars

\* Every step of the call is a step of the contract, or changes nothing it sees.
LEMMA ContractStep ==
  ASSUME TypeOK, TypeOK', Bookkeeping, Progressed', ~Signals, [Next]_vars
  PROVE  Contract!Next \/ UNCHANGED Contract!vars
<1> DEFINE Step == Contract!Next \/ UNCHANGED Contract!vars
           Same == UNCHANGED <<callState, nfiles, delivered>>
<1>1. Same => Step BY DEF Contract!vars
<1>2. ASSUME NEW n \in 1..MaxFiles, Sync(n) PROVE Step
  <2>1. Contract!Call(n) BY <1>2 DEF Sync, Contract!Call, callState
  <2> QED BY <2>1 DEF Contract!Next
<1>3. ASSUME NEW k \in Pids, NEW code \in ExitCodes, NEW F \in SUBSET (0..nfiles-1),
             Exit(k, code, F)
      PROVE Step
  <2>1. pc \in {"wait", "drain"} BY <1>3 DEF Exit, Live, Bookkeeping, Quiet, Active
  <2>2. callState = "syncing" BY <2>1 DEF callState
  <2>3. UNCHANGED <<pc, nfiles>> /\ delivered' = delivered \cup F
    BY <1>3 DEF Exit, childUnchanged, callVars
  <2>4. Contract!Deliver(F) BY <2>2, <2>3 DEF Contract!Deliver, callState
  <2> QED BY <2>4 DEF Contract!Next
<1>4. ASSUME Return PROVE Step
  <2>1. pc = "wait" /\ pc' = "idle" /\ UNCHANGED <<nfiles, delivered>> BY <1>4 DEF Return, callVars
  <2>2. delivered = 0..nfiles-1 BY <2>1 DEF Progressed, SuccessMeansDelivered
  <2>3. Contract!Return BY <2>1, <2>2 DEF Contract!Return, callState
  <2> QED BY <2>3 DEF Contract!Next
<1>5. ASSUME Restart PROVE Step
  <2>1. Contract!Restart BY <1>5 DEF Restart, Contract!Restart, callState
  <2> QED BY <2>1 DEF Contract!Next
<1>6. ASSUME Fail, pc \in {"wait", "drain"} PROVE Step
  BY <1>6, FailContract DEF Contract!Next
<1>7. ASSUME NEW k \in Pids, NEW p \in Ids,
             \/ Fork(p, k) \/ Success(k, p) \/ TryAgain(k, p) \/ SshFails(k, p)
             \/ Failover(k, p)
      PROVE Same
  BY <1>7 DEF Fork, Success, TryAgain, SshFails, Failover, callVars, callState
<1>8. ASSUME NEW k \in Pids, NEW p \in Ids, NEW early \in SUBSET Pids, ArgsTooBig(k, p, early)
      PROVE Same
  <2>1. pc = "wait" /\ pc' = "drain" /\ UNCHANGED <<nfiles, delivered>>
    BY <1>8 DEF ArgsTooBig, ExecFailed, Returned, Wait, callVars
  <2> QED BY <2>1 DEF callState
<1>9. ASSUME LaunchProcs \/ IncHeadroom PROVE Same
  <2>1. {pc, pc'} \subseteq {"launch", "wait", "drain"} /\ UNCHANGED <<nfiles, delivered>>
    BY <1>9 DEF LaunchProcs, IncHeadroom, callVars
  <2> QED BY <1>1, <2>1 DEF callState
<1>10. ASSUME NEW k \in Pids, Exec(k) \/ \E error \in Errnos : ExecFails(k, error) PROVE Same
  BY <1>10 DEF Exec, ExecFails, childUnchanged, callVars, callState
<1>11. ASSUME NEW k \in Pids, Drain(k) PROVE Same
  BY <1>11 DEF Drain, callVars, callState
<1>12. UNCHANGED vars => Same BY DEF vars, callVars, callState
<1> HIDE DEF Step, Same
<1>13. ForkFails => Step BY <1>6 DEF ForkFails, Bookkeeping, Quiet
<1>14. \A k \in Pids, p \in Ids :
          ExecError(k, p) \/ GiveUp(k, p) => Fail /\ pc \in {"wait", "drain"}
  BY DEF ExecError, GiveUp, ExecFailed, SyncError, Returned, Wait
<1>15. NoChildren \/ OutOfRoom => Fail /\ pc \in {"wait", "drain"}
  BY DEF NoChildren, OutOfRoom, Wait
<1>16. ASSUME Parent PROVE Step
  BY <1>16, <1>1, <1>4, <1>6, <1>7, <1>8, <1>9, <1>14, <1>15, <1>11 DEF Parent
<1>17. ASSUME NEW k \in Pids, Child(k) PROVE Step
  BY <1>17, <1>1, <1>3, <1>10 DEF Child
<1>18. Step BY <1>1, <1>2, <1>5, <1>12, <1>13, <1>16, <1>17 DEF Next, Killed
<1> QED BY <1>18 DEF Step

\* sync() keeps its promise to the crawler: it returns only when every file it was
\* given has been transferred, or the daemon ends, provided that no signal from
\* outside kills a sync program.
THEOREM ImplementsContractCorrect ==
  ASSUME ~Signals
  PROVE  Spec => ImplementsContract
<1>1. Init => Contract!Init BY DEF Init, Contract!Init, callState
<1>2. TypeOK /\ TypeOK' /\ Bookkeeping /\ Progressed' /\ [Next]_vars
        => [Contract!Next]_(Contract!vars)
  BY ContractStep
<1> QED BY <1>1, <1>2, BookkeepingInv, ProgressedInv, PTL
        DEF Spec, ImplementsContract, Contract!Spec
=============================================================================
