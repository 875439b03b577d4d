----------------------------- MODULE CrawlProofs -----------------------------
(***************************************************************************)
(* What Crawl's specification guarantees for every tree, every number of   *)
(* threads and every choice of the entries that are let through: the       *)
(* threads agree on the end of the search, and the list is complete and    *)
(* free of duplicates.                                                     *)
(***************************************************************************)
EXTENDS Crawl, SourceTreeProofs, FiniteSetTheorems, SequenceTheorems, TLAPS

-----------------------------------------------------------------------------
(* The threads: types, the count, the end of the search.                   *)

\* There are threads only in a search by several of them, and open directories only
\* in a search by one.
Phases ==
  /\ phase # "search" => stack = <<>> /\ \A t \in Workers : pc[t] = "none"
  /\ phase = "search" /\ threads # 1 => stack = <<>>
  /\ phase = "search" =>
       \A t \in Workers : pc[t] = "none" <=> ~ (threads > 1 /\ t <= threads)

\* A thread that waits, or is about to look again, has another one to rely on until
\* the search is over; a thread ends only when it is.
Relied ==
  /\ ~done /\ (\E t \in Workers : pc[t] \in {"wait", "woken"}) => Counted # {}
  /\ (\E t \in Workers : pc[t] = "end") => done

Coordination == Phases /\ Relied /\ RunningCounts /\ DoneIsFinal

\* Counted is a set of the search's threads.
LEMMA CountedFinite ==
  ASSUME TypeOK
  PROVE  IsFiniteSet(Counted) /\ Cardinality(Counted) \in Nat
<1>1. Counted \in SUBSET Workers BY DEF Counted
<1>2. IsFiniteSet(Workers) BY CrawlAssumption, FS_Interval DEF Workers
<1> QED BY <1>1, <1>2, FS_Subset, FS_CardinalityType

\* The count is zero only when no thread runs, and one only when a single one does.
LEMMA CountedSmall ==
  ASSUME TypeOK, RunningCounts
  PROVE  /\ running \in Nat
         /\ \A t \in Counted : running >= 1 /\ (running = 1 => Counted = {t})
         /\ running = 0 => Counted = {}
<1>1. IsFiniteSet(Counted) /\ running = Cardinality(Counted) /\ running \in Nat
  BY CountedFinite DEF RunningCounts
<1>2. running = 0 => Counted = {} BY <1>1, FS_EmptySet
<1>3. ASSUME NEW t \in Counted, running = 1 PROVE Counted = {t}
  <2>1. PICK x : Counted = {x} BY <1>1, <1>3, FS_Singleton
  <2> QED BY <2>1
<1> QED BY <1>1, <1>2, <1>3

\* How the count follows the set.
LEMMA CountedMoves ==
  ASSUME TypeOK, RunningCounts, NEW t \in Workers
  PROVE  /\ Counted' = Counted /\ running' = running => RunningCounts'
         /\ t \notin Counted /\ Counted' = Counted \cup {t} /\ running' = running + 1
              => RunningCounts'
         /\ t \in Counted /\ Counted' = Counted \ {t} /\ running' = running - 1
              => RunningCounts'
<1>1. IsFiniteSet(Counted) BY CountedFinite
<1>2. running = Cardinality(Counted) BY DEF RunningCounts
<1>3. t \notin Counted => Cardinality(Counted \cup {t}) = Cardinality(Counted) + 1
  BY <1>1, FS_AddElement
<1>4. t \in Counted => Cardinality(Counted \ {t}) = Cardinality(Counted) - 1
  BY <1>1, FS_RemoveElement
<1> QED BY <1>2, <1>3, <1>4 DEF RunningCounts

LEMMA CoordinationInit == Init => Coordination
<1> SUFFICES ASSUME Init PROVE Coordination OBVIOUS
<1>1. Counted = {} BY DEF Init, Counted
<1>2. RunningCounts BY <1>1, FS_EmptySet DEF Init, RunningCounts
<1> QED BY <1>2 DEF Init, Coordination, Phases, Relied, DoneIsFinal

\* The three ways to leave no thread at all.
LEMMA CoordinationReset ==
  ASSUME TypeOK, Coordination, Exit \/ Restart \/ Join
  PROVE  Coordination'
<1>1. \A t \in Workers : pc'[t] = "none"
  BY DEF Exit, Restart, Join, Coordination, Phases, TypeOK
<1>2. Counted' = {} BY <1>1 DEF Counted
<1>3. running' = 0
  <2>1. CASE Exit BY <2>1 DEF Exit
  <2>2. CASE Restart \/ Join
    <3>1. \A t \in Workers : pc[t] \in {"none", "end"}
      BY <2>2 DEF Restart, Join, Coordination, Phases, Workers
    <3>2. Counted = {} BY <3>1 DEF Counted
    <3> QED BY <2>2, <3>2, FS_EmptySet DEF Restart, Join, queueVars, Coordination, RunningCounts
  <2> QED BY <2>1, <2>2
<1>4. RunningCounts' BY <1>2, <1>3, FS_EmptySet DEF RunningCounts
<1>5. phase' # "search" BY DEF Exit, Restart, Join
<1>6. stack' = <<>>
  BY DEF Exit, Restart, Join, Coordination, Phases
<1>7. DoneIsFinal'
  <2>1. CASE Exit BY <2>1 DEF Exit, DoneIsFinal
  <2>2. CASE Restart \/ Join
    BY <2>2, <1>1 DEF Restart, Join, queueVars, Coordination, DoneIsFinal
  <2> QED BY <2>1, <2>2
<1> QED BY <1>1, <1>4, <1>5, <1>6, <1>7 DEF Coordination, Phases, Relied

LEMMA CoordinationSearch ==
  ASSUME TypeOK, Coordination, NEW s \in Views, Search(s)
  PROVE  Coordination'
<1>1. /\ phase' = "search" /\ threads' = threads /\ done' = FALSE /\ running' = 0
      /\ pc' = [t \in Workers |-> IF threads > 1 /\ t <= threads THEN "new" ELSE "none"]
      /\ threads # 1 => stack' = <<>>
  BY DEF Search
<1>2. Counted' = {} BY <1>1 DEF Counted
<1>3. RunningCounts' BY <1>1, <1>2, FS_EmptySet DEF RunningCounts
<1>4. Phases'
  BY <1>1 DEF Phases
<1> QED BY <1>1, <1>3, <1>4 DEF Coordination, Relied, DoneIsFinal

\* One thread: the others are not there.
LEMMA CoordinationWalk ==
  ASSUME TypeOK, Coordination, (\E e \in Nodes : Visit(e)) \/ Leave
  PROVE  Coordination'
<1>1. UNCHANGED <<threads, pc, queueVars>> /\ stack # <<>>
  BY DEF Visit, Leave, searchVars
<1>2. phase = "search" /\ threads = 1 BY <1>1 DEF Coordination, Phases
<1>3. phase' = "search" \/ (phase' = "idle" /\ stack' = <<>>)
  BY <1>2 DEF Visit, Leave, searchVars
<1>4. Phases' BY <1>1, <1>2, <1>3, CrawlAssumption DEF Coordination, Phases, TypeOK, Workers
<1>5. Counted' = Counted BY <1>1 DEF Counted
<1> QED BY <1>1, <1>4, <1>5 DEF Coordination, Relied, DoneIsFinal, RunningCounts, queueVars

LEMMA CoordinationPop ==
  ASSUME TypeOK, Coordination, NEW t \in Workers, Pop(t)
  PROVE  Coordination'
<1> USE DEF Coordination
<1>1. pc[t] = "pop" /\ t \in Counted /\ UNCHANGED <<threads, phase, stack>>
  BY DEF Pop, Counted, searchVars
<1>2. running \in Nat /\ running >= 1 BY <1>1, CountedSmall
<1>3. CASE Take(t, running - 1)
  <2>1. Counted' = Counted /\ running' = running /\ ~done
    BY <1>1, <1>2, <1>3 DEF Take, Counted, TypeOK, DoneIsFinal
  <2>2. RunningCounts' BY <1>1, <2>1, CountedMoves
  <2> QED BY <1>1, <1>3, <2>1, <2>2 DEF Take, Phases, Relied, DoneIsFinal, TypeOK
<1>4. CASE Finish(t, running - 1)
  <2>1. Counted' = Counted \ {t} /\ running' = running - 1
    BY <1>1, <1>4 DEF Finish, Counted, TypeOK
  <2>2. RunningCounts' BY <1>1, <2>1, CountedMoves
  <2> QED BY <1>1, <1>4, <2>2 DEF Finish, Phases, Relied, DoneIsFinal, TypeOK
<1>5. CASE Last(t)
  <2>1. Counted' = Counted \ {t} /\ running' = running - 1
    BY <1>1, <1>5 DEF Last, NotifyAll, Counted, TypeOK
  <2>2. RunningCounts' BY <1>1, <2>1, CountedMoves
  <2>3. running = 1 BY <1>2, <1>5 DEF Last
  <2>4. Counted = {t} BY <1>1, <2>3, CountedSmall
  <2>5. \A u \in Workers : pc[u] \notin {"list", "append"}
    BY <1>1, <2>4 DEF Counted
  <2>6. \A u \in Workers : /\ pc'[u] \notin {"list", "append", "wait"}
                           /\ pc'[u] = "none" <=> pc[u] = "none"
    BY <1>1, <1>5, <2>5 DEF Last, NotifyAll, TypeOK
  <2>7. queue' = <<>> /\ done' = TRUE BY <1>5 DEF Last
  <2> QED BY <1>1, <2>2, <2>6, <2>7 DEF Phases, Relied, DoneIsFinal
<1>6. CASE running > 1 /\ Sleep(t, running - 1)
  <2>1. Counted' = Counted \ {t} /\ running' = running - 1
    BY <1>1, <1>6 DEF Sleep, Counted, TypeOK
  <2>2. RunningCounts' BY <1>1, <2>1, CountedMoves
  <2>3. Counted \ {t} # {}
    <3>1. SUFFICES ASSUME Counted \ {t} = {} PROVE FALSE OBVIOUS
    <3>2. Counted = {t} BY <1>1, <3>1
    <3>3. Cardinality(Counted) = 1 BY <3>2, FS_Singleton
    <3> QED BY <1>2, <1>6, <3>3 DEF RunningCounts
  <2> QED BY <1>1, <1>6, <2>1, <2>2, <2>3 DEF Sleep, Phases, Relied, DoneIsFinal, TypeOK
<1> QED BY <1>3, <1>4, <1>5, <1>6 DEF Pop

LEMMA CoordinationWakeUp ==
  ASSUME TypeOK, Coordination, NEW t \in Workers, WakeUp(t)
  PROVE  Coordination'
<1> USE DEF Coordination
<1>1. pc[t] = "woken" /\ t \notin Counted /\ UNCHANGED <<threads, phase, stack>>
  BY DEF WakeUp, Counted, searchVars
<1>2. CASE Take(t, running)
  <2>1. Counted' = Counted \cup {t} /\ running' = running + 1 /\ ~done
    BY <1>1, <1>2 DEF Take, Counted, TypeOK, DoneIsFinal
  <2>2. RunningCounts' BY <1>1, <2>1, CountedMoves
  <2> QED BY <1>1, <1>2, <2>1, <2>2 DEF Take, Phases, Relied, DoneIsFinal, TypeOK
<1>3. CASE Finish(t, running)
  <2>1. Counted' = Counted /\ running' = running
    BY <1>1, <1>3 DEF Finish, Counted, TypeOK
  <2>2. RunningCounts' BY <2>1, CountedMoves
  <2> QED BY <1>1, <1>3, <2>2 DEF Finish, Phases, Relied, DoneIsFinal, TypeOK
<1>4. CASE Sleep(t, running)
  <2>1. Counted' = Counted /\ running' = running
    BY <1>1, <1>4 DEF Sleep, Counted, TypeOK
  <2>2. RunningCounts' BY <2>1, CountedMoves
  <2>3. Counted # {} BY <1>1, <1>4 DEF Sleep, Relied
  <2> QED BY <1>1, <1>4, <2>1, <2>2, <2>3 DEF Sleep, Phases, Relied, DoneIsFinal, TypeOK
<1> QED BY <1>2, <1>3, <1>4 DEF WakeUp

\* The other steps of a thread change at most its own place, and wake others up.
LEMMA CoordinationThread ==
  ASSUME TypeOK, Coordination, NEW t \in Workers,
         \/ Start(t) \/ Spurious(t) \/ ReadEnds(t) \/ AppendEnds(t)
         \/ \E e \in todo[t] : Read(t, e) \/ AppendFile(t, e)
  PROVE  Coordination'
<1> USE DEF Coordination
<1>1. UNCHANGED <<threads, phase, stack, done>>
  BY DEF Start, Spurious, ReadEnds, AppendEnds, Read, AppendFile, searchVars, queueVars
<1>2. CASE Start(t)
  <2>1. t \notin Counted /\ Counted' = Counted \cup {t} /\ running' = running + 1
    BY <1>2 DEF Start, Counted, TypeOK
  <2>2. RunningCounts' BY <2>1, CountedMoves
  <2> QED BY <1>1, <1>2, <2>1, <2>2 DEF Start, Phases, Relied, DoneIsFinal, TypeOK
<1>3. CASE Spurious(t)
  <2>1. Counted' = Counted /\ running' = running
    BY <1>3 DEF Spurious, Counted, TypeOK, queueVars
  <2>2. RunningCounts' BY <2>1, CountedMoves
  <2> QED BY <1>1, <1>3, <2>1, <2>2 DEF Spurious, Phases, Relied, DoneIsFinal, TypeOK, queueVars
<1>4. CASE ReadEnds(t) \/ AppendEnds(t) \/ \E e \in todo[t] : AppendFile(t, e)
  <2>1. pc[t] \in {"list", "append"} /\ queue' = queue /\ running' = running
        /\ \/ pc' = pc
           \/ pc' = [pc EXCEPT ![t] = "append"]
           \/ pc' = [pc EXCEPT ![t] = "pop"]
    BY <1>4 DEF ReadEnds, AppendEnds, AppendFile, queueVars
  <2>2. Counted' = Counted BY <2>1 DEF Counted, TypeOK
  <2>3. RunningCounts' BY <2>1, <2>2, CountedMoves
  <2> QED BY <1>1, <2>1, <2>2, <2>3 DEF Phases, Relied, DoneIsFinal, TypeOK
<1>5. CASE \E e \in todo[t] : Read(t, e)
  <2>1. pc[t] = "list" /\ running' = running /\ (pc' = pc \/ pc' = NotifyAll(pc))
    BY <1>5 DEF Read, Push
  <2>2. ~done BY <2>1 DEF DoneIsFinal
  <2>3. Counted' = Counted BY <2>1 DEF Counted, NotifyAll, TypeOK
  <2>4. RunningCounts' BY <2>1, <2>3, CountedMoves
  <2>5. t \in Counted BY <2>1 DEF Counted
  <2>6. \A u \in Workers : /\ pc'[u] = "none" <=> pc[u] = "none"
                           /\ pc'[u] = "end" <=> pc[u] = "end"
    BY <2>1 DEF NotifyAll, TypeOK
  <2> QED BY <1>1, <2>2, <2>3, <2>4, <2>5, <2>6 DEF Phases, Relied, DoneIsFinal
<1> QED BY <1>2, <1>3, <1>4, <1>5

LEMMA CoordinationStep == TypeOK /\ Coordination /\ [Next]_vars => Coordination'
<1> SUFFICES ASSUME TypeOK, Coordination, [Next]_vars PROVE Coordination'
  OBVIOUS
<1>1. ASSUME NEW s \in Views, Search(s) PROVE Coordination'
  BY <1>1, CoordinationSearch
<1>2. CASE Main
  BY <1>2, CoordinationReset, CoordinationWalk DEF Main, NoThreads
<1>3. ASSUME NEW t \in Workers, Thread(t) \/ Spurious(t) PROVE Coordination'
  BY <1>3, CoordinationPop, CoordinationWakeUp, CoordinationThread DEF Thread
<1>4. CASE ReadFails \/ Restart
  BY <1>4, CoordinationReset DEF ReadFails
<1>5. CASE UNCHANGED vars
  BY <1>5 DEF vars, searchVars, queueVars, Coordination, Phases, Relied, RunningCounts,
              DoneIsFinal, Counted
<1> QED BY <1>1, <1>2, <1>3, <1>4, <1>5 DEF Next

LEMMA RunningBound ==
  ASSUME threads' \in 0..MaxThreads, Coordination'
  PROVE  running' \in 0..threads'
<1>1. \A t \in Workers : pc'[t] # "none" => t \in 1..threads'
  BY CrawlAssumption DEF Coordination, Phases, Workers
<1>2. Counted' \in SUBSET (1..threads') BY <1>1 DEF Counted
<1>3. IsFiniteSet(1..threads') /\ Cardinality(1..threads') = threads'
  BY CrawlAssumption, FS_Interval
<1>4. Cardinality(Counted') <= threads' /\ Cardinality(Counted') \in Nat
  BY <1>2, <1>3, FS_Subset, FS_CardinalityType
<1>5. running' = Cardinality(Counted') BY DEF Coordination, RunningCounts
<1> QED BY <1>4, <1>5, CrawlAssumption

LEMMA EntriesType == \A d : Entries(d) \in SUBSET Nodes
BY DEF Entries

LEMMA TypeInit == Init => TypeOK
<1> SUFFICES ASSUME Init PROVE TypeOK OBVIOUS
<1>1. found \in [Files -> Nat] BY DEF Init, Empty
<1>2. stack \in Seq(SUBSET Nodes) /\ queue \in Seq(Dirs) BY DEF Init
<1>3. running \in 0..threads BY CrawlAssumption DEF Init
<1>4. /\ pc \in [Workers -> {"none"}]
      /\ todo \in [Workers -> SUBSET Nodes] /\ kept \in [Workers -> SUBSET Files]
  BY DEF Init
<1> QED BY <1>1, <1>2, <1>3, <1>4 DEF Init, TypeOK

LEMMA TypeStep ==
  ASSUME TypeOK, Coordination, Coordination', [Next]_vars
  PROVE  TypeOK'
<1> USE EntriesType DEF TypeOK
<1>1. ASSUME threads' \in 0..MaxThreads PROVE running' \in 0..threads'
  BY <1>1, RunningBound
<1>2. ASSUME NEW s \in Views, Search(s) PROVE TypeOK'
  <2>1. s \subseteq Nodes \ {Root} BY CrawlAssumption
  <2>2. stack' \in Seq(SUBSET Nodes)
    <3>1. Entries(Root) \in SUBSET Nodes BY EntriesType
    <3>2. <<Entries(Root)>> \in Seq(SUBSET Nodes) BY <3>1
    <3>3. << >> \in Seq(SUBSET Nodes) OBVIOUS
    <3>4. stack' = <<Entries(Root)>> \/ stack' = << >> BY <1>2 DEF Search
    <3> QED BY <3>2, <3>3, <3>4
  <2>3. queue' \in Seq(Dirs) BY <1>2, TreeAssumption, EmptySeq DEF Search
  <2> QED BY <1>1, <1>2, <2>1, <2>2, <2>3 DEF Search, Empty
<1>3. ASSUME Exit, UNCHANGED <<threads, shown, found>> PROVE TypeOK'
  BY <1>1, <1>3, EmptySeq DEF Exit
<1>4. ASSUME NEW e \in Nodes, Visit(e) PROVE TypeOK'
  <2>1. Head(stack) \in SUBSET Nodes /\ Tail(stack) \in Seq(SUBSET Nodes)
    BY <1>4, HeadTailProperties DEF Visit
  <2> DEFINE rest == <<Head(stack) \ {e}>> \o Tail(stack)
  <2>2. rest \in Seq(SUBSET Nodes) BY <2>1
  <2>3. <<Entries(e)>> \o rest \in Seq(SUBSET Nodes) BY <2>2
  <2>4. stack' \in Seq(SUBSET Nodes) BY <1>4, <2>2, <2>3 DEF Visit
  <2>5. found' \in [Files -> Nat] BY <1>4 DEF Visit, Listed
  <2> QED BY <1>1, <1>4, <2>4, <2>5 DEF Visit, searchVars, queueVars
<1>5. CASE Leave
  <2>1. stack' \in Seq(SUBSET Nodes) BY <1>5, HeadTailProperties DEF Leave
  <2> QED BY <1>1, <1>5, <2>1 DEF Leave, queueVars
<1>6. CASE Join
  BY <1>1, <1>6 DEF Join, queueVars
<1>7. CASE Restart
  BY <1>1, <1>7 DEF Restart, Empty, queueVars
<1>8. ASSUME NEW t \in Workers, NEW count, Take(t, count) \/ Finish(t, count) \/ Sleep(t, count) \/ Last(t),
             UNCHANGED <<searchVars, found, stack, kept>>
      PROVE  TypeOK'
  <2>1. queue' \in Seq(Dirs)
    <3>1. queue' = queue \/ (queue # <<>> /\ queue' = Tail(queue))
      BY <1>8 DEF Take, Finish, Sleep, Last
    <3> QED BY <3>1, HeadTailProperties
  <2>2. todo' \in [Workers -> SUBSET Nodes]
    <3>1. todo' = todo \/ todo' = [todo EXCEPT ![t] = Entries(Head(queue))]
      BY <1>8 DEF Take, Finish, Sleep, Last
    <3>2. Entries(Head(queue)) \in SUBSET Nodes BY EntriesType
    <3> QED BY <3>1, <3>2
  <2>4. done' \in BOOLEAN BY <1>8 DEF Take, Finish, Sleep, Last
  <2>3. pc' \in [Workers -> {"none", "new", "pop", "wait", "woken", "list", "append", "end"}]
    BY <1>8 DEF Take, Finish, Sleep, Last, NotifyAll
  <2> QED BY <1>1, <1>8, <2>1, <2>2, <2>3, <2>4 DEF searchVars
<1>9. ASSUME NEW t \in Workers, Start(t) \/ Spurious(t) \/ ReadEnds(t) \/ AppendEnds(t)
      PROVE  TypeOK'
  <2>1. Files \subseteq Nodes BY DEF Nodes
  <2> QED BY <1>1, <1>9, <2>1 DEF Start, Spurious, ReadEnds, AppendEnds, searchVars, queueVars
<1>10. ASSUME NEW t \in Workers, NEW e \in todo[t], Read(t, e) PROVE TypeOK'
  <2>1. queue' = queue \/ (e \in Dirs /\ queue' = Append(queue, e)) BY <1>10 DEF Read, Push
  <2>2. pc' \in [Workers -> {"none", "new", "pop", "wait", "woken", "list", "append", "end"}]
    BY <1>10 DEF Read, Push, NotifyAll
  <2>3. kept' \in [Workers -> SUBSET Files] BY <1>10 DEF Read
  <2>4. queue' \in Seq(Dirs) BY <2>1, AppendProperties
  <2> QED BY <1>1, <1>10, <2>2, <2>3, <2>4 DEF Read, searchVars
<1>11. ASSUME NEW t \in Workers, NEW f \in todo[t], AppendFile(t, f) PROVE TypeOK'
  <2>1. found' = [found EXCEPT ![f] = @ + 1] BY <1>11 DEF AppendFile, Listed
  <2>2. found' \in [Files -> Nat]
    <3>1. CASE f \in Files BY <2>1, <3>1
    <3>2. CASE f \notin Files BY <2>1, <3>2
    <3> QED BY <3>1, <3>2
  <2> QED BY <1>1, <1>11, <2>2 DEF AppendFile, searchVars, queueVars
<1>12. CASE UNCHANGED vars
  BY <1>12 DEF vars, searchVars, queueVars
<1>13. ASSUME NEW t \in Workers, Thread(t) PROVE TypeOK'
  BY <1>8, <1>9, <1>10, <1>11, <1>13 DEF Thread, Pop, WakeUp
<1> QED BY <1>2, <1>3, <1>4, <1>5, <1>6, <1>7, <1>9, <1>12, <1>13
        DEF Next, Main, NoThreads, ReadFails

LEMMA CoordinationInv == Spec => [](TypeOK /\ Coordination)
<1>1. Init => TypeOK /\ Coordination
  BY TypeInit, CoordinationInit
<1>2. TypeOK /\ Coordination /\ [Next]_vars => (TypeOK /\ Coordination)'
  BY TypeStep, CoordinationStep
<1> QED BY <1>1, <1>2, PTL DEF Spec

\* The types, and the bounds of the count, however many threads there are.
THEOREM TypeCorrect == Spec => []TypeOK
BY CoordinationInv, PTL

\* threads_running is the number of threads that run, whatever the interleaving.
THEOREM RunningCountsCorrect == Spec => []RunningCounts
<1>1. Coordination => RunningCounts BY DEF Coordination
<1> QED BY <1>1, CoordinationInv, PTL

\* Nothing comes after done_ is set.
THEOREM DoneIsFinalCorrect == Spec => []DoneIsFinal
<1>1. Coordination => DoneIsFinal BY DEF Coordination
<1> QED BY <1>1, CoordinationInv, PTL

\* The threads never all wait for each other.
THEOREM SomeoneRunsCorrect == Spec => []SomeoneRuns
<1>1. Coordination => SomeoneRuns
  BY DEF Coordination, DoneIsFinal, Relied, SomeoneRuns
<1> QED BY <1>1, CoordinationInv, PTL

-----------------------------------------------------------------------------
(* Where the entries are that a search has still to look at.               *)

\* What thread t has read or is to read of its directory, and not handed on yet.
Held(t) == todo[t] \cup IF pc[t] = "list" THEN kept[t] ELSE {}

Distinct(q) == \A i, j \in 1..Len(q) : q[i] = q[j] => i = j
Disjoint(q) == \A i, j \in 1..Len(q) : i # j => q[i] \cap q[j] = {}

\* What thread t holds was let through when it is to be handed on, and a thread that
\* has no directory holds nothing.
Own(t) ==
  /\ Root \notin Held(t) /\ kept[t] \subseteq shown
  /\ pc[t] = "list" => todo[t] \cap kept[t] = {}
  /\ pc[t] = "append" => todo[t] \subseteq kept[t]
  /\ pc[t] \notin {"list", "append"} => todo[t] = {} /\ kept[t] = {}

\* No entry is in two places.
Apart ==
  /\ Disjoint(stack) /\ Distinct(queue)
  /\ \A t, u \in Workers : t # u => Held(t) \cap Held(u) = {}
  /\ \A t \in Workers : Held(t) \cap Range(queue) = {}

Places ==
  /\ Apart /\ \A t \in Workers : Own(t)
  /\ Root \notin UNION Range(stack)
  /\ Range(queue) \subseteq shown \cup {Root}
  /\ phase # "search" \/ threads < 2 => queue = <<>>

Coverage == phase = "search" /\ threads > 0 => Cuts(Pending, shown, found)

\* Sequences without repetitions.
LEMMA TailDistinct ==
  ASSUME NEW S, NEW q \in Seq(S), q # <<>>, Distinct(q)
  PROVE  /\ Head(q) \in Range(q) /\ Distinct(Tail(q))
         /\ Range(Tail(q)) = Range(q) \ {Head(q)}
<1>1. /\ Len(q) \in Nat \ {0} /\ Head(q) = q[1] /\ Tail(q) \in Seq(S) /\ Len(Tail(q)) = Len(q) - 1
      /\ \A i \in 1..Len(Tail(q)) : Tail(q)[i] = q[i + 1]
  BY EmptySeq, HeadTailProperties
<1>2. Range(q) = {q[i] : i \in 1..Len(q)} /\ Range(Tail(q)) = {Tail(q)[i] : i \in 1..Len(Tail(q))}
  BY <1>1, RangeEquality
<1>3. Distinct(Tail(q)) BY <1>1 DEF Distinct
<1>4. Head(q) \in Range(q) BY <1>1, <1>2
<1>5. Range(Tail(q)) \subseteq Range(q) \ {Head(q)} BY <1>1, <1>2 DEF Distinct
<1>6. ASSUME NEW x \in Range(q), x # Head(q) PROVE x \in Range(Tail(q))
  <2>1. PICK i \in 1..Len(q) : x = q[i] BY <1>2
  <2>2. i # 1 /\ i - 1 \in 1..Len(Tail(q)) BY <2>1, <1>1, <1>6
  <2>3. Tail(q)[i - 1] = x BY <2>1, <2>2, <1>1
  <2> QED BY <2>2, <2>3, <1>2
<1> QED BY <1>3, <1>4, <1>5, <1>6

LEMMA AppendDistinct ==
  ASSUME NEW S, NEW q \in Seq(S), NEW e \in S
  PROVE  /\ Range(Append(q, e)) = Range(q) \cup {e}
         /\ Distinct(q) /\ e \notin Range(q) => Distinct(Append(q, e))
<1>1. /\ Append(q, e) \in Seq(S) /\ Len(q) \in Nat /\ Len(Append(q, e)) = Len(q) + 1
      /\ \A i \in 1..Len(q) : Append(q, e)[i] = q[i]
      /\ Append(q, e)[Len(q) + 1] = e
  BY AppendProperties, LenProperties
<1>2. /\ Range(q) = {q[i] : i \in 1..Len(q)}
      /\ Range(Append(q, e)) = {Append(q, e)[i] : i \in 1..Len(Append(q, e))}
  BY <1>1, RangeEquality
<1> HIDE DEF Range
<1>3. \A i \in 1..Len(q) + 1 : i \in 1..Len(q) \/ i = Len(q) + 1 BY <1>1
<1>4. Range(Append(q, e)) \subseteq Range(q) \cup {e} BY <1>1, <1>2, <1>3
<1>5. Range(q) \cup {e} \subseteq Range(Append(q, e)) BY <1>1, <1>2
<1>6. ASSUME Distinct(q), e \notin Range(q) PROVE Distinct(Append(q, e))
  BY <1>1, <1>2, <1>3, <1>6 DEF Distinct
<1> QED BY <1>4, <1>5, <1>6

\* Stacks of sets that have nothing in common.
LEMMA TailDisjoint ==
  ASSUME NEW S, NEW q \in Seq(SUBSET S), q # <<>>, Disjoint(q)
  PROVE  /\ Head(q) \in SUBSET S /\ Tail(q) \in Seq(SUBSET S) /\ Disjoint(Tail(q))
         /\ UNION Range(q) = Head(q) \cup (UNION Range(Tail(q)))
         /\ Head(q) \cap (UNION Range(Tail(q))) = {}
<1>1. /\ Len(q) \in Nat \ {0} /\ Head(q) = q[1] /\ Tail(q) \in Seq(SUBSET S)
      /\ Head(q) \in SUBSET S /\ Len(Tail(q)) = Len(q) - 1
      /\ \A i \in 1..Len(Tail(q)) : Tail(q)[i] = q[i + 1]
  BY EmptySeq, HeadTailProperties
<1>2. Range(q) = {q[i] : i \in 1..Len(q)} /\ Range(Tail(q)) = {Tail(q)[i] : i \in 1..Len(Tail(q))}
  BY <1>1, RangeEquality
<1>3. Disjoint(Tail(q)) BY <1>1 DEF Disjoint
<1>4. ASSUME NEW x \in UNION Range(q) PROVE x \in Head(q) \/ x \in UNION Range(Tail(q))
  <2>1. PICK i \in 1..Len(q) : x \in q[i] BY <1>2
  <2>2. CASE i = 1 BY <2>1, <2>2, <1>1
  <2>3. CASE i # 1
    <3>1. i - 1 \in 1..Len(Tail(q)) /\ Tail(q)[i - 1] = q[i] BY <2>1, <2>3, <1>1
    <3> QED BY <3>1, <2>1, <1>2
  <2> QED BY <2>2, <2>3
<1>5. ASSUME NEW x \in UNION Range(Tail(q)) PROVE x \in UNION Range(q) /\ x \notin Head(q)
  <2>1. PICK i \in 1..Len(Tail(q)) : x \in Tail(q)[i] BY <1>2
  <2>2. i + 1 \in 1..Len(q) /\ i + 1 # 1 /\ x \in q[i + 1] BY <2>1, <1>1
  <2> QED BY <2>2, <1>1, <1>2 DEF Disjoint
<1>6. Head(q) \subseteq UNION Range(q) BY <1>1, <1>2
<1> QED BY <1>1, <1>3, <1>4, <1>5, <1>6

LEMMA ConsDisjoint ==
  ASSUME NEW S, NEW q \in Seq(SUBSET S), NEW a \in SUBSET S,
         Disjoint(q), a \cap (UNION Range(q)) = {}
  PROVE  /\ <<a>> \o q \in Seq(SUBSET S) /\ Disjoint(<<a>> \o q)
         /\ UNION Range(<<a>> \o q) = a \cup (UNION Range(q))
<1> DEFINE r == <<a>> \o q
<1>1. /\ r \in Seq(SUBSET S) /\ Len(q) \in Nat /\ Len(r) = Len(q) + 1 /\ r[1] = a
      /\ \A i \in 1..Len(q) : r[i + 1] = q[i]
  OBVIOUS
<1>2. Range(q) = {q[i] : i \in 1..Len(q)} /\ Range(r) = {r[i] : i \in 1..Len(r)}
  BY <1>1, RangeEquality
<1> HIDE DEF r
<1>3. \A i \in 1..Len(r) : i = 1 \/ (i - 1 \in 1..Len(q) /\ r[i] = q[i - 1])
  BY <1>1
<1>4. \A i \in 1..Len(q) : q[i] \subseteq UNION Range(q)
  BY <1>2
<1>5. Disjoint(r)
  <2>1. SUFFICES ASSUME NEW i \in 1..Len(r), NEW j \in 1..Len(r), i # j
                 PROVE  r[i] \cap r[j] = {}
    BY DEF Disjoint
  <2>2. CASE i = 1 BY <2>1, <2>2, <1>1, <1>3, <1>4
  <2>3. CASE j = 1 BY <2>1, <2>3, <1>1, <1>3, <1>4
  <2>4. CASE i # 1 /\ j # 1
    <3>1. i - 1 # j - 1 /\ i - 1 \in 1..Len(q) /\ j - 1 \in 1..Len(q)
      BY <2>1, <2>4, <1>1, <1>3
    <3> QED BY <2>1, <2>4, <3>1, <1>3 DEF Disjoint
  <2> QED BY <2>2, <2>3, <2>4
<1>6. ASSUME NEW x \in UNION Range(r) PROVE x \in a \cup (UNION Range(q))
  <2>1. PICK i \in 1..Len(r) : x \in r[i] BY <1>2
  <2>2. CASE i = 1 BY <2>1, <2>2, <1>1
  <2>3. CASE i # 1
    <3>1. i - 1 \in 1..Len(q) /\ x \in q[i - 1] BY <2>1, <2>3, <1>3
    <3> QED BY <3>1, <1>4
  <2> QED BY <2>2, <2>3
<1>7. a \cup (UNION Range(q)) \subseteq UNION Range(r)
  <2>1. a \subseteq UNION Range(r) BY <1>1, <1>2
  <2>2. \A i \in 1..Len(q) : i + 1 \in 1..Len(r) /\ r[i + 1] = q[i] BY <1>1
  <2> QED BY <2>1, <2>2, <1>2
<1> QED BY <1>1, <1>5, <1>6, <1>7 DEF r

-----------------------------------------------------------------------------
(* No entry is lost on the way.                                            *)

Tracked == Places /\ Coverage

\* What the threads other than t hold.
Others(t) == UNION {Held(u) : u \in Workers \ {t}}

LEMMA EmptyRange == Range(<< >>) = {} /\ Len(<< >>) = 0
BY DEF Range

LEMMA PendingSplit ==
  /\ Pending = (UNION Range(stack)) \cup Range(queue) \cup UNION {Held(t) : t \in Workers}
  /\ \A t \in Workers : Pending = (UNION Range(stack)) \cup Range(queue) \cup Held(t) \cup Others(t)
<1>1. Pending = (UNION Range(stack)) \cup Range(queue) \cup UNION {Held(t) : t \in Workers}
  BY DEF Pending, Held
<1>2. ASSUME NEW t \in Workers
      PROVE  UNION {Held(u) : u \in Workers} = Held(t) \cup Others(t)
  BY DEF Others
<1> QED BY <1>1, <1>2

LEMMA PendingSplitNext ==
  /\ Pending' = (UNION Range(stack')) \cup Range(queue') \cup UNION {Held(t)' : t \in Workers}
  /\ \A t \in Workers :
       Pending' = (UNION Range(stack')) \cup Range(queue') \cup Held(t)' \cup Others(t)'
<1>1. Pending' = (UNION Range(stack')) \cup Range(queue') \cup UNION {Held(t)' : t \in Workers}
  BY DEF Pending, Held
<1>2. ASSUME NEW t \in Workers
      PROVE  UNION {Held(u)' : u \in Workers} = Held(t)' \cup Others(t)'
  BY DEF Others
<1> QED BY <1>1, <1>2

\* Without threads, directories and queue there is nothing left.
LEMMA NothingLeft ==
  ASSUME stack' = << >>, queue' = << >>, phase' # "search",
         \A t \in Workers : todo'[t] = {} /\ kept'[t] = {}
  PROVE  Tracked'
<1>1. \A t \in Workers : Held(t)' = {} BY DEF Held
<1>2. Range(queue') = {} /\ Range(stack') = {} /\ Len(stack') = 0 /\ Len(queue') = 0
  BY EmptyRange
<1>3. Apart' BY <1>1, <1>2 DEF Apart, Disjoint, Distinct
<1>4. \A t \in Workers : Own(t)' BY <1>1 DEF Own
<1> QED BY <1>1, <1>2, <1>3, <1>4 DEF Tracked, Places, Coverage

LEMMA TrackedInit == Init => Tracked
<1> SUFFICES ASSUME Init PROVE Tracked OBVIOUS
<1>1. \A t \in Workers : Held(t) = {} BY DEF Held, Init
<1>2. Range(queue) = {} /\ Range(stack) = {} /\ Len(stack) = 0 /\ Len(queue) = 0
  BY EmptyRange DEF Init
<1>3. Apart BY <1>1, <1>2 DEF Apart, Disjoint, Distinct
<1>4. \A t \in Workers : Own(t) BY <1>1 DEF Own, Init
<1> QED BY <1>1, <1>2, <1>3, <1>4 DEF Tracked, Places, Coverage, Init

LEMMA TrackedReset ==
  ASSUME TypeOK, Coordination, Tracked, Exit \/ Restart \/ Join
  PROVE  Tracked'
<1>1. phase' # "search" BY DEF Exit, Restart, Join
<1>2. CASE Exit BY <1>1, <1>2, NothingLeft DEF Exit
<1>3. CASE Restart \/ Join
  <2>1. \A t \in Workers : pc[t] \in {"none", "end"}
    BY <1>3 DEF Restart, Join, Coordination, Phases, Workers
  <2>2. \A t \in Workers : todo'[t] = {} /\ kept'[t] = {}
    BY <1>3, <2>1 DEF Restart, Join, Tracked, Places, Own
  <2>3. stack' = << >> BY <1>3 DEF Restart, Join, Coordination, Phases
  <2>4. CASE Restart BY <1>1, <2>2, <2>3, <2>4, NothingLeft DEF Restart, queueVars, Tracked, Places
  <2>5. CASE Join
    <3>1. 1 \in Workers /\ pc[1] = "end"
      BY <2>5, CrawlAssumption DEF Join, Workers, TypeOK
    <3>2. queue' = << >>
      BY <2>5, <3>1 DEF Join, queueVars, Coordination, Relied, DoneIsFinal
    <3> QED BY <1>1, <2>2, <2>3, <3>2, NothingLeft
  <2> QED BY <1>3, <2>4, <2>5
<1> QED BY <1>2, <1>3

LEMMA TrackedSearch ==
  ASSUME TypeOK, Coordination, Tracked, NEW s \in Views, Search(s)
  PROVE  Tracked'
<1>1. s \subseteq Nodes \ {Root} BY CrawlAssumption
<1>2. \A t \in Workers : todo'[t] = {} /\ kept'[t] = {} /\ pc'[t] \notin {"list", "append"}
  BY DEF Search, Coordination, Phases, Tracked, Places, Own
<1>3. \A t \in Workers : Held(t)' = {} /\ Own(t)'
  BY <1>2 DEF Held, Own
<1>4. Pending' = (UNION Range(stack')) \cup Range(queue')
  BY <1>3, PendingSplitNext
<1>5. \A f \in Files : found'[f] = 0 BY DEF Search, Empty
<1>6. Cuts({Root}, shown', found') BY <1>5, CutsRoot
<1>7. CASE threads = 1
  <2>1. stack' = <<Entries(Root)>> /\ queue' = << >>
    BY <1>7 DEF Search
  <2>2. Disjoint(stack') /\ UNION Range(stack') = Entries(Root)
    BY <2>1 DEF Disjoint, Range
  <2>3. Root \in Dirs BY TreeAssumption
  <2>4. Cuts(({Root} \ {Root}) \cup Entries(Root), shown', found')
    BY <1>6, <2>3, CutsOpen
  <2>5. Root \notin Entries(Root) BY DEF Entries
  <2>6. Cuts(Pending', shown', found')
    <3>1. Pending' = ({Root} \ {Root}) \cup Entries(Root) BY <1>4, <2>1, <2>2, EmptyRange
    <3> QED BY <2>4, <3>1
  <2> QED BY <1>3, <2>1, <2>2, <2>5, <2>6, EmptyRange
          DEF Tracked, Places, Apart, Coverage, Distinct
<1>8. CASE threads > 1
  <2>1. stack' = << >> /\ queue' = <<Root>> /\ phase' = "search" /\ threads' = threads
    BY <1>8 DEF Search, TypeOK
  <2>2. Distinct(queue') /\ Range(queue') = {Root}
    BY <2>1 DEF Distinct, Range
  <2>3. Pending' = {Root} BY <1>4, <2>1, <2>2, EmptyRange
  <2>4. threads \in Nat BY CrawlAssumption DEF TypeOK
  <2> QED BY <1>3, <1>6, <1>8, <2>1, <2>2, <2>3, <2>4, EmptyRange
          DEF Tracked, Places, Apart, Coverage, Disjoint
<1>9. CASE threads = 0
  <2>1. stack' = << >> /\ queue' = << >> /\ threads' = 0
    BY <1>9 DEF Search
  <2> QED BY <1>3, <2>1, EmptyRange DEF Tracked, Places, Apart, Coverage, Disjoint, Distinct
<1> QED BY <1>7, <1>8, <1>9, CrawlAssumption DEF TypeOK

\* A thread whose variables stay as they are, or that has no directory before and after.
LEMMA SameHeld ==
  ASSUME NEW u \in Workers, Own(u), shown' = shown, todo'[u] = todo[u], kept'[u] = kept[u],
         pc'[u] = pc[u] \/ {pc[u], pc'[u]} \cap {"list", "append"} = {}
  PROVE  Held(u)' = Held(u) /\ Own(u)'
<1>1. Held(u)' = Held(u) BY DEF Held
<1> QED BY <1>1 DEF Own

\* Steps that change neither the list nor what anyone holds.
LEMMA TrackedIdle ==
  ASSUME TypeOK, Tracked, UNCHANGED <<searchVars, found, stack, queue, todo, kept>>,
         \A u \in Workers : pc'[u] = pc[u] \/ {pc[u], pc'[u]} \cap {"list", "append"} = {}
  PROVE  Tracked'
<1>1. UNCHANGED <<threads, phase, shown>> BY DEF searchVars
<1>2. \A u \in Workers : Held(u)' = Held(u) /\ Own(u)'
  BY <1>1, SameHeld DEF Tracked, Places
<1>3. Pending' = Pending BY <1>2, PendingSplit, PendingSplitNext
<1>4. Apart' BY <1>2 DEF Tracked, Places, Apart
<1> QED BY <1>1, <1>2, <1>3, <1>4 DEF Tracked, Places, Coverage

\* A search by one thread uses nothing but the stack.
LEMMA Alone ==
  ASSUME Coordination, Tracked, phase = "search", threads = 1
  PROVE  queue = << >> /\ \A t \in Workers : Held(t) = {}
<1>1. \A t \in Workers : pc[t] = "none" BY DEF Coordination, Phases
<1>2. \A t \in Workers : Held(t) = {} BY <1>1 DEF Held, Tracked, Places, Own
<1>3. threads < 2 OBVIOUS
<1>4. queue = << >> BY <1>3 DEF Tracked, Places
<1> QED BY <1>2, <1>4

LEMMA TrackedVisit ==
  ASSUME TypeOK, Coordination, Tracked, NEW e \in Nodes, Visit(e)
  PROVE  /\ Tracked'
         /\ e \in shown \cap Files => e \in Expected(shown) /\ found[e] = 0
<1>1. phase = "search" /\ threads = 1 /\ stack # << >> /\ e \in Head(stack)
  BY DEF Visit, Coordination, Phases
<1>2. Cuts(Pending, shown, found) BY <1>1 DEF Tracked, Coverage
<1> DEFINE rest == <<Head(stack) \ {e}>> \o Tail(stack)
           K == UNION Range(stack)
<1>3. queue = << >> /\ (\A t \in Workers : Held(t) = {})
  BY <1>1, Alone
<1>4. Pending = K BY <1>3, PendingSplit, EmptyRange
<1>5. UNCHANGED <<threads, phase, shown, queue, pc, todo, kept>>
  BY DEF Visit, searchVars, queueVars
<1>6. \A t \in Workers : Held(t)' = {} /\ Own(t)'
  BY <1>3, <1>5, SameHeld DEF Tracked, Places
<1>7. Pending' = UNION Range(stack') BY <1>3, <1>5, <1>6, PendingSplitNext, EmptyRange
<1>8. stack \in Seq(SUBSET Nodes) /\ Disjoint(stack) /\ Root \notin K
  BY DEF TypeOK, Tracked, Places, Apart
<1>9. /\ Head(stack) \in SUBSET Nodes /\ Tail(stack) \in Seq(SUBSET Nodes) /\ Disjoint(Tail(stack))
      /\ K = Head(stack) \cup (UNION Range(Tail(stack)))
      /\ Head(stack) \cap (UNION Range(Tail(stack))) = {}
  BY <1>1, <1>8, TailDisjoint
<1>10. rest \in Seq(SUBSET Nodes) /\ Disjoint(rest) /\ UNION Range(rest) = K \ {e}
  <2> DEFINE top == Head(stack) \ {e}
             under == Tail(stack)
  <2>1. top \in SUBSET Nodes /\ top \cap (UNION Range(under)) = {}
    BY <1>9
  <2>2. under \in Seq(SUBSET Nodes) /\ Disjoint(under) BY <1>9
  <2>3. K \ {e} = top \cup (UNION Range(under)) BY <1>1, <1>9
  <2>4. rest = <<top>> \o under OBVIOUS
  <2> HIDE DEF top, under, rest, K
  <2>5. rest \in Seq(SUBSET Nodes) /\ Disjoint(rest) /\ UNION Range(rest) = top \cup (UNION Range(under))
    BY <2>1, <2>2, <2>4, ConsDisjoint
  <2> QED BY <2>3, <2>5
<1>11. e \in Pending /\ e # Root BY <1>1, <1>4, <1>8, <1>9
<1> HIDE DEF rest, K
<1>12. ASSUME Disjoint(stack'), UNION Range(stack') \subseteq Pending \cup Entries(e),
              Cuts(UNION Range(stack'), shown, found')
       PROVE  Tracked'
  <2>1. Root \notin UNION Range(stack') BY <1>4, <1>8, <1>12 DEF Entries
  <2>2. Apart' BY <1>3, <1>5, <1>6, <1>12, EmptyRange DEF Apart, Distinct
  <2>3. Coverage' BY <1>5, <1>7, <1>12 DEF Coverage
  <2> QED BY <1>3, <1>5, <1>6, <2>1, <2>2, <2>3, EmptyRange DEF Tracked, Places
<1>13. CASE e \in shown \cap Dirs
  <2>1. e \notin Files BY <1>13, TreeAssumption
  <2>2. stack' = <<Entries(e)>> \o rest /\ found' = found
    BY <1>13, <2>1 DEF Visit, rest
  <2>3. Entries(e) \cap Pending = {} BY <1>2, <1>11, CutsFresh
  <2>4. Entries(e) \in SUBSET Nodes /\ Entries(e) \cap (UNION Range(rest)) = {}
    BY <1>4, <1>10, <2>3, EntriesType
  <2>5. Disjoint(stack') /\ UNION Range(stack') = Entries(e) \cup (UNION Range(rest))
    BY <1>10, <2>2, <2>4, ConsDisjoint
  <2>6. UNION Range(stack') = (Pending \ {e}) \cup Entries(e) BY <2>5, <1>4, <1>10
  <2>7. Cuts((Pending \ {e}) \cup Entries(e), shown, found)
    BY <1>2, <1>11, <1>13, CutsOpen
  <2> QED BY <1>12, <2>1, <2>2, <2>5, <2>6, <2>7
<1>14. CASE e \in shown \cap Files
  <2>1. e \notin Dirs BY <1>14, TreeAssumption
  <2>2. stack' = rest /\ found' = [found EXCEPT ![e] = @ + 1]
    BY <1>14, <2>1 DEF Visit, Listed, rest
  <2>3. e \in Expected(shown) /\ found[e] = 0 /\ Cuts(Pending \ {e}, shown, found')
    <3>1. found \in [Files -> Nat] BY DEF TypeOK
    <3>2. e \in Pending /\ e \in Files /\ e \in shown BY <1>11, <1>14
    <3>3. /\ e \in Expected(shown) /\ found[e] = 0
          /\ Cuts(Pending \ {e}, shown, [found EXCEPT ![e] = @ + 1])
      BY <1>2, <3>1, <3>2, CutsFind
    <3> QED BY <2>2, <3>3
  <2> QED BY <1>4, <1>10, <1>12, <2>2, <2>3
<1>15. CASE e \notin shown
  <2>1. stack' = rest /\ found' = found BY <1>15 DEF Visit, rest
  <2>2. Cuts(Pending \ {e}, shown, found) BY <1>2, <1>11, <1>15, CutsIgnore
  <2> QED BY <1>4, <1>10, <1>12, <1>15, <2>1, <2>2
<1> QED BY <1>13, <1>14, <1>15 DEF Nodes

LEMMA TrackedLeave ==
  ASSUME TypeOK, Coordination, Tracked, Leave
  PROVE  /\ Tracked'
         /\ phase' = "idle" => Cuts({}, shown, found)
<1>1. phase = "search" /\ threads = 1 /\ stack # << >> /\ Head(stack) = {}
  BY DEF Leave, Coordination, Phases
<1>2. Cuts(Pending, shown, found) BY <1>1 DEF Tracked, Coverage
<1>3. queue = << >> /\ (\A t \in Workers : Held(t) = {})
  BY <1>1, Alone
<1>4. Pending = UNION Range(stack) BY <1>3, PendingSplit, EmptyRange
<1>5. UNCHANGED <<threads, shown, found, queue, pc, todo, kept>> /\ stack' = Tail(stack)
  BY DEF Leave, queueVars
<1>6. \A t \in Workers : Held(t)' = {} /\ Own(t)'
  BY <1>3, <1>5, SameHeld DEF Tracked, Places
<1>7. Pending' = UNION Range(stack') BY <1>3, <1>5, <1>6, PendingSplitNext, EmptyRange
<1>8. stack \in Seq(SUBSET Nodes) /\ Disjoint(stack) /\ Root \notin UNION Range(stack)
  BY DEF TypeOK, Tracked, Places, Apart
<1>9. Disjoint(stack') /\ UNION Range(stack) = UNION Range(stack')
  BY <1>1, <1>5, <1>8, TailDisjoint
<1>10. Apart' BY <1>3, <1>5, <1>6, <1>9, EmptyRange DEF Apart, Distinct
<1>11. Coverage' BY <1>2, <1>4, <1>5, <1>7, <1>9 DEF Coverage
<1>12. Tracked' BY <1>3, <1>5, <1>6, <1>8, <1>9, <1>10, <1>11, EmptyRange DEF Tracked, Places
<1>13. ASSUME phase' = "idle" PROVE Cuts({}, shown, found)
  <2>1. stack' = << >> BY <1>1, <1>13 DEF Leave
  <2>2. UNION Range(stack') = {} BY <2>1, EmptyRange
  <2> QED BY <1>2, <1>4, <1>9, <2>2
<1> QED BY <1>12, <1>13

\* Where things are in a search by several threads.
LEMMA Together ==
  ASSUME TypeOK, Coordination, Tracked, NEW t \in Workers, pc[t] # "none"
  PROVE  /\ phase = "search" /\ threads > 1 /\ ~ (threads < 2) /\ Cuts(Pending, shown, found)
         /\ Disjoint(stack) /\ UNION Range(stack) = {}
         /\ Pending = Range(queue) \cup Held(t) \cup Others(t)
         /\ Held(t) \cap Others(t) = {} /\ Range(queue) \cap (Held(t) \cup Others(t)) = {}
<1>1. phase = "search" /\ threads > 1 BY DEF Coordination, Phases
<1>2. threads \in Nat BY CrawlAssumption DEF TypeOK
<1>3. stack = << >> BY <1>1, <1>2 DEF Coordination, Phases
<1>4. UNION Range(stack) = {} BY <1>3, EmptyRange
<1>5. Pending = Range(queue) \cup Held(t) \cup Others(t) BY <1>4, PendingSplit
<1>6. Cuts(Pending, shown, found) BY <1>1, <1>2 DEF Tracked, Coverage
<1>7. Apart BY DEF Tracked, Places
<1>8. Held(t) \cap Others(t) = {} BY <1>7 DEF Apart, Others
<1>9. Range(queue) \cap (Held(t) \cup Others(t)) = {} BY <1>7 DEF Apart, Others
<1>10. Disjoint(stack) BY <1>7 DEF Apart
<1> QED BY <1>1, <1>2, <1>4, <1>5, <1>6, <1>8, <1>9, <1>10

\* A step of thread t that leaves alone what the others hold.
LEMMA TrackedThread ==
  ASSUME TypeOK, Coordination, Tracked, NEW t \in Workers, pc[t] # "none",
         UNCHANGED <<threads, phase, shown, stack>>,
         \A u \in Workers \ {t} : todo'[u] = todo[u] /\ kept'[u] = kept[u] /\
            (pc'[u] = pc[u] \/ {pc[u], pc'[u]} \cap {"list", "append"} = {}),
         Own(t)', Distinct(queue'), Range(queue') \subseteq shown \cup {Root},
         Held(t)' \cap Others(t) = {}, Range(queue') \cap (Held(t)' \cup Others(t)) = {},
         Cuts(Range(queue') \cup Held(t)' \cup Others(t), shown, found')
  PROVE  Tracked'
<1>1. \A u \in Workers \ {t} : Held(u)' = Held(u) /\ Own(u)'
  BY SameHeld DEF Tracked, Places
<1>2. Others(t)' = Others(t) BY <1>1 DEF Others
<1>3. \A u \in Workers \ {t} : Held(u) \subseteq Others(t) BY DEF Others
<1>4. UNION Range(stack') = {} /\ Disjoint(stack') BY Together
<1>5. Pending' = Range(queue') \cup Held(t)' \cup Others(t)
  BY <1>2, <1>4, PendingSplitNext
<1>6. Apart'
  <2>1. \A u, v \in Workers : u # v => Held(u)' \cap Held(v)' = {}
    <3>1. SUFFICES ASSUME NEW u \in Workers, NEW v \in Workers, u # v
                   PROVE  Held(u)' \cap Held(v)' = {}
      OBVIOUS
    <3>2. CASE u = t BY <3>1, <3>2, <1>1, <1>3
    <3>3. CASE v = t BY <3>1, <3>3, <1>1, <1>3
    <3>4. CASE u # t /\ v # t BY <3>1, <3>4, <1>1 DEF Tracked, Places, Apart
    <3> QED BY <3>2, <3>3, <3>4
  <2>2. \A u \in Workers : Held(u)' \cap Range(queue') = {} BY <1>1, <1>3
  <2> QED BY <1>4, <2>1, <2>2 DEF Apart
<1>7. Coverage' BY <1>5 DEF Coverage
<1>8. ~ (phase' # "search" \/ threads' < 2) BY Together
<1> QED BY <1>1, <1>4, <1>6, <1>7, <1>8 DEF Tracked, Places

LEMMA TrackedTake ==
  ASSUME TypeOK, Coordination, Tracked, NEW t \in Workers, NEW count,
         pc[t] \in {"pop", "woken"}, Take(t, count),
         UNCHANGED <<searchVars, found, stack, kept>>
  PROVE  Tracked'
<1> DEFINE d == Head(queue)
<1>1. queue # << >> /\ queue \in Seq(Dirs) /\ Distinct(queue) /\ queue' = Tail(queue)
  BY DEF Take, TypeOK, Tracked, Places, Apart
<1>2. d \in Range(queue) /\ Distinct(queue') /\ Range(queue') = Range(queue) \ {d} /\ d \in Dirs
  BY <1>1, TailDistinct, HeadTailProperties
<1>3. todo[t] = {} /\ kept[t] = {} /\ Held(t) = {}
  BY DEF Tracked, Places, Own, Held
<1>4. /\ pc' = [pc EXCEPT ![t] = "list"] /\ todo' = [todo EXCEPT ![t] = Entries(d)]
      /\ kept' = kept /\ found' = found /\ UNCHANGED <<threads, phase, shown, stack>>
  BY DEF Take, searchVars
<1> HIDE DEF d
<1>5. pc'[t] = "list" /\ todo'[t] = Entries(d) /\ kept'[t] = {} /\ Held(t)' = Entries(d)
  BY <1>3, <1>4 DEF TypeOK, Held
<1>6. \A u \in Workers \ {t} : todo'[u] = todo[u] /\ kept'[u] = kept[u] /\ pc'[u] = pc[u]
  BY <1>4 DEF TypeOK
<1>7. /\ Cuts(Pending, shown, found) /\ Pending = Range(queue) \cup Others(t)
      /\ Range(queue) \cap Others(t) = {}
  BY <1>3, Together
<1>8. d \in Pending /\ d \in shown \cup {Root}
  BY <1>2, <1>7 DEF Tracked, Places
<1>9. Cuts((Pending \ {d}) \cup Entries(d), shown, found)
  BY <1>2, <1>7, <1>8, CutsOpen
<1>10. Entries(d) \cap Pending = {} /\ Root \notin Entries(d)
  BY <1>7, <1>8, CutsFresh
<1>11. (Pending \ {d}) \cup Entries(d) = Range(queue') \cup Held(t)' \cup Others(t)
  BY <1>2, <1>5, <1>7
<1>12. Own(t)' BY <1>5, <1>10 DEF Own
<1>13. Cuts(Range(queue') \cup Held(t)' \cup Others(t), shown, found') BY <1>4, <1>9, <1>11
<1>14. Range(queue') \subseteq shown \cup {Root} BY <1>2 DEF Tracked, Places
<1>15. Held(t)' \cap Others(t) = {} /\ Range(queue') \cap (Held(t)' \cup Others(t)) = {}
  BY <1>2, <1>5, <1>7, <1>10
<1> QED BY <1>2, <1>4, <1>6, <1>12, <1>13, <1>14, <1>15, TrackedThread

LEMMA TrackedPop ==
  ASSUME TypeOK, Coordination, Tracked, NEW t \in Workers,
         Pop(t) \/ WakeUp(t) \/ Start(t) \/ Spurious(t)
  PROVE  Tracked'
<1>1. ASSUME NEW count, pc[t] \in {"pop", "woken"}, Take(t, count),
             UNCHANGED <<searchVars, found, stack, kept>>
      PROVE  Tracked'
  BY <1>1, TrackedTake
<1>2. ASSUME NEW count, pc[t] \in {"pop", "woken"}, Finish(t, count) \/ Sleep(t, count) \/ Last(t),
             UNCHANGED <<searchVars, found, stack, kept>>
      PROVE  Tracked'
  <2>1. queue' = queue /\ todo' = todo BY <1>2 DEF Finish, Sleep, Last
  <2>2. \A u \in Workers : pc'[u] = pc[u] \/ {pc[u], pc'[u]} \cap {"list", "append"} = {}
    BY <1>2 DEF Finish, Sleep, Last, NotifyAll, TypeOK
  <2> QED BY <1>2, <2>1, <2>2, TrackedIdle
<1>3. CASE Start(t) \/ Spurious(t)
  <2>1. UNCHANGED <<searchVars, found, stack, queue, todo, kept>>
    BY <1>3 DEF Start, Spurious, queueVars
  <2>2. \A u \in Workers : pc'[u] = pc[u] \/ {pc[u], pc'[u]} \cap {"list", "append"} = {}
    BY <1>3 DEF Start, Spurious, TypeOK
  <2> QED BY <2>1, <2>2, TrackedIdle
<1> QED BY <1>1, <1>2, <1>3 DEF Pop, WakeUp

LEMMA TrackedRead ==
  ASSUME TypeOK, Coordination, Tracked, NEW t \in Workers, NEW e \in todo[t], Read(t, e)
  PROVE  Tracked'
<1>1. pc[t] = "list" BY DEF Read
<1>2. Own(t) /\ e \in Nodes BY DEF Tracked, Places, TypeOK
<1>3. Held(t) = todo[t] \cup kept[t] /\ e \notin kept[t] /\ e \in Held(t) /\ e # Root
  BY <1>1, <1>2 DEF Own, Held
<1>4. /\ Cuts(Pending, shown, found) /\ Pending = Range(queue) \cup Held(t) \cup Others(t)
      /\ Held(t) \cap Others(t) = {} /\ Range(queue) \cap (Held(t) \cup Others(t)) = {}
  BY <1>1, Together
<1>5. /\ todo' = [todo EXCEPT ![t] = @ \ {e}] /\ found' = found
      /\ UNCHANGED <<threads, phase, shown, stack>>
  BY DEF Read, searchVars
<1>6. pc' = pc \/ pc' = NotifyAll(pc) BY DEF Read, Push
<1>7. pc'[t] = "list" /\ todo'[t] = todo[t] \ {e}
  BY <1>1, <1>5, <1>6 DEF NotifyAll, TypeOK
<1>8. \A u \in Workers \ {t} :
         todo'[u] = todo[u] /\ (pc'[u] = pc[u] \/ {pc[u], pc'[u]} \cap {"list", "append"} = {})
  BY <1>5, <1>6 DEF NotifyAll, TypeOK
<1>9. queue \in Seq(Dirs) /\ Distinct(queue) /\ Range(queue) \subseteq shown \cup {Root}
  BY DEF TypeOK, Tracked, Places, Apart
<1>10. CASE e \in shown \cap Dirs
  <2>1. e \notin Files BY <1>10, TreeAssumption
  <2>2. queue' = Append(queue, e) /\ kept' = kept BY <1>10, <2>1 DEF Read, Push
  <2>3. Held(t)' = Held(t) \ {e} BY <1>3, <1>7, <2>2 DEF Held
  <2>4. e \notin Range(queue) /\ e \in Dirs BY <1>3, <1>4, <1>10
  <2>5. Range(queue') = Range(queue) \cup {e} /\ Distinct(queue')
    BY <1>9, <2>2, <2>4, AppendDistinct
  <2>6. Own(t)' BY <1>1, <1>2, <1>5, <1>7, <2>2, <2>3 DEF Own
  <2>7. Range(queue') \cup Held(t)' \cup Others(t) = Pending BY <1>3, <1>4, <2>3, <2>5
  <2>8. Cuts(Range(queue') \cup Held(t)' \cup Others(t), shown, found') BY <1>4, <1>5, <2>7
  <2>9. Range(queue') \subseteq shown \cup {Root} BY <1>9, <1>10, <2>5
  <2>10. Held(t)' \cap Others(t) = {} /\ Range(queue') \cap (Held(t)' \cup Others(t)) = {}
    BY <1>3, <1>4, <2>3, <2>5
  <2> QED BY <1>1, <1>5, <1>8, <2>2, <2>5, <2>6, <2>8, <2>9, <2>10, TrackedThread
<1>11. CASE e \in shown \cap Files
  <2>1. e \notin Dirs BY <1>11, TreeAssumption
  <2>2. queue' = queue /\ kept' = [kept EXCEPT ![t] = @ \cup {e}] BY <1>11, <2>1 DEF Read
  <2>3. kept'[t] = kept[t] \cup {e} /\ \A u \in Workers \ {t} : kept'[u] = kept[u]
    BY <2>2 DEF TypeOK
  <2>4. Held(t)' = Held(t) BY <1>3, <1>7, <2>3 DEF Held
  <2>5. Own(t)' BY <1>1, <1>2, <1>5, <1>7, <1>11, <2>3, <2>4 DEF Own
  <2>6. Cuts(Range(queue') \cup Held(t)' \cup Others(t), shown, found')
    BY <1>4, <1>5, <2>2, <2>4
  <2> QED BY <1>1, <1>4, <1>5, <1>8, <1>9, <2>2, <2>3, <2>4, <2>5, <2>6, TrackedThread
<1>12. CASE e \notin shown
  <2>1. queue' = queue /\ kept' = kept BY <1>12 DEF Read
  <2>2. Held(t)' = Held(t) \ {e} BY <1>3, <1>7, <2>1 DEF Held
  <2>3. Own(t)' BY <1>1, <1>2, <1>5, <1>7, <2>1, <2>2 DEF Own
  <2>4. Cuts(Pending \ {e}, shown, found) BY <1>3, <1>4, <1>12, CutsIgnore
  <2>5. Range(queue') \cup Held(t)' \cup Others(t) = Pending \ {e} BY <1>3, <1>4, <2>1, <2>2
  <2>6. Cuts(Range(queue') \cup Held(t)' \cup Others(t), shown, found') BY <1>5, <2>4, <2>5
  <2>7. Held(t)' \cap Others(t) = {} /\ Range(queue') \cap (Held(t)' \cup Others(t)) = {}
    BY <1>4, <2>1, <2>2
  <2> QED BY <1>1, <1>5, <1>8, <1>9, <2>1, <2>3, <2>6, <2>7, TrackedThread
<1> QED BY <1>2, <1>10, <1>11, <1>12 DEF Nodes

LEMMA TrackedAppend ==
  ASSUME TypeOK, Coordination, Tracked, NEW t \in Workers, NEW f \in todo[t], AppendFile(t, f)
  PROVE  Tracked' /\ f \in Files /\ f \in Expected(shown) /\ found[f] = 0
<1>1. pc[t] = "append" BY DEF AppendFile
<1>2. Own(t) /\ kept[t] \in SUBSET Files BY DEF Tracked, Places, TypeOK
<1>3. Held(t) = todo[t] /\ f \in Held(t) /\ f \in kept[t] /\ f \in shown /\ f \in Files
  BY <1>1, <1>2 DEF Own, Held
<1>4. /\ Cuts(Pending, shown, found) /\ Pending = Range(queue) \cup Held(t) \cup Others(t)
      /\ Held(t) \cap Others(t) = {} /\ Range(queue) \cap (Held(t) \cup Others(t)) = {}
  BY <1>1, Together
<1>5. /\ todo' = [todo EXCEPT ![t] = @ \ {f}] /\ found' = [found EXCEPT ![f] = @ + 1]
      /\ UNCHANGED <<threads, phase, shown, stack, queue, pc, kept>>
  BY DEF AppendFile, Listed, searchVars, queueVars
<1>6. todo'[t] = todo[t] \ {f} /\ \A u \in Workers \ {t} : todo'[u] = todo[u]
  BY <1>5 DEF TypeOK
<1>7. Held(t)' = Held(t) \ {f} BY <1>1, <1>3, <1>5, <1>6 DEF Held
<1>8. f \in Expected(shown) /\ found[f] = 0 /\ Cuts(Pending \ {f}, shown, found')
  <2>1. found \in [Files -> Nat] /\ Cuts(Pending, shown, found) BY <1>4 DEF TypeOK
  <2>2. f \in Pending /\ f \in Files /\ f \in shown BY <1>3, <1>4
  <2>3. /\ f \in Expected(shown) /\ found[f] = 0
        /\ Cuts(Pending \ {f}, shown, [found EXCEPT ![f] = @ + 1])
    BY <2>1, <2>2, CutsFind
  <2> QED BY <1>5, <2>3
<1>9. Range(queue') \cup Held(t)' \cup Others(t) = Pending \ {f} BY <1>3, <1>4, <1>5, <1>7
<1>10. Cuts(Range(queue') \cup Held(t)' \cup Others(t), shown, found') BY <1>8, <1>9
<1>11. Own(t)' BY <1>1, <1>2, <1>5, <1>6, <1>7 DEF Own
<1>12. Distinct(queue') /\ Range(queue') \subseteq shown \cup {Root}
  BY <1>5 DEF Tracked, Places, Apart
<1>13. Held(t)' \cap Others(t) = {} /\ Range(queue') \cap (Held(t)' \cup Others(t)) = {}
  BY <1>4, <1>5, <1>7
<1>14. Tracked' BY <1>1, <1>5, <1>6, <1>10, <1>11, <1>12, <1>13, TrackedThread
<1> QED BY <1>3, <1>8, <1>14

LEMMA TrackedEnds ==
  ASSUME TypeOK, Coordination, Tracked, NEW t \in Workers, ReadEnds(t) \/ AppendEnds(t)
  PROVE  Tracked'
<1>1. pc[t] \in {"list", "append"} /\ todo[t] = {} BY DEF ReadEnds, AppendEnds
<1>2. Own(t) BY DEF Tracked, Places
<1>3. /\ Cuts(Pending, shown, found) /\ Pending = Range(queue) \cup Held(t) \cup Others(t)
      /\ Held(t) \cap Others(t) = {} /\ Range(queue) \cap (Held(t) \cup Others(t)) = {}
  BY <1>1, Together
<1>4. UNCHANGED <<threads, phase, shown, stack, queue, found>>
  BY DEF ReadEnds, AppendEnds, searchVars, queueVars
<1>5. \A u \in Workers \ {t} : todo'[u] = todo[u] /\ kept'[u] = kept[u] /\ pc'[u] = pc[u]
  BY DEF ReadEnds, AppendEnds, TypeOK
<1>6. Held(t)' = Held(t) /\ Own(t)'
  <2>1. CASE ReadEnds(t)
    <3>1. pc[t] = "list" /\ pc'[t] = "append" /\ todo'[t] = kept[t] /\ kept'[t] = kept[t]
      BY <2>1 DEF ReadEnds, TypeOK
    <3> QED BY <3>1, <1>1, <1>2, <1>4 DEF Own, Held
  <2>2. CASE AppendEnds(t)
    <3>1. pc[t] = "append" /\ pc'[t] = "pop" /\ todo'[t] = {} /\ kept'[t] = {}
      BY <2>2, <1>1 DEF AppendEnds, TypeOK
    <3> QED BY <3>1, <1>1, <1>2, <1>4 DEF Own, Held
  <2> QED BY <2>1, <2>2
<1>7. Distinct(queue') /\ Range(queue') \subseteq shown \cup {Root}
  BY <1>4 DEF Tracked, Places, Apart
<1> QED BY <1>1, <1>3, <1>4, <1>5, <1>6, <1>7, TrackedThread

LEMMA TrackedStep == TypeOK /\ Coordination /\ Tracked /\ [Next]_vars => Tracked'
<1> SUFFICES ASSUME TypeOK, Coordination, Tracked, [Next]_vars PROVE Tracked'
  OBVIOUS
<1>1. ASSUME NEW s \in Views, Search(s) PROVE Tracked'
  BY <1>1, TrackedSearch
<1>2. CASE Main
  BY <1>2, TrackedReset, TrackedVisit, TrackedLeave DEF Main, NoThreads
<1>3. ASSUME NEW t \in Workers, Thread(t) \/ Spurious(t) PROVE Tracked'
  BY <1>3, TrackedPop, TrackedRead, TrackedAppend, TrackedEnds DEF Thread
<1>4. CASE ReadFails \/ Restart
  BY <1>4, TrackedReset DEF ReadFails
<1>5. CASE UNCHANGED vars
  BY <1>5, TrackedIdle DEF vars, queueVars
<1> QED BY <1>1, <1>2, <1>3, <1>4, <1>5 DEF Next

LEMMA TrackedInv == Spec => []Tracked
<1>1. Init => Tracked BY TrackedInit
<1>2. TypeOK /\ Coordination /\ Tracked /\ [Next]_vars => Tracked' BY TrackedStep
<1> QED BY <1>1, <1>2, CoordinationInv, PTL DEF Spec

\* Whatever the tree, the threads and their interleaving, a file that has to be found
\* is in the list once, or below exactly what is still to be searched.
THEOREM NothingOverlookedCorrect == Spec => []NothingOverlooked
<1>1. ASSUME Tracked PROVE NothingOverlooked
  <2>1. SUFFICES ASSUME phase = "search", threads > 0, NEW f \in Expected(shown)
                 PROVE  /\ found[f] <= 1
                        /\ found[f] = 0 <=> f \in FilesBelow(shown, Pending \cap (shown \cup {Root}))
    BY DEF NothingOverlooked
  <2>2. Cuts(Pending, shown, found) BY <1>1, <2>1 DEF Tracked, Coverage
  <2>3. /\ found[f] \in {0, 1}
        /\ found[f] = 0 <=> f \in FilesBelow(shown, Pending \cap (shown \cup {Root}))
    BY <2>1, <2>2, CutsSaid
  <2> QED BY <2>3
<1> QED BY <1>1, TrackedInv, PTL

-----------------------------------------------------------------------------
(* Crawl implements CrawlContract.                                         *)

\* The list is complete when a search returns.
LEMMA JoinComplete ==
  ASSUME TypeOK, Coordination, Tracked, Join
  PROVE  Cuts({}, shown, found)
<1>1. phase = "search" /\ threads > 1 /\ (\A t \in 1..threads : pc[t] = "end")
  BY DEF Join
<1>2. threads \in Nat /\ threads <= MaxThreads BY CrawlAssumption DEF TypeOK
<1>3. 1 \in Workers /\ 1 \in 1..threads BY <1>1, <1>2, CrawlAssumption DEF Workers
<1>4. queue = << >> BY <1>1, <1>3 DEF Coordination, Relied, DoneIsFinal
<1>5. \A t \in Workers : pc[t] \in {"none", "end"}
  BY <1>1, <1>2 DEF Coordination, Phases, Workers
<1>6. \A t \in Workers : Held(t) = {} BY <1>5 DEF Tracked, Places, Own, Held
<1>7. stack = << >> BY <1>1, <1>2 DEF Coordination, Phases
<1>8. Pending = {} BY <1>4, <1>6, <1>7, PendingSplit, EmptyRange
<1>9. Cuts(Pending, shown, found) BY <1>1, <1>2 DEF Tracked, Coverage
<1> QED BY <1>8, <1>9

LEMMA ContractReturn ==
  ASSUME phase = "search", phase' = "idle", UNCHANGED <<shown, found>>, Cuts({}, shown, found)
  PROVE  Contract!Return
<1>1. ASSUME NEW f \in Expected(shown) PROVE found[f] = 1
  <2>1. f \in Files BY DEF Expected, FilesBelow
  <2> QED BY <2>1 DEF Cuts
<1>2. \A f \in Expected(shown) : found[f] = 1 BY <1>1
<1> QED BY <1>2 DEF Contract!Return, Contract!Expected, Contract!FilesBelow, Contract!Above,
              Contract!Nodes, Expected, FilesBelow, Above, Nodes

LEMMA ContractFind ==
  ASSUME TypeOK, phase = "search", NEW f \in Files, f \in Expected(shown), found[f] = 0,
         found' = [found EXCEPT ![f] = @ + 1], UNCHANGED <<phase, shown>>
  PROVE  Contract!Find(f)
<1>1. found' = [found EXCEPT ![f] = 1] BY DEF TypeOK
<1> QED BY <1>1 DEF Contract!Find, Contract!Expected, Contract!FilesBelow, Contract!Above,
              Contract!Nodes, Expected, FilesBelow, Above, Nodes

LEMMA ContractStep ==
  ASSUME TypeOK, Coordination, Tracked, [Next]_vars
  PROVE  [Contract!Next]_(Contract!vars)
<1> USE DEF Contract!vars
<1>1. ASSUME NEW s \in Views, Search(s) PROVE Contract!Next
  <2>1. s \in SUBSET Nodes BY CrawlAssumption
  <2>2. Contract!Search(s) BY <1>1 DEF Search, Empty, Contract!Search
  <2>3. s \in SUBSET Contract!Nodes BY <2>1 DEF Nodes, Contract!Nodes
  <2> QED BY <2>2, <2>3 DEF Contract!Next
<1>2. ASSUME NoThreads \/ ReadFails PROVE Contract!Next
  <2>1. phase = "search"
    BY <1>2 DEF NoThreads, ReadFails, Coordination, Phases
  <2>2. Contract!Exit BY <1>2, <2>1 DEF NoThreads, ReadFails, Exit, Contract!Exit
  <2> QED BY <2>2 DEF Contract!Next
<1>3. ASSUME NEW f \in Files, Contract!Find(f) PROVE Contract!Next
  BY <1>3 DEF Contract!Next
<1>4. ASSUME NEW e \in Nodes, Visit(e) PROVE Contract!Next \/ UNCHANGED Contract!vars
  <2>1. UNCHANGED <<phase, shown>> /\ phase = "search"
    BY <1>4 DEF Visit, searchVars, Coordination, Phases
  <2>2. CASE e \in shown \cap Files
    <3>1. e \in Expected(shown) /\ found[e] = 0 BY <1>4, <2>2, TrackedVisit
    <3>2. found' = [found EXCEPT ![e] = @ + 1] BY <1>4, <2>2 DEF Visit, Listed
    <3>3. e \in Files BY <2>2
    <3> QED BY <1>3, <2>1, <3>1, <3>2, <3>3, ContractFind
  <2>3. CASE e \notin shown \cap Files BY <1>4, <2>1, <2>3 DEF Visit
  <2> QED BY <2>2, <2>3
<1>5. ASSUME Leave PROVE Contract!Next \/ UNCHANGED Contract!vars
  <2>1. phase = "search" /\ UNCHANGED <<shown, found>> /\ (phase' = phase \/ phase' = "idle")
    BY <1>5 DEF Leave, Coordination, Phases
  <2>2. ASSUME phase' = "idle" PROVE Contract!Next
    BY <1>5, <2>1, <2>2, TrackedLeave, ContractReturn DEF Contract!Next
  <2> QED BY <2>1, <2>2
<1>6. ASSUME Join PROVE Contract!Next
  <2>1. phase = "search" /\ phase' = "idle" /\ UNCHANGED <<shown, found>>
    BY <1>6 DEF Join
  <2> QED BY <1>6, <2>1, JoinComplete, ContractReturn DEF Contract!Next
<1>7. ASSUME NEW t \in Workers, Thread(t) \/ Spurious(t)
      PROVE  Contract!Next \/ UNCHANGED Contract!vars
  <2>1. ASSUME NEW f \in todo[t], AppendFile(t, f) PROVE Contract!Next
    <3>1. f \in Files /\ f \in Expected(shown) /\ found[f] = 0 BY <2>1, TrackedAppend
    <3>2. phase = "search" BY <2>1 DEF AppendFile, Coordination, Phases
    <3>3. found' = [found EXCEPT ![f] = @ + 1] /\ UNCHANGED <<phase, shown>>
      BY <2>1 DEF AppendFile, Listed, searchVars
    <3> QED BY <1>3, <3>1, <3>2, <3>3, ContractFind
  <2>2. CASE ~ \E f \in todo[t] : AppendFile(t, f)
    BY <1>7, <2>2 DEF Thread, Start, Spurious, Pop, WakeUp, Read, ReadEnds, AppendEnds, searchVars
  <2> QED BY <2>1, <2>2
<1>8. ASSUME Restart PROVE Contract!Next
  BY <1>8 DEF Restart, Empty, Contract!Restart, Contract!Next
<1>9. CASE UNCHANGED vars
  BY <1>9 DEF vars, searchVars
<1> QED BY <1>1, <1>2, <1>4, <1>5, <1>6, <1>7, <1>8, <1>9 DEF Next, Main

\* The list that poll_base gets holds every file that has to be found, once, from any
\* number of threads and over any tree.
THEOREM ImplementsContractCorrect == Spec => ImplementsContract
<1>1. Init => Contract!Init BY DEF Init, Empty, Contract!Init
<1>2. TypeOK /\ Coordination /\ Tracked /\ [Next]_vars => [Contract!Next]_(Contract!vars)
  BY ContractStep
<1> QED BY <1>1, <1>2, CoordinationInv, TrackedInv, PTL
        DEF Spec, ImplementsContract, Contract!Spec
=============================================================================
