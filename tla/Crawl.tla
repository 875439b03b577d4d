------------------------------- MODULE Crawl --------------------------------
(***************************************************************************)
(* Crawler::trigger_search: one search of a snapshot for the files that    *)
(* changed.  With one thread it is a recursive depth-first walk, with more *)
(* the threads share the directories still to be read in a                 *)
(* ConcurrentQueue<fs::path> (concurrent_queue.hpp), and each works out    *)
(* from a count of the running threads when there is nothing left.         *)
(*                                                                         *)
(* What runs under the queue's mutex is one step, up to the wait on the    *)
(* condition variable; the threads interleave at every other entry read    *)
(* and every file appended to the shared list.                             *)
(***************************************************************************)
EXTENDS SourceTree, Sequences, FiniteSets, Functions

CONSTANTS
  MaxThreads,  \* bound: the largest threads_ that is considered
  Views        \* the sets of entries that a search may let through

ASSUME CrawlAssumption ==
  /\ MaxThreads \in Nat
  /\ Views \subseteq SUBSET (Nodes \ {Root})

VARIABLES
  threads,     \* config_.threads_, which may be 0
  phase,       \* "idle", "search", or "exited": the daemon is gone
  shown,       \* the entries that ignore_entry() is false for in this search
  found,       \* how many times each file is in file_list
  stack,       \* depth first: the entries left in each open directory
  queue,       \* queue_
  done,        \* done_
  running,     \* threads_running
  pc,          \* where each thread is; "none" if there is no such thread
  todo,        \* the entries left in its directory, or in its for loop
  kept         \* files_to_enqueue of each thread

searchVars == <<threads, phase, shown>>
queueVars == <<queue, done, running>>
vars == <<searchVars, found, stack, queueVars, pc, todo, kept>>

Workers == 1..MaxThreads

Empty == [f \in Files |-> 0]
Listed(f) == [found EXCEPT ![f] = @ + 1]

Init ==
  /\ threads \in 0..MaxThreads
  /\ phase = "idle" /\ shown = {} /\ found = Empty
  /\ stack = <<>> /\ queue = <<>> /\ done = FALSE /\ running = 0
  /\ pc = [t \in Workers |-> "none"]
  /\ todo = [t \in Workers |-> {}] /\ kept = [t \in Workers |-> {}]

\* l::exit(), or std::terminate for an exception in a thread.
Exit ==
  /\ phase' = "exited"
  /\ stack' = <<>> /\ queue' = <<>> /\ done' = FALSE /\ running' = 0
  /\ pc' = [t \in Workers |-> "none"]
  /\ todo' = [t \in Workers |-> {}] /\ kept' = [t \in Workers |-> {}]

\* The next daemon, maybe with another configuration.
Restart ==
  /\ phase = "exited"
  /\ threads' \in 0..MaxThreads
  /\ phase' = "idle" /\ shown' = {} /\ found' = Empty
  /\ UNCHANGED <<stack, queueVars, pc, todo, kept>>

-----------------------------------------------------------------------------
(* trigger_search, and find_new_files_recursive for one thread.            *)

\* The call: the outermost directory_iterator, or the queue and the threads.
Search(s) ==
  /\ phase = "idle"
  /\ phase' = "search" /\ shown' = s /\ found' = Empty
  /\ stack' = IF threads = 1 THEN <<Entries(Root)>> ELSE <<>>
  /\ queue' = IF threads > 1 THEN <<Root>> ELSE <<>>
  /\ done' = FALSE /\ running' = 0
  /\ pc' = [t \in Workers |-> IF threads > 1 /\ t <= threads THEN "new" ELSE "none"]
  /\ UNCHANGED <<threads, todo, kept>>

\* "Invalid number of worker threads".
NoThreads ==
  /\ phase = "search" /\ threads = 0
  /\ Exit
  /\ UNCHANGED <<threads, shown, found>>

\* Fault: the walk goes on in the subdirectory and forgets the rest of this one.
VisitDropsRest(e) ==
  /\ stack # <<>> /\ e \in Head(stack)
  /\ LET rest == <<Head(stack) \ {e}>> \o Tail(stack) IN
     stack' = IF e \in shown \cap Dirs THEN <<Entries(e)>> \o Tail(stack) ELSE rest
  /\ found' = IF e \in shown \cap Files THEN Listed(e) ELSE found
  /\ UNCHANGED <<searchVars, queueVars, pc, todo, kept>>

\* The next entry of the innermost open directory.
Visit(e) ==
  /\ stack # <<>> /\ e \in Head(stack)
  /\ LET rest == <<Head(stack) \ {e}>> \o Tail(stack) IN
     stack' = IF e \in shown \cap Dirs THEN <<Entries(e)>> \o rest ELSE rest
  /\ found' = IF e \in shown \cap Files THEN Listed(e) ELSE found
  /\ UNCHANGED <<searchVars, queueVars, pc, todo, kept>>

\* A call returns; the outermost one to poll_base.
Leave ==
  /\ stack # <<>> /\ Head(stack) = {}
  /\ stack' = Tail(stack)
  /\ phase' = IF Tail(stack) = <<>> THEN "idle" ELSE phase
  /\ UNCHANGED <<threads, shown, found, queueVars, pc, todo, kept>>

-----------------------------------------------------------------------------
(* ConcurrentQueue: push and pop, each under mutex_.                       *)

\* Every thread in empty_.wait(lk) is to look again.
NotifyAll(p) == [u \in Workers |-> IF p[u] = "wait" THEN "woken" ELSE p[u]]

Push(e) ==
  /\ queue' = Append(queue, e)
  /\ pc' = NotifyAll(pc)

\* Past the while loop with something in the queue.
Take(t, count) ==
  /\ queue # <<>>
  /\ queue' = Tail(queue)
  /\ running' = count + 1
  /\ pc' = [pc EXCEPT ![t] = "list"]
  /\ todo' = [todo EXCEPT ![t] = Entries(Head(queue))]
  /\ UNCHANGED done

\* The loop is left with nothing in the queue: pop() is false, the thread ends.
Finish(t, count) ==
  /\ queue = <<>> /\ done
  /\ running' = count
  /\ pc' = [pc EXCEPT ![t] = "end"]
  /\ UNCHANGED <<queue, done, todo>>

\* Fault: an empty queue is taken for the end whoever else is running.
LastTooSoon(t) ==
  /\ queue = <<>> /\ ~done
  /\ running' = running - 1
  /\ done' = TRUE
  /\ pc' = [NotifyAll(pc) EXCEPT ![t] = "end"]
  /\ UNCHANGED <<queue, todo>>

\* Fault: the last running thread finishes and tells nobody.
LastQuietly(t) ==
  /\ queue = <<>> /\ ~done /\ running = 1
  /\ running' = 0
  /\ done' = TRUE
  /\ pc' = [pc EXCEPT ![t] = "end"]
  /\ UNCHANGED <<queue, todo>>

\* The last running thread finds nothing: done_, and all are told.
Last(t) ==
  /\ queue = <<>> /\ ~done /\ running <= 1
  /\ running' = running - 1
  /\ done' = TRUE
  /\ pc' = [NotifyAll(pc) EXCEPT ![t] = "end"]
  /\ UNCHANGED <<queue, todo>>

\* Fault: a thread that waits still counts as running.
SleepRunning(t, count) ==
  /\ queue = <<>> /\ ~done
  /\ running' = running
  /\ pc' = [pc EXCEPT ![t] = "wait"]
  /\ UNCHANGED <<queue, done, todo>>

\* empty_.wait(lk)
Sleep(t, count) ==
  /\ queue = <<>> /\ ~done
  /\ running' = count
  /\ pc' = [pc EXCEPT ![t] = "wait"]
  /\ UNCHANGED <<queue, done, todo>>

\* pop(), from the decrement on.
Pop(t) ==
  /\ pc[t] = "pop"
  /\ \/ Take(t, running - 1)
     \/ Finish(t, running - 1)
     \/ Last(t)
     \/ running > 1 /\ Sleep(t, running - 1)
  /\ UNCHANGED <<searchVars, found, stack, kept>>

\* pop(), from the wait on.
WakeUp(t) ==
  /\ pc[t] = "woken"
  /\ Take(t, running) \/ Finish(t, running) \/ Sleep(t, running)
  /\ UNCHANGED <<searchVars, found, stack, kept>>

\* The condition variable may let a thread through unasked.
Spurious(t) ==
  /\ pc[t] = "wait"
  /\ pc' = [pc EXCEPT ![t] = "woken"]
  /\ UNCHANGED <<searchVars, found, stack, queueVars, todo, kept>>

-----------------------------------------------------------------------------
(* find_new_files_mt_bfs.                                                  *)

\* Fault: the thread counts itself only when it has something to do.
StartUncounted(t) ==
  /\ pc[t] = "new"
  /\ pc' = [pc EXCEPT ![t] = "pop"]
  /\ UNCHANGED <<searchVars, found, stack, queueVars, todo, kept>>

\* threads_running++, not under the mutex.
Start(t) ==
  /\ pc[t] = "new"
  /\ pc' = [pc EXCEPT ![t] = "pop"]
  /\ running' = running + 1
  /\ UNCHANGED <<searchVars, found, stack, queue, done, todo, kept>>

\* The next entry of the directory: into the queue, kept, or ignored.
Read(t, e) ==
  /\ pc[t] = "list" /\ e \in todo[t]
  /\ todo' = [todo EXCEPT ![t] = @ \ {e}]
  /\ IF e \in shown \cap Dirs THEN Push(e) ELSE UNCHANGED <<queue, pc>>
  /\ kept' = IF e \in shown \cap Files THEN [kept EXCEPT ![t] = @ \cup {e}] ELSE kept
  /\ UNCHANGED <<searchVars, found, stack, done, running>>

ReadEnds(t) ==
  /\ pc[t] = "list" /\ todo[t] = {}
  /\ pc' = [pc EXCEPT ![t] = "append"]
  /\ todo' = [todo EXCEPT ![t] = kept[t]]
  /\ UNCHANGED <<searchVars, found, stack, queueVars, kept>>

\* file_list.emplace_back under file_list_mt_.
AppendFile(t, f) ==
  /\ pc[t] = "append" /\ f \in todo[t]
  /\ todo' = [todo EXCEPT ![t] = @ \ {f}]
  /\ found' = Listed(f)
  /\ UNCHANGED <<searchVars, stack, queueVars, pc, kept>>

\* Fault: files_to_enqueue.clear() is left out.
AppendKeeps(t) ==
  /\ pc[t] = "append" /\ todo[t] = {}
  /\ pc' = [pc EXCEPT ![t] = "pop"]
  /\ UNCHANGED <<searchVars, found, stack, queueVars, todo, kept>>

AppendEnds(t) ==
  /\ pc[t] = "append" /\ todo[t] = {}
  /\ pc' = [pc EXCEPT ![t] = "pop"]
  /\ kept' = [kept EXCEPT ![t] = {}]
  /\ UNCHANGED <<searchVars, found, stack, queueVars, todo>>

\* th.join() of every thread, and the return to poll_base.
Join ==
  /\ phase = "search" /\ threads > 1
  /\ \A t \in 1..threads : pc[t] = "end"
  /\ phase' = "idle"
  /\ pc' = [t \in Workers |-> "none"]
  /\ UNCHANGED <<threads, shown, found, stack, queueVars, todo, kept>>

\* lstat() fails in File's constructor (l::exit), or a directory_iterator throws.
ReadFails ==
  /\ stack # <<>> \/ \E t \in Workers : pc[t] = "list"
  /\ Exit
  /\ UNCHANGED <<threads, shown, found>>

-----------------------------------------------------------------------------
Thread(t) ==
  \/ Start(t)
  \/ Pop(t)
  \/ WakeUp(t)
  \/ \E e \in todo[t] : Read(t, e)
  \/ ReadEnds(t)
  \/ \E f \in todo[t] : AppendFile(t, f)
  \/ AppendEnds(t)

Main ==
  \/ NoThreads
  \/ \E e \in Nodes : Visit(e)
  \/ Leave
  \/ Join

Next ==
  \/ \E s \in Views : Search(s)
  \/ Main
  \/ \E t \in Workers : Thread(t) \/ Spurious(t)
  \/ ReadFails
  \/ Restart

Spec == Init /\ [][Next]_vars

\* The scheduler runs every thread that is neither waiting nor at its end; no
\* thread holds a mutex for ever.  A wait ends only by a notification.
FairSpec == Spec /\ WF_vars(Main) /\ \A t \in Workers : WF_vars(Thread(t))

-----------------------------------------------------------------------------
(* Properties.                                                             *)

\* The threads that have counted themselves and not taken it back.
Counted == {t \in Workers : pc[t] \in {"pop", "list", "append"}}

\* Every variable has its type; the count of running threads stays between 0 and
\* the number of threads although it is changed in and out of the mutex.
TypeOK ==
  /\ threads \in 0..MaxThreads
  /\ phase \in {"idle", "search", "exited"}
  /\ shown \subseteq Nodes \ {Root}
  /\ found \in [Files -> Nat]
  /\ stack \in Seq(SUBSET Nodes)
  /\ queue \in Seq(Dirs) /\ done \in BOOLEAN
  /\ running \in 0..threads
  /\ pc \in [Workers -> {"none", "new", "pop", "wait", "woken", "list", "append", "end"}]
  /\ todo \in [Workers -> SUBSET Nodes] /\ kept \in [Workers -> SUBSET Files]

\* threads_running is the number of threads that may still add to the queue or to
\* the list, which is what the test for the end of the search relies on.
RunningCounts == running = Cardinality(Counted)

\* done_ is final: once it is set nothing is in the queue and no thread is reading
\* a directory or appending files, so no push can come after it.
DoneIsFinal ==
  done => queue = <<>> /\ \A t \in Workers : pc[t] \notin {"list", "append", "wait"}

\* A thread waits only while another one runs that will either fill the queue or
\* end the search: the threads are never all waiting for each other.
SomeoneRuns == (\E t \in Workers : pc[t] = "wait") => Counted # {}

\* What is still to be searched: open directories, the queue, the threads.
Pending ==
  (UNION Range(stack)) \cup Range(queue) \cup
  UNION {todo[t] \cup IF pc[t] = "list" THEN kept[t] ELSE {} : t \in Workers}

\* No file is lost or listed twice on the way: a file that has to be found is in
\* the list once, or else below something that is still to be searched.
NothingOverlooked ==
  phase = "search" /\ threads > 0 => \A f \in Expected(shown) :
    /\ found[f] <= 1
    /\ found[f] = 0 <=> f \in FilesBelow(shown, Pending \cap (shown \cup {Root}))

\* Every search comes to its end.
SearchEnds == phase = "search" ~> phase # "search"

Contract == INSTANCE CrawlContract

\* The list that poll_base gets is complete and without duplicates, from one thread
\* or from many.
ImplementsContract == Contract!Spec
=============================================================================
