--------------------------- MODULE SplittingQueue ---------------------------
(***************************************************************************)
(* flame::exe::SplittingFIFOTaskQueue with its TaskSplitters and workers   *)
(* (flame2/exe/splitting_fifo_task_queue.cpp, task_splitter.cpp,           *)
(* worker_thread.cpp), between a main thread that enqueues tasks and takes *)
(* their completions from doneq_ as Scheduler::RunIteration() does.        *)
(*                                                                         *)
(* A split task stays at the front of queue_ until its last subtask is     *)
(* assigned, and a worker takes mutex_ three times per subtask: to be      *)
(* assigned the task id, to fetch a subtask for that id, and to report.    *)
(* The report keeps mutex_ while it waits for the scheduler's doneq_mutex_.*)
(***************************************************************************)
EXTENDS TaskSplit, FiniteSets

CONSTANTS
  Tasks,          \* task ids the main thread enqueues
  TypeOf,         \* the type of each task; only "agent" tasks can be split
  Population,     \* agents each task has to visit
  Workers,        \* worker threads, one per slot
  SplitLimits,    \* arguments of SetMaxTasksPerSplit tried
  MinSizes,       \* values of min_vector_size_ tried
  MaxEnqueues     \* bound on the calls of Enqueue() for tasks

Term == 0         \* Task::GetTermTaskId()
Slots == Cardinality(Workers)

ASSUME QueueAssumption ==
  /\ Tasks \subseteq Nat \ {Term}
  /\ IsFiniteSet(Workers) /\ Workers # {}
  /\ Population \in [Tasks -> Nat]
  /\ SplitLimits \subseteq Nat \ {0} /\ MinSizes \subseteq Nat \ {0}

\* Slots and limits are size_t, and min_vector_size_ is below half its range: doubled
\* by SplitTask() it does not wrap around to a population it would accept.
ASSUME WidthAssumption ==
  /\ Slots < SizeMod
  /\ \A n \in SplitLimits : n < SizeMod
  /\ \A n \in MinSizes : 2 * n < SizeMod

VARIABLES
  queue_,           \* task ids in FIFO order
  split_map_,       \* the TaskSplitter of each task that is split
  splittable_,      \* task types to split
  max_splits_, min_vector_size_,
  worker,           \* where each worker is
  task_id,          \* the task id each worker holds
  subtask,          \* the agents of the (sub)task each worker runs
  main,             \* where the main thread is
  doneq_,           \* completions not yet seen by the main thread
  outstanding,      \* tasks enqueued and not yet taken from doneq_
  terms,            \* Term ids the destructor has enqueued
  enqueues,         \* calls of Enqueue() so far
  unvisited         \* history: agents of each task not yet visited

confVars == <<splittable_, max_splits_, min_vector_size_>>
schedVars == <<main, doneq_, outstanding, terms, enqueues>>
vars == <<queue_, split_map_, confVars, worker, task_id, subtask, schedVars, unvisited>>

Whole(t) == [offset |-> 0, count |-> Population[t]]

Init ==
  /\ queue_ = <<>> /\ split_map_ = <<>>
  /\ splittable_ = {}
  /\ max_splits_ = Slots
  /\ min_vector_size_ \in MinSizes
  /\ worker = [w \in Workers |-> "get"]
  /\ task_id = [w \in Workers |-> Term]
  /\ subtask = [w \in Workers |-> <<>>]
  /\ main = "schedule" /\ doneq_ = <<>> /\ outstanding = {}
  /\ terms = 0 /\ enqueues = 0
  /\ unvisited = [t \in Tasks |-> {}]

-----------------------------------------------------------------------------
(***************************************************************************)
(* TaskSplitter.  Its counters are size_t: in a build without DEBUG they   *)
(* wrap around instead of throwing.                                        *)
(***************************************************************************)

TaskSplitter(segments) ==
  [pending_ |-> Len(segments), running_ |-> 0, next_ |-> 0, tasks_ |-> segments]

Decrement(x) == (x + SizeMod - 1) % SizeMod

\* Mutant: subtasks that are not yet assigned are forgotten.
IsCompleteIgnoresPending(ts) == ts.running_ = 0

IsComplete(ts) == ts.running_ = 0 /\ ts.pending_ = 0

NonePending(ts) == ts.pending_ = 0

OneTaskDone(ts) == [ts EXCEPT !.running_ = Decrement(@)]

\* Mutant: the assigned subtask does not count as running.
OneTaskAssignedOnly(ts) == [ts EXCEPT !.pending_ = Decrement(@)]

OneTaskAssigned(ts) ==
  [ts EXCEPT !.pending_ = Decrement(@), !.running_ = (@ + 1) % SizeMod]

\* Mutant: the same subtask is handed out again.
TakeTaskAgain(ts) == ts

TakeTask(ts) == [ts EXCEPT !.next_ = @ + 1]

IsSplit(t) == t \in DOMAIN split_map_

SetSplitter(t, ts) ==
  split_map_' = [u \in DOMAIN split_map_ \union {t} |->
                   IF u = t THEN ts ELSE split_map_[u]]

Erase(t) == split_map_' = [u \in DOMAIN split_map_ \ {t} |-> split_map_[u]]

\* Task::SplitTask(): only agent tasks can be divided.
CanSplit(t) ==
  /\ TypeOf[t] \in splittable_
  /\ TypeOf[t] = "agent"
  /\ ~TooSmall(Population[t], max_splits_, min_vector_size_)

SplitTask(t) ==
  TaskSplitter(Segments(0, Population[t],
                        NumSplits(Population[t], max_splits_, min_vector_size_)))

-----------------------------------------------------------------------------
(***************************************************************************)
(* Locks.  mutex_ is held across steps only by a worker that reports a     *)
(* completed task, doneq_mutex_ only by the main thread draining doneq_.   *)
(***************************************************************************)
MutexFree == \A w \in Workers : worker[w] # "report"
DoneqMutexFree == main # "drain"

\* n calls of ready_.notify_one() wake up n blocked workers, or all there are.
Notify(n) ==
  LET blocked == {w \in Workers : worker[w] = "blocked"} IN
  \E W \in SUBSET blocked :
    /\ Cardinality(W) = IF n < Cardinality(blocked) THEN n ELSE Cardinality(blocked)
    /\ worker' = [w \in Workers |-> IF w \in W THEN "get" ELSE worker[w]]

-----------------------------------------------------------------------------
(***************************************************************************)
(* The main thread.                                                        *)
(***************************************************************************)

\* The client changes the configuration between iterations.
ClientHasControl == main = "schedule" /\ outstanding = {}

SetSplittable(type) ==
  /\ ClientHasControl
  /\ splittable_' = splittable_ \union {type}
  /\ UNCHANGED <<queue_, split_map_, max_splits_, min_vector_size_, worker, task_id,
                 subtask, schedVars, unvisited>>

SetMaxTasksPerSplit(n) ==
  /\ ClientHasControl
  /\ max_splits_' = n
  /\ UNCHANGED <<queue_, split_map_, splittable_, min_vector_size_, worker, task_id,
                 subtask, schedVars, unvisited>>

SetMinVectorSize(n) ==
  /\ ClientHasControl
  /\ min_vector_size_' = n
  /\ UNCHANGED <<queue_, split_map_, splittable_, max_splits_, worker, task_id,
                 subtask, schedVars, unvisited>>

\* Mutant: no further workers are woken for the subtasks.
WakeOne(t) == 1

\* Wakeups of Enqueue(): one for the id and one for each further subtask.
WakeupsFor(t) == IF CanSplit(t) THEN Len(SplitTask(t).tasks_) ELSE 1

\* An id that still is in split_map_ would make the call throw; SplitterExact says
\* that the scheduler never enqueues one.
Enqueue(t) ==
  /\ main = "schedule" /\ t \notin outstanding /\ enqueues < MaxEnqueues
  /\ MutexFree
  /\ queue_' = Append(queue_, t)
  /\ IF CanSplit(t) THEN SetSplitter(t, SplitTask(t)) ELSE UNCHANGED split_map_
  /\ Notify(WakeupsFor(t))
  /\ outstanding' = outstanding \union {t}
  /\ enqueues' = enqueues + 1
  /\ unvisited' = [unvisited EXCEPT ![t] = AgentsOf(Whole(t))]
  /\ UNCHANGED <<confVars, task_id, subtask, main, doneq_, terms>>

\* RunIteration() has nothing to enqueue and waits for a completion.
AwaitDone ==
  /\ main = "schedule" /\ outstanding # {}
  /\ main' = IF doneq_ = <<>> THEN "waiting" ELSE "drain"
  /\ UNCHANGED <<queue_, split_map_, confVars, worker, task_id, subtask, doneq_,
                 outstanding, terms, enqueues, unvisited>>

\* The wait on doneq_cond_ returns, notified or spuriously, with doneq_mutex_ held.
MainSpuriousWakeup ==
  /\ main = "waiting"
  /\ main' = "woken"
  /\ UNCHANGED <<queue_, split_map_, confVars, worker, task_id, subtask, doneq_,
                 outstanding, terms, enqueues, unvisited>>

Woken ==
  /\ main = "woken"
  /\ main' = IF doneq_ = <<>> THEN "schedule" ELSE "drain"
  /\ UNCHANGED <<queue_, split_map_, confVars, worker, task_id, subtask, doneq_,
                 outstanding, terms, enqueues, unvisited>>

DrainOne ==
  /\ main = "drain" /\ doneq_ # <<>>
  /\ outstanding' = outstanding \ {doneq_[Len(doneq_)]}
  /\ doneq_' = SubSeq(doneq_, 1, Len(doneq_) - 1)
  /\ UNCHANGED <<queue_, split_map_, confVars, worker, task_id, subtask, main, terms,
                 enqueues, unvisited>>

Drained ==
  /\ main = "drain" /\ doneq_ = <<>>
  /\ main' = "schedule"
  /\ UNCHANGED <<queue_, split_map_, confVars, worker, task_id, subtask, doneq_,
                 outstanding, terms, enqueues, unvisited>>

Destroy ==
  /\ ClientHasControl
  /\ main' = "terminate"
  /\ UNCHANGED <<queue_, split_map_, confVars, worker, task_id, subtask, doneq_,
                 outstanding, terms, enqueues, unvisited>>

\* Mutant: the termination task wakes up nobody.
EnqueueTermSilent ==
  /\ main = "terminate" /\ terms < Slots
  /\ MutexFree
  /\ queue_' = Append(queue_, Term)
  /\ terms' = terms + 1
  /\ UNCHANGED <<split_map_, confVars, worker, task_id, subtask, main, doneq_,
                 outstanding, enqueues, unvisited>>

EnqueueTerm ==
  /\ main = "terminate" /\ terms < Slots
  /\ MutexFree
  /\ queue_' = Append(queue_, Term)
  /\ Notify(1)
  /\ terms' = terms + 1
  /\ UNCHANGED <<split_map_, confVars, task_id, subtask, main, doneq_, outstanding,
                 enqueues, unvisited>>

Join ==
  /\ main = "terminate" /\ terms = Slots
  /\ \A w \in Workers : worker[w] = "exited"
  /\ main' = "destroyed"
  /\ UNCHANGED <<queue_, split_map_, confVars, worker, task_id, subtask, doneq_,
                 outstanding, terms, enqueues, unvisited>>

-----------------------------------------------------------------------------
(***************************************************************************)
(* Workers.                                                                *)
(***************************************************************************)

GetNextTaskWaits(w) ==
  /\ worker[w] = "get" /\ MutexFree
  /\ queue_ = <<>>
  /\ worker' = [worker EXCEPT ![w] = "blocked"]
  /\ UNCHANGED <<queue_, split_map_, confVars, task_id, subtask, schedVars, unvisited>>

SpuriousWakeup(w) ==
  /\ worker[w] = "blocked"
  /\ worker' = [worker EXCEPT ![w] = "get"]
  /\ UNCHANGED <<queue_, split_map_, confVars, task_id, subtask, schedVars, unvisited>>

\* The front id is popped when it is not split or its last subtask is assigned.
GetNextTask(w) ==
  LET t == Head(queue_) IN
  /\ worker[w] = "get" /\ MutexFree
  /\ queue_ # <<>>
  /\ IF IsSplit(t)
     THEN /\ SetSplitter(t, OneTaskAssigned(split_map_[t]))
          /\ queue_' = IF NonePending(split_map_'[t]) THEN Tail(queue_) ELSE queue_
     ELSE queue_' = Tail(queue_) /\ UNCHANGED split_map_
  /\ task_id' = [task_id EXCEPT ![w] = t]
  /\ worker' = [worker EXCEPT ![w] = IF t = Term THEN "exited" ELSE "fetch"]
  /\ UNCHANGED <<confVars, subtask, schedVars, unvisited>>

\* An id in split_map_ stands for its next subtask, any other for the whole task.
\* There is no subtask past the end of tasks_.
GetTaskById(w) ==
  LET t == task_id[w] IN
  /\ worker[w] = "fetch" /\ MutexFree
  /\ IF IsSplit(t)
     THEN /\ split_map_[t].next_ < Len(split_map_[t].tasks_)
          /\ subtask' = [subtask EXCEPT
                           ![w] = split_map_[t].tasks_[split_map_[t].next_ + 1]]
          /\ SetSplitter(t, TakeTask(split_map_[t]))
     ELSE subtask' = [subtask EXCEPT ![w] = Whole(t)] /\ UNCHANGED split_map_
  /\ worker' = [worker EXCEPT ![w] = "run"]
  /\ UNCHANGED <<queue_, confVars, task_id, schedVars, unvisited>>

\* Task::Run() visits the agents of the subtask, without a lock.
Run(w) ==
  /\ worker[w] = "run"
  /\ unvisited' = [unvisited EXCEPT ![task_id[w]] = @ \ AgentsOf(subtask[w])]
  /\ worker' = [worker EXCEPT ![w] = "done"]
  /\ UNCHANGED <<queue_, split_map_, confVars, task_id, subtask, schedVars>>

\* Other subtasks are pending or running: the completion goes no further.
SubtaskDone(w) ==
  LET t == task_id[w] IN
  /\ worker[w] = "done" /\ MutexFree
  /\ IsSplit(t)
  /\ ~IsComplete(OneTaskDone(split_map_[t]))
  /\ SetSplitter(t, OneTaskDone(split_map_[t]))
  /\ worker' = [worker EXCEPT ![w] = "get"]
  /\ UNCHANGED <<queue_, confVars, task_id, subtask, schedVars, unvisited>>

\* The whole task is complete: erase it and, still under mutex_, call back.
TaskDone(w) ==
  LET t == task_id[w] IN
  /\ worker[w] = "done" /\ MutexFree
  /\ IsSplit(t) => IsComplete(OneTaskDone(split_map_[t]))
  /\ Erase(t)
  /\ worker' = [worker EXCEPT ![w] = "report"]
  /\ UNCHANGED <<queue_, confVars, task_id, subtask, schedVars, unvisited>>

\* Mutant: the main thread is not notified.
CallbackSilent(w) ==
  /\ worker[w] = "report"
  /\ DoneqMutexFree
  /\ doneq_' = Append(doneq_, task_id[w])
  /\ worker' = [worker EXCEPT ![w] = "get"]
  /\ UNCHANGED <<queue_, split_map_, confVars, task_id, subtask, main, outstanding,
                 terms, enqueues, unvisited>>

\* Scheduler::TaskDoneCallback() under doneq_mutex_; mutex_ is released after it.
Callback(w) ==
  /\ worker[w] = "report"
  /\ DoneqMutexFree
  /\ doneq_' = Append(doneq_, task_id[w])
  /\ main' = IF main = "waiting" THEN "woken" ELSE main
  /\ worker' = [worker EXCEPT ![w] = "get"]
  /\ UNCHANGED <<queue_, split_map_, confVars, task_id, subtask, outstanding, terms,
                 enqueues, unvisited>>

-----------------------------------------------------------------------------
WorkerStep(w) ==
  \/ GetNextTaskWaits(w) \/ GetNextTask(w) \/ GetTaskById(w)
  \/ Run(w) \/ SubtaskDone(w) \/ TaskDone(w) \/ Callback(w)

MainStep == AwaitDone \/ Woken \/ DrainOne \/ Drained \/ EnqueueTerm \/ Join

Configure ==
  \/ \E y \in {TypeOf[t] : t \in Tasks} : SetSplittable(y)
  \/ \E n \in SplitLimits : SetMaxTasksPerSplit(n)
  \/ \E n \in MinSizes : SetMinVectorSize(n)

Destroyed == main = "destroyed" /\ UNCHANGED vars

Next ==
  \/ Configure
  \/ \E t \in Tasks : Enqueue(t)
  \/ Destroy
  \/ MainStep \/ MainSpuriousWakeup
  \/ \E w \in Workers : WorkerStep(w) \/ SpuriousWakeup(w)
  \/ Destroyed

(***************************************************************************)
(* Threads that can run are scheduled and tasks return.  The number of     *)
(* subtasks is finite, so other threads cannot keep mutex_ from a worker   *)
(* for ever and weak fairness suffices.                                    *)
(***************************************************************************)
Fairness == WF_vars(MainStep) /\ \A w \in Workers : WF_vars(WorkerStep(w))

Spec == Init /\ [][Next]_vars /\ Fairness

-----------------------------------------------------------------------------
(***************************************************************************)
(* Properties.                                                             *)
(***************************************************************************)

Splitter == [pending_ : Nat, running_ : Nat, next_ : Nat,
             tasks_ : Seq([offset : Nat, count : Nat])]

\* Program points, ids and counters have their types; the termination id, which has
\* no task, is never run or reported.
TypeOK ==
  /\ queue_ \in Seq(Tasks \union {Term})
  /\ DOMAIN split_map_ \subseteq Tasks
  /\ \A t \in DOMAIN split_map_ : split_map_[t] \in Splitter
  /\ worker \in [Workers -> {"get", "blocked", "fetch", "run", "done", "report", "exited"}]
  /\ task_id \in [Workers -> Tasks \union {Term}]
  /\ \A w \in Workers :
       worker[w] \in {"fetch", "run", "done", "report"} => task_id[w] \in Tasks
  /\ main \in {"schedule", "waiting", "woken", "drain", "terminate", "destroyed"}
  /\ doneq_ \in Seq(Tasks)
  /\ outstanding \subseteq Tasks
  /\ unvisited \in [Tasks -> SUBSET Nat]

At(t, places) == {w \in Workers : worker[w] \in places /\ task_id[w] = t}

\* GetNextTask() and GetTaskById() take mutex_ separately, yet the counters of a
\* TaskSplitter stay exact: running_ counts the workers that hold the id, next_ the
\* subtasks fetched, and no counter wraps around or passes the end of tasks_.  The
\* entry is gone before the main thread can enqueue the same id again, so that
\* Enqueue() never throws "task id conflict".
SplitterExact ==
  /\ DOMAIN split_map_ \subseteq outstanding
  /\ \A t \in DOMAIN split_map_ :
       LET ts == split_map_[t] IN
       /\ ts.running_ = Cardinality(At(t, {"fetch", "run", "done"}))
       /\ ts.pending_ + Cardinality(At(t, {"fetch"})) + ts.next_ = Len(ts.tasks_)
       /\ ~IsComplete(ts)

\* No two workers ever run the same agent of a task at the same time, and none runs
\* an agent that has been visited already.
NoAgentTwice ==
  /\ \A v, w \in Workers :
       (v # w /\ worker[v] = "run" /\ worker[w] = "run" /\ task_id[v] = task_id[w]) =>
         AgentsOf(subtask[v]) \intersect AgentsOf(subtask[w]) = {}
  /\ \A w \in Workers :
       worker[w] = "run" => AgentsOf(subtask[w]) \subseteq unvisited[task_id[w]]

\* Units of work in the queue that no worker has been assigned.
Units(i) == IF IsSplit(queue_[i]) THEN split_map_[queue_[i]].pending_ ELSE 1
Available == UNION {{i} \X (1..Units(i)) : i \in 1..Len(queue_)}

\* Work never waits for a sleeping worker: while a worker is blocked there are as
\* many workers on their way into GetNextTask() as there are units of work.
EnoughAwake ==
  (\E w \in Workers : worker[w] = "blocked") =>
    Cardinality({w \in Workers : worker[w] = "get"}) >= Cardinality(Available)

\* The queue keeps the promise of module TaskQueue: a task is reported once, and
\* only after every agent of it has been visited.
Promise == INSTANCE TaskQueue WITH
             Agents <- [t \in Tasks |-> AgentsOf(Whole(t))],
             accepted <- outstanding \ {doneq_[i] : i \in 1..Len(doneq_)}

KeepsPromise == Promise!Spec

\* Every enqueued task is eventually reported, although the report needs
\* doneq_mutex_ while it holds mutex_, which Enqueue() needs.
TasksReported == \A t \in Tasks : (t \in outstanding) ~> (t \notin outstanding)

\* The destructor's termination tasks reach every worker.
DestructorReturns == (main = "terminate") ~> (main = "destroyed")
=============================================================================
